------------------------- MODULE NotificationTasks -------------------------
(***************************************************************************)
(* What the two halves of the API share about a NotificationTask           *)
(* (prisma/schema.prisma): whether its row exists, and how often its id    *)
(* has been handed to the BullMQ queue.  Ingest.tla (the producer) writes  *)
(* both; Delivery.tla (the BullMQ workers) only reads them.                *)
(*                                                                         *)
(* A row identifier is never used twice (cuid()), so a row goes from       *)
(* "none" to "live" to "deleted" and never back.                           *)
(***************************************************************************)
EXTENDS Naturals

CONSTANTS
  Tasks,   \* the NotificationTask rows that may ever be inserted
  Faults   \* the failures a run admits, a subset of FaultKinds

\* "crash":   the API process dies and is restarted; Postgres and Redis stay.
\* "reject":  an awaited database or Redis call rejects, before or after it
\*            took effect.
\* "timeout": a provider call that was delivered is reported as failed (the
\*            10 s timeout of the providers).
\* "stall":   a worker that is still running loses its BullMQ job lock.
FaultKinds == {"crash", "reject", "timeout", "stall"}

ASSUME FaultsAssumption == Faults \subseteq FaultKinds

RowStates == {"none", "live", "deleted"}

VARIABLES
  rows,    \* rows[t]:  the state of the row of task t
  added    \* added[t]: the number of queue.add calls made for task t

taskVars == <<rows, added>>

RowsTypeOK == rows \in [Tasks -> RowStates]
AddedTypeOK == added \in [Tasks -> Nat]

NoRows == [t \in Tasks |-> "none"]
NothingAdded == [t \in Tasks |-> 0]

\* INSERT of the rows in S (createManyAndReturn with skipDuplicates).
WithRows(S) == [t \in Tasks |-> IF t \in S THEN "live" ELSE rows[t]]

\* Cascade delete of the rows in S that exist.
WithoutRows(S) ==
  [t \in Tasks |-> IF t \in S /\ rows[t] = "live" THEN "deleted" ELSE rows[t]]
============================================================================
