----------------------------- MODULE ManagePage -----------------------------
(***************************************************************************)
(* The pages that change the table they show: monitors (monitors/page.tsx) *)
(* and the two notification bots (settings/page.tsx), with what the API    *)
(* does to the table.                                                      *)
(*                                                                         *)
(* An execution of a handler of the page awaits the change and, if it      *)
(* succeeds, a new read of the table.  On the bots' sections one busy flag *)
(* keeps all other buttons disabled; on the monitors page it is saving,    *)
(* which concerns the form only.                                           *)
(***************************************************************************)
EXTENDS Naturals, FiniteSets

CONSTANTS
  Rows,       \* the ids of monitors or channels
  Runs,       \* the handler executions that may be under way at once
  NoRow, NoRun

ASSUME ManageAssumption == NoRow \notin Rows /\ NoRun \notin Runs /\ Runs # {}

VARIABLES
  guarded,  \* are all buttons disabled while busy? (the bots' sections)
  table,    \* table[r]: the row r, enabled or not, if it exists
  rows,     \* the state "monitors" or "channels"
  busy,     \* busy, or saving
  run,      \* run[t]: an execution of load, or of a handler that ends in it
  latest,   \* history: the run with the newest read of the table
  stale     \* history: that read did not arrive (last), or since then a read
            \* failed or the answer to a change was lost

manageVars == <<guarded, table, rows, busy, run, latest, stale>>

----------------------------------------------------------------------------
RowStates == {"none", "on", "off"}

Tables == [Rows -> RowStates]

Changes == {"create", "edit", "enable", "disable", "remove", "check"}

RunSteps == {"idle", "asked", "answered", "loading", "loaded"}

RunStates == [pc : RunSteps, op : Changes \cup {"load"}, row : Rows \cup {NoRow},
              ok : BOOLEAN, read : Tables]

NoTable == [r \in Rows |-> "none"]

NoRunYet == [pc |-> "idle", op |-> "load", row |-> NoRow, ok |-> FALSE, read |-> NoTable]

\* Mounted, with the first load under way.
RunsAtFirst ==
  [t \in Runs |-> IF t = CHOOSE u \in Runs : TRUE THEN [NoRunYet EXCEPT !.pc = "loading"]
                  ELSE NoRunYet]

ManageInit ==
  /\ guarded = FALSE
  /\ table = NoTable /\ rows = NoTable
  /\ busy = FALSE
  /\ run = RunsAtFirst /\ latest = NoRun /\ stale = TRUE

\* The page is mounted when this is in the table.
ManageMount(all, stored) ==
  /\ guarded' = all
  /\ table' = stored /\ rows' = NoTable
  /\ busy' = FALSE
  /\ run' = RunsAtFirst /\ latest' = NoRun /\ stale' = TRUE

\* Which handlers set the flag, and which are kept from starting by it.
Flagged(op) == guarded \/ op \in {"create", "edit"}

SetFlag(t) == run[t].op # "load" /\ Flagged(run[t].op)

\* A plausible bug: the flag is cleared only if the change has succeeded.
EndOfSuccess(t) ==
  /\ run' = [run EXCEPT ![t] = NoRunYet]
  /\ busy' = (busy /\ (~SetFlag(t) \/ (run[t].pc = "answered" /\ ~run[t].ok)))

\* finally
End(t) ==
  /\ run' = [run EXCEPT ![t] = NoRunYet]
  /\ busy' = (busy /\ ~SetFlag(t))

----------------------------------------------------------------------------
(***************************************************************************)
(* The buttons.                                                            *)
(***************************************************************************)
Begin(op, r) ==
  /\ Flagged(op) => ~busy
  /\ busy' = (busy \/ Flagged(op))
  /\ \E t \in Runs :
       /\ run[t].pc = "idle"
       /\ run' = [run EXCEPT ![t] = [NoRunYet EXCEPT !.pc = "asked", !.op = op, !.row = r]]
  /\ UNCHANGED <<guarded, table, rows, latest, stale>>

\* The form, and the bots' create.
Create(r) == rows[r] = "none" /\ Begin("create", r)

\* Monitors can be edited, bots cannot.  A form that is open for a monitor stays
\* open when the monitor has gone from the list.
Edit(r) == ~guarded /\ Begin("edit", r)

\* The request names the state that the row shall have.
Toggle(r) ==
  \/ rows[r] = "on" /\ Begin("disable", r)
  \/ rows[r] = "off" /\ Begin("enable", r)

RemoveRow(r) == rows[r] # "none" /\ Begin("remove", r)

Check(r) == rows[r] # "none" /\ Begin("check", r)

----------------------------------------------------------------------------
(***************************************************************************)
(* The API and its answers.                                                *)
(***************************************************************************)
\* ensureExists
Found(t) == table[run[t].row] # "none"

\* The answer is sent.
Succeed(t) ==
  /\ run' = [run EXCEPT ![t].pc = "answered", ![t].ok = TRUE]
  /\ UNCHANGED <<guarded, rows, busy, latest, stale>>

Store(t, s) == table' = [table EXCEPT ![run[t].row] = s]

Asks(t, op) == run[t].pc = "asked" /\ run[t].op = op

\* A new row is enabled (the schema's default).
ApplyCreate(t) == Asks(t, "create") /\ ~Found(t) /\ Store(t, "on") /\ Succeed(t)

\* Name, username and external id.
ApplyEdit(t) == Asks(t, "edit") /\ Found(t) /\ UNCHANGED table /\ Succeed(t)

ApplyEnabled(t) ==
  /\ Asks(t, "enable") \/ Asks(t, "disable")
  /\ Found(t)
  /\ Store(t, IF run[t].op = "enable" THEN "on" ELSE "off")
  /\ Succeed(t)

ApplyRemove(t) == Asks(t, "remove") /\ Found(t) /\ Store(t, "none") /\ Succeed(t)

\* A test message is sent, or the monitor's parameters are looked at.
ApplyCheck(t) == Asks(t, "check") /\ Found(t) /\ UNCHANGED table /\ Succeed(t)

Apply(t) ==
  \/ ApplyCreate(t) \/ ApplyEdit(t) \/ ApplyEnabled(t)
  \/ ApplyRemove(t) \/ ApplyCheck(t)

\* 404, 409, or a failure before anything was changed.
RefuseChange(t) ==
  /\ run[t].pc = "asked"
  /\ run' = [run EXCEPT ![t].pc = "answered"]
  /\ UNCHANGED <<guarded, table, rows, busy, latest, stale>>

AnswerLost(t) ==
  /\ run[t].pc = "answered" /\ run[t].ok
  /\ run' = [run EXCEPT ![t].ok = FALSE]
  /\ latest' = NoRun /\ stale' = TRUE
  /\ UNCHANGED <<guarded, table, rows, busy>>

\* A plausible bug: toggling does not read the table again.
ChangeAnsweredOnce(t) ==
  /\ run[t].pc = "answered"
  /\ IF run[t].ok /\ run[t].op \in {"create", "edit", "remove"}
     THEN run' = [run EXCEPT ![t].pc = "loading"] /\ UNCHANGED busy
     ELSE End(t)
  /\ UNCHANGED <<guarded, table, rows, latest, stale>>

ChangeAnswered(t) ==
  /\ run[t].pc = "answered"
  /\ IF run[t].ok /\ run[t].op # "check"
     THEN run' = [run EXCEPT ![t].pc = "loading"] /\ UNCHANGED busy
     ELSE End(t)
  /\ UNCHANGED <<guarded, table, rows, latest, stale>>

ReadTable(t) ==
  /\ run[t].pc = "loading"
  /\ run' = [run EXCEPT ![t].pc = "loaded", ![t].read = table]
  /\ latest' = t
  /\ stale' = TRUE
  /\ UNCHANGED <<guarded, table, rows, busy>>

TableArrives(t) ==
  /\ run[t].pc = "loaded"
  /\ rows' = run[t].read
  /\ End(t)
  /\ stale' = (t # latest)
  /\ UNCHANGED <<guarded, table, latest>>

\* load catches its errors.
ReadFails(t) ==
  /\ run[t].pc \in {"loading", "loaded"}
  /\ End(t)
  /\ latest' = NoRun /\ stale' = TRUE
  /\ UNCHANGED <<guarded, table, rows>>

\* The steps that the API takes for a request it has verified.
ManageServed == \E t \in Runs : Apply(t) \/ ReadTable(t)

ManageStep ==
  \/ \E r \in Rows : Create(r) \/ Edit(r) \/ Toggle(r) \/ RemoveRow(r) \/ Check(r)
  \/ \E t \in Runs : \/ RefuseChange(t) \/ AnswerLost(t) \/ ChangeAnswered(t)
                     \/ TableArrives(t) \/ ReadFails(t)

ManageAsking == \E t \in Runs : run[t].pc \in {"asked", "loading"}

----------------------------------------------------------------------------
(***************************************************************************)
(* Properties.                                                             *)
(***************************************************************************)
\* Every variable stays within its type.
ManageTypeOK ==
  /\ guarded \in BOOLEAN
  /\ table \in Tables /\ rows \in Tables
  /\ busy \in BOOLEAN
  /\ run \in [Runs -> RunStates]
  /\ latest \in Runs \cup {NoRun}
  /\ stale \in BOOLEAN

\* When nothing is under way, the page shows the table as it is, after whatever
\* changes were made through it at once and however they failed: unless the
\* newest read or the answer to a change was lost, or reads arrived out of order.
ShowsOwnChanges ==
  (\A t \in Runs : run[t].pc = "idle") => stale \/ rows = table

\* The buttons are disabled only while a handler that set the flag is under way,
\* and by one handler: no failure leaves them disabled.
BusyMeansWork ==
  Cardinality({t \in Runs : SetFlag(t)}) = IF busy THEN 1 ELSE 0
============================================================================
