--------------------------- MODULE DeliveryProofs ---------------------------
(***************************************************************************)
(* What Delivery guarantees for any tasks, any finite set of worker slots, *)
(* any MaxAttempts and MaxStalled and any kinds of failure.                *)
(***************************************************************************)
EXTENDS Delivery, FiniteSetTheorems, TLAPS

----------------------------------------------------------------------------
(***************************************************************************)
(* Type correctness.                                                       *)
(***************************************************************************)

\* The columns that an attempt writes.
LEMMA MarkedColumns ==
  ASSUME task \in [Tasks -> TaskColumns], NEW t \in Tasks
  PROVE  /\ Marked(t) \in TaskColumns
         /\ Marked(t).attempts = task[t].attempts + 1
         /\ Marked(t).status = "PROCESSING"
         /\ Marked(t).sentAt = task[t].sentAt
         /\ Marked(t).mocked = task[t].mocked
<1> DEFINE started == [task[t] EXCEPT !.status = "PROCESSING"]
<1>1. /\ started \in TaskColumns
      /\ started.status = "PROCESSING"
      /\ started.attempts = task[t].attempts
      /\ started.sentAt = task[t].sentAt
      /\ started.mocked = task[t].mocked
  BY DEF TaskColumns, Status
<1>2. Marked(t) = [started EXCEPT !.attempts = task[t].attempts + 1]
  BY DEF Marked
<1> HIDE DEF started
<1>3. /\ [started EXCEPT !.attempts = task[t].attempts + 1] \in TaskColumns
      /\ [started EXCEPT !.attempts = task[t].attempts + 1].attempts
           = task[t].attempts + 1
      /\ [started EXCEPT !.attempts = task[t].attempts + 1].status = started.status
      /\ [started EXCEPT !.attempts = task[t].attempts + 1].sentAt = started.sentAt
      /\ [started EXCEPT !.attempts = task[t].attempts + 1].mocked = started.mocked
  BY <1>1 DEF TaskColumns
<1>4. QED
  BY <1>1, <1>2, <1>3

LEMMA SentColumns ==
  ASSUME task \in [Tasks -> TaskColumns], NEW t \in Tasks
  PROVE  /\ Sent(t) \in TaskColumns
         /\ Sent(t).attempts = task[t].attempts
         /\ Sent(t).status = "SENT"
         /\ Sent(t).mocked = task[t].mocked
<1> DEFINE first == [task[t] EXCEPT !.status = "SENT"]
           second == [first EXCEPT !.sentAt = TRUE]
<1>1. /\ first \in TaskColumns /\ first.attempts = task[t].attempts
      /\ first.status = "SENT" /\ first.mocked = task[t].mocked
  BY DEF TaskColumns, Status
<1> HIDE DEF first
<1>2. /\ second \in TaskColumns /\ second.attempts = task[t].attempts
      /\ second.status = "SENT" /\ second.mocked = task[t].mocked
  BY <1>1 DEF TaskColumns
<1>3. Sent(t) = [second EXCEPT !.lastError = FALSE]
  BY DEF Sent, first
<1> HIDE DEF second
<1>4. /\ [second EXCEPT !.lastError = FALSE] \in TaskColumns
      /\ [second EXCEPT !.lastError = FALSE].attempts = second.attempts
      /\ [second EXCEPT !.lastError = FALSE].status = second.status
      /\ [second EXCEPT !.lastError = FALSE].mocked = second.mocked
  BY <1>2 DEF TaskColumns
<1>5. QED
  BY <1>2, <1>3, <1>4

LEMMA FailedColumnsFields ==
  ASSUME task \in [Tasks -> TaskColumns], NEW t \in Tasks
  PROVE  /\ FailedColumns(t) \in TaskColumns
         /\ FailedColumns(t).attempts = task[t].attempts
         /\ FailedColumns(t).status = "FAILED"
         /\ FailedColumns(t).sentAt = task[t].sentAt
         /\ FailedColumns(t).mocked = task[t].mocked
<1> DEFINE first == [task[t] EXCEPT !.status = "FAILED"]
<1>1. /\ first \in TaskColumns
      /\ first.attempts = task[t].attempts
      /\ first.status = "FAILED"
      /\ first.sentAt = task[t].sentAt
      /\ first.mocked = task[t].mocked
  BY DEF TaskColumns, Status
<1>2. FailedColumns(t) = [first EXCEPT !.lastError = TRUE]
  BY DEF FailedColumns
<1> HIDE DEF first
<1>3. /\ [first EXCEPT !.lastError = TRUE] \in TaskColumns
      /\ [first EXCEPT !.lastError = TRUE].attempts = first.attempts
      /\ [first EXCEPT !.lastError = TRUE].status = first.status
      /\ [first EXCEPT !.lastError = TRUE].sentAt = first.sentAt
      /\ [first EXCEPT !.lastError = TRUE].mocked = first.mocked
  BY <1>1 DEF TaskColumns
<1>4. QED
  BY <1>1, <1>2, <1>3

LEMMA ColumnsType ==
  ASSUME task \in [Tasks -> TaskColumns], NEW t \in Tasks
  PROVE  /\ Marked(t) \in TaskColumns
         /\ Sent(t) \in TaskColumns
         /\ FailedColumns(t) \in TaskColumns
  BY MarkedColumns, SentColumns, FailedColumnsFields

\* What BullMQ makes of a job after a rejected attempt.
LEMMA AttemptJob ==
  ASSUME NEW j \in Jobs
  PROVE  /\ AfterAttempt(j) \in Jobs
         /\ AfterAttempt(j).made = j.made + 1
         /\ AfterAttempt(j).stalls = j.stalls
         /\ AfterAttempt(j).state =
              IF j.made + 1 < MaxAttempts THEN "delayed" ELSE "failed"
<1> DEFINE counted == [j EXCEPT !.made = j.made + 1]
           next == IF j.made + 1 < MaxAttempts THEN "delayed" ELSE "failed"
<1>1. /\ counted \in Jobs
      /\ counted.made = j.made + 1
      /\ counted.stalls = j.stalls
  BY DEF Jobs
<1>2. next \in JobStates
  BY DEF JobStates
<1>3. AfterAttempt(j) = [counted EXCEPT !.state = next]
  BY DEF AfterAttempt
<1> HIDE DEF counted, next
<1>4. /\ [counted EXCEPT !.state = next] \in Jobs
      /\ [counted EXCEPT !.state = next].made = counted.made
      /\ [counted EXCEPT !.state = next].stalls = counted.stalls
      /\ [counted EXCEPT !.state = next].state = next
  BY <1>1, <1>2 DEF Jobs
<1>5. QED
  BY <1>1, <1>3, <1>4 DEF next

\* What BullMQ makes of a job that stalled.
LEMMA StalledJob ==
  ASSUME NEW j \in Jobs
  PROVE  /\ AfterStall(j) \in Jobs
         /\ AfterStall(j).made = j.made
         /\ AfterStall(j).stalls = j.stalls + 1
         /\ AfterStall(j).state =
              IF j.stalls < MaxStalled THEN "waiting" ELSE "failed"
<1> DEFINE counted == [j EXCEPT !.stalls = j.stalls + 1]
           next == IF j.stalls < MaxStalled THEN "waiting" ELSE "failed"
<1>1. /\ counted \in Jobs
      /\ counted.made = j.made
      /\ counted.stalls = j.stalls + 1
  BY DEF Jobs
<1>2. next \in JobStates
  BY DEF JobStates
<1>3. AfterStall(j) = [counted EXCEPT !.state = next]
  BY DEF AfterStall
<1> HIDE DEF counted, next
<1>4. /\ [counted EXCEPT !.state = next] \in Jobs
      /\ [counted EXCEPT !.state = next].made = counted.made
      /\ [counted EXCEPT !.state = next].stalls = counted.stalls
      /\ [counted EXCEPT !.state = next].state = next
  BY <1>1, <1>2 DEF Jobs
<1>5. QED
  BY <1>1, <1>3, <1>4 DEF next

\* Every step of Delivery preserves the type invariant.
LEMMA DeliveryTypeStep ==
  ASSUME DeliveryTypeOK, [DeliveryNext]_deliveryVars
  PROVE  DeliveryTypeOK'
<1> USE DeliveryAssumption DEF DeliveryTypeOK, RowsTypeOK, AddedTypeOK
<1> USE DEF Runs, RunSteps, NoRun, Step, Save
<1>1. ASSUME NEW w \in Workers, ProcessStep(w)
      PROVE  DeliveryTypeOK'
  <2>1. CASE Load(w)
    BY <2>1 DEF Load
  <2>2. CASE Mark(w)
    BY <2>2, ColumnsType DEF Mark
  <2>3. CASE Send(w)
    BY <2>3 DEF Send, Notify, Mock, Deliver
  <2>4. CASE RecordSent(w)
    BY <2>4, ColumnsType DEF RecordSent
  <2>5. CASE RecordFailed(w)
    BY <2>5, ColumnsType DEF RecordFailed
  <2>6. CASE Complete(w)
    BY <2>6 DEF Complete, Jobs, JobStates
  <2>7. CASE Retry(w)
    BY <2>7, AttemptJob, StalledJob DEF Retry
  <2>8. QED
    BY <1>1, <2>1, <2>2, <2>3, <2>4, <2>5, <2>6, <2>7 DEF ProcessStep
<1>2. ASSUME NEW w \in Workers, RejectQuery(w) \/ RejectSettle(w)
      PROVE  DeliveryTypeOK'
  <2>1. CASE RejectSettle(w)
    BY <2>1 DEF RejectSettle
  <2>2. CASE RejectQuery(w) /\ run[w].pc = "load"
    BY <2>2 DEF RejectQuery
  <2>3. CASE RejectQuery(w) /\ run[w].pc = "mark"
    BY <2>3, ColumnsType DEF RejectQuery
  <2>4. CASE RejectQuery(w) /\ run[w].pc = "sent"
    BY <2>4, ColumnsType DEF RejectQuery
  <2>5. CASE RejectQuery(w) /\ run[w].pc = "caught"
    BY <2>5 DEF RejectQuery
  <2>6. QED
    BY <1>2, <2>1, <2>2, <2>3, <2>4, <2>5 DEF RejectQuery
<1>3. ASSUME NEW t \in Tasks, Promote(t) \/ Stall(t)
      PROVE  DeliveryTypeOK'
  <2>1. CASE Promote(t)
    BY <2>1 DEF Promote, Jobs, JobStates
  <2>2. CASE Stall(t)
    <3>1. job' \in [Tasks -> Jobs]
      BY <2>2, StalledJob DEF Stall
    <3>2. ASSUME NEW w \in Workers
          PROVE  /\ run'[w] \in Runs
                 /\ run'[w].pc = run[w].pc
                 /\ run'[w].task = run[w].task
                 /\ run'[w].locked => run[w].locked
      BY <2>2 DEF Stall
    <3>3. run' \in [Workers -> Runs]
      BY <2>2, <3>2 DEF Stall
    <3>4. QED
      BY <2>2, <3>1, <3>2, <3>3 DEF Stall
  <2>3. QED
    BY <1>3, <2>1, <2>2
<1>4. ASSUME NEW t \in Tasks, NEW w \in Workers, Fetch(w, t)
      PROVE  DeliveryTypeOK'
  BY <1>4 DEF Fetch, Jobs, JobStates
<1>5. CASE EnvironmentStep
  BY <1>5 DEF EnvironmentStep, InsertRows, AddJob, DeleteRows, WithRows,
              WithoutRows, RowStates
<1>6. CASE DeliveryCrash
  BY <1>6 DEF DeliveryCrash
<1>7. CASE UNCHANGED deliveryVars
  BY <1>7 DEF deliveryVars
<1>8. QED
  BY <1>1, <1>2, <1>3, <1>4, <1>5, <1>6, <1>7 DEF DeliveryNext, DeliveryStep

\* Every reachable state of the workers is type correct.
THEOREM DeliveryTypeCorrect == DeliverySpec => []DeliveryTypeOK
<1>1. DeliveryInit => DeliveryTypeOK
  BY DEF DeliveryInit, DeliveryTypeOK, RowsTypeOK, AddedTypeOK, RowStates,
         NoRows, NothingAdded, TaskColumns, NewTask, Status, Jobs, JobStates,
         NewJob, Runs, RunSteps, NoRun
<1>2. DeliveryTypeOK /\ [DeliveryNext]_deliveryVars => DeliveryTypeOK'
  BY DeliveryTypeStep
<1>3. QED
  BY <1>1, <1>2, PTL DEF DeliverySpec

----------------------------------------------------------------------------
(***************************************************************************)
(* The inductive invariant.                                                *)
(*                                                                         *)
(* AttemptsBounded does not follow from itself: it holds because every     *)
(* attempt is paid for by a rejected attempt, by a stall or by the job     *)
(* being active or completed, and because the run that is about to make    *)
(* one has paid already.  Attempts counts both sides.  It needs Locks:     *)
(* only one run settles an active job, and only while the job is active.   *)
(***************************************************************************)

\* The slots about to count, and about to send, an attempt at task t.
ToMark(t) == {w \in Workers : run[w].task = t /\ run[w].pc \in {"load", "mark"}}
ToSend(t) == {w \in Workers : run[w].task = t /\ run[w].pc = "send"}

\* The attempts that BullMQ has granted to task t.
Granted(t) ==
  job[t].made + job[t].stalls
    + (IF job[t].state \in {"active", "completed"} THEN 1 ELSE 0)

Locks ==
  /\ \A w \in Workers :
       run[w].locked => job[run[w].task].state = "active"
  /\ \A v, w \in Workers :
       run[v].locked /\ run[w].locked /\ run[v].task = run[w].task => v = w
  /\ \A w \in Workers : run[w].pc # "idle" => added[run[w].task] > 0
  /\ \A t \in Tasks : job[t].state # "waiting" => added[t] > 0

Budget ==
  \A t \in Tasks :
    /\ job[t].state # "failed" =>
         job[t].made < MaxAttempts /\ job[t].stalls <= MaxStalled
    /\ job[t].state = "failed" =>
         job[t].made + job[t].stalls <= MaxAttempts + MaxStalled

Attempts ==
  \A t \in Tasks : task[t].attempts + Cardinality(ToMark(t)) <= Granted(t)

Deliveries ==
  \A t \in Tasks : delivered[t] + Cardinality(ToSend(t)) <= task[t].attempts

\* What SENT stands for: a delivery, or a provider that delivers nothing.
Justified(t) == delivered[t] > 0 \/ task[t].mocked

Evidence ==
  /\ \A w \in Workers :
       run[w].pc \in {"sent", "resolved"} => Justified(run[w].task)
  /\ SentWasDelivered

DeliveryInv ==
  /\ DeliveryTypeOK
  /\ Locks
  /\ Budget
  /\ Attempts
  /\ Deliveries
  /\ Evidence

----------------------------------------------------------------------------
(***************************************************************************)
(* What the actions do to the runs.                                        *)
(***************************************************************************)

\* A run under way has a task.
LEMMA RunHasTask ==
  ASSUME DeliveryTypeOK, NEW w \in Workers, run[w].pc # "idle"
  PROVE  run[w].task \in Tasks
  BY DEF DeliveryTypeOK, Runs

\* A step of one run moves that run on and leaves every other run alone.
LEMMA StepMoves ==
  ASSUME DeliveryTypeOK, NEW w \in Workers, NEW next, Step(w, next)
  PROVE  /\ run'[w].pc = next
         /\ run'[w].task = run[w].task
         /\ run'[w].locked = run[w].locked
         /\ \A v \in Workers \ {w} : run'[v] = run[v]
  BY DEF DeliveryTypeOK, Runs, Step

\* A step of processTask that BullMQ does not hear of.
Inner(w) ==
  Load(w) \/ Mark(w) \/ Send(w) \/ RecordSent(w) \/ RecordFailed(w) \/ RejectQuery(w)

LEMMA InnerMoves ==
  ASSUME DeliveryTypeOK, NEW w \in Workers, Inner(w)
  PROVE  /\ run[w].pc # "idle" /\ run[w].task \in Tasks
         /\ run'[w].pc # "idle"
         /\ run'[w].task = run[w].task
         /\ run'[w].locked = run[w].locked
         /\ \A v \in Workers \ {w} : run'[v] = run[v]
         /\ UNCHANGED <<rows, added, job>>
<1>1. PICK next \in RunSteps \ {"idle"} : Step(w, next)
  BY DEF Inner, Load, Mark, Send, Notify, Mock, RecordSent, RecordFailed,
         RejectQuery, RunSteps
<1>2. /\ run[w].pc # "idle"
      /\ UNCHANGED <<rows, added, job>>
  BY DEF Inner, Load, Mark, Send, RecordSent, RecordFailed, RejectQuery
<1>3. QED
  BY <1>1, <1>2, StepMoves, RunHasTask

\* A run that ends leaves every other run alone.
Ends(w) == run' = [run EXCEPT ![w] = NoRun]

LEMMA EndMoves ==
  ASSUME DeliveryTypeOK, NEW w \in Workers, Ends(w)
  PROVE  /\ run'[w] = NoRun
         /\ \A v \in Workers \ {w} : run'[v] = run[v]
  BY DEF DeliveryTypeOK, Ends

\* A stall takes the lock from whoever holds it, and nothing else.
LEMMA StallMoves ==
  ASSUME DeliveryTypeOK, NEW t \in Tasks, Stall(t), NEW w \in Workers
  PROVE  /\ run'[w].pc = run[w].pc
         /\ run'[w].task = run[w].task
         /\ run'[w].locked => run[w].locked /\ run[w].task # t
  BY DEF DeliveryTypeOK, Runs, Stall

----------------------------------------------------------------------------
(***************************************************************************)
(* Locks.                                                                  *)
(***************************************************************************)
LEMMA LocksStep ==
  ASSUME DeliveryTypeOK, Locks, [DeliveryNext]_deliveryVars
  PROVE  Locks'
<1> USE DEF Locks
<1>1. ASSUME NEW w \in Workers, Inner(w)
      PROVE  Locks'
  BY <1>1, InnerMoves
<1>2. ASSUME NEW w \in Workers, Complete(w) \/ Retry(w)
      PROVE  Locks'
  <2>1. /\ Ends(w) /\ UNCHANGED added
        /\ run[w].task \in Tasks /\ run[w].pc # "idle"
    BY <1>2, RunHasTask DEF Complete, Retry, Ends
  <2>2. \A t \in Tasks :
          job'[t].state = job[t].state \/ (t = run[w].task /\ run[w].locked)
    BY <1>2, <2>1 DEF Complete, Retry, DeliveryTypeOK
  <2>3. NoRun.locked = FALSE /\ NoRun.pc = "idle"
    BY DEF NoRun
  <2>4. \A v \in Workers : run'[v].locked =>
          /\ v # w /\ run'[v] = run[v] /\ run[v].pc # "idle"
          /\ run[v].task \in Tasks
    BY <2>1, <2>3, EndMoves, RunHasTask DEF DeliveryTypeOK
  <2>5. \A v \in Workers : run'[v].pc # "idle" => run'[v] = run[v]
    BY <2>1, <2>3, EndMoves
  <2>6. QED
    BY <2>1, <2>2, <2>4, <2>5
<1>3. ASSUME NEW w \in Workers, RejectSettle(w)
      PROVE  Locks'
  BY <1>3, EndMoves DEF RejectSettle, Ends, NoRun
<1>4. ASSUME NEW t \in Tasks, Promote(t)
      PROVE  Locks'
  BY <1>4 DEF Promote, DeliveryTypeOK, Jobs
<1>5. ASSUME NEW t \in Tasks, Stall(t)
      PROVE  Locks'
  <2>1. \A u \in Tasks \ {t} : job'[u] = job[u]
    BY <1>5 DEF Stall, DeliveryTypeOK
  <2>2. added' = added /\ added[t] > 0
    BY <1>5 DEF Stall
  <2>3. \A w \in Workers : run'[w].locked =>
          /\ run[w].locked
          /\ run'[w].task = run[w].task
          /\ run[w].task \in Tasks \ {t}
    BY <1>5, StallMoves, RunHasTask DEF DeliveryTypeOK
  <2>4. QED
    BY <1>5, <2>1, <2>2, <2>3, StallMoves
<1>6. ASSUME NEW t \in Tasks, NEW w \in Workers, Fetch(w, t)
      PROVE  Locks'
  <2>1. /\ run'[w].task = t /\ run'[w].pc = "load"
        /\ \A v \in Workers \ {w} : run'[v] = run[v]
        /\ added' = added /\ added[t] > 0
    BY <1>6 DEF Fetch, DeliveryTypeOK
  <2>2. /\ job[t].state = "waiting" /\ job'[t].state = "active"
        /\ \A u \in Tasks \ {t} : job'[u] = job[u]
    BY <1>6 DEF Fetch, DeliveryTypeOK, Jobs
  <2>3. \A v \in Workers \ {w} :
          run[v].locked => run[v].task \in Tasks \ {t}
    BY <2>2, RunHasTask DEF DeliveryTypeOK
  <2>4. QED
    BY <2>1, <2>2, <2>3
<1>7. CASE EnvironmentStep
  BY <1>7, RunHasTask DEF EnvironmentStep, InsertRows, AddJob, DeleteRows,
                          DeliveryTypeOK, AddedTypeOK
<1>8. CASE DeliveryCrash
  BY <1>8 DEF DeliveryCrash, NoRun
<1>9. CASE UNCHANGED deliveryVars
  BY <1>9 DEF deliveryVars
<1>10. QED
  BY <1>1, <1>2, <1>3, <1>4, <1>5, <1>6, <1>7, <1>8, <1>9
     DEF DeliveryNext, DeliveryStep, ProcessStep, Inner

----------------------------------------------------------------------------
(***************************************************************************)
(* Budget.                                                                 *)
(***************************************************************************)
LEMMA BudgetStep ==
  ASSUME DeliveryTypeOK, Locks, Budget, [DeliveryNext]_deliveryVars
  PROVE  Budget'
<1> USE DEF Budget
<1>1. CASE UNCHANGED job
  BY <1>1
<1>2. ASSUME NEW w \in Workers, Complete(w) \/ Retry(w), job' # job
      PROVE  Budget'
  <2> DEFINE t == run[w].task
  <2>1. t \in Tasks /\ job[t].state = "active" /\ job[t] \in Jobs
    BY <1>2, RunHasTask DEF Complete, Retry, Locks, DeliveryTypeOK
  <2>2. \A u \in Tasks \ {t} : job'[u] = job[u]
    BY <1>2, <2>1 DEF Complete, Retry, DeliveryTypeOK
  <2>3. CASE Complete(w)
    BY <2>1, <2>2, <2>3 DEF Complete, DeliveryTypeOK, Jobs
  <2>4. CASE Retry(w)
    <3>1. job'[t] = AfterAttempt(job[t])
      BY <1>2, <2>1, <2>4 DEF Retry, DeliveryTypeOK
    <3>2. job[t].made \in Nat /\ job[t].stalls \in Nat
      BY <2>1 DEF Jobs
    <3> HIDE DEF t
    <3>3. QED
      BY <2>1, <2>2, <3>1, <3>2, AttemptJob, DeliveryAssumption
  <2>5. QED
    BY <1>2, <2>3, <2>4
<1>3. ASSUME NEW t \in Tasks, Promote(t)
      PROVE  Budget'
  BY <1>3 DEF Promote, DeliveryTypeOK, Jobs
<1>4. ASSUME NEW t \in Tasks, Stall(t)
      PROVE  Budget'
  <2>1. job'[t] = AfterStall(job[t]) /\ job[t].state = "active"
    BY <1>4 DEF Stall, DeliveryTypeOK
  <2>2. \A u \in Tasks \ {t} : job'[u] = job[u]
    BY <1>4 DEF Stall, DeliveryTypeOK
  <2>3. job[t] \in Jobs /\ job[t].made \in Nat /\ job[t].stalls \in Nat
    BY DEF DeliveryTypeOK, Jobs
  <2>4. QED
    BY <2>1, <2>2, <2>3, StalledJob, DeliveryAssumption
<1>5. ASSUME NEW t \in Tasks, NEW w \in Workers, Fetch(w, t)
      PROVE  Budget'
  BY <1>5 DEF Fetch, DeliveryTypeOK, Jobs
<1>6. QED
  BY <1>1, <1>2, <1>3, <1>4, <1>5
     DEF DeliveryNext, DeliveryStep, ProcessStep, EnvironmentStep, InsertRows,
         AddJob, DeleteRows, DeliveryCrash, Load, Mark, Send, RecordSent,
         RecordFailed, RejectQuery, RejectSettle, deliveryVars

----------------------------------------------------------------------------
(***************************************************************************)
(* Attempts and Deliveries: counting slots.                                *)
(***************************************************************************)
LEMMA CountSlots ==
  ASSUME NEW S \in SUBSET Workers, NEW T \in SUBSET Workers, NEW w \in Workers
  PROVE  /\ Cardinality(S) \in Nat /\ Cardinality(T) \in Nat
         /\ T \subseteq S => Cardinality(T) <= Cardinality(S)
         /\ T \subseteq S \cup {w} => Cardinality(T) <= Cardinality(S) + 1
         /\ w \in S /\ T \subseteq S \ {w} => Cardinality(T) + 1 <= Cardinality(S)
<1>1. IsFiniteSet(S) /\ IsFiniteSet(T)
  BY FS_Subset, DeliveryAssumption
<1>2. Cardinality(S) \in Nat /\ Cardinality(T) \in Nat
  BY <1>1, FS_CardinalityType
<1>3. T \subseteq S => Cardinality(T) <= Cardinality(S)
  BY <1>1, FS_Subset
<1>4. /\ IsFiniteSet(S \cup {w})
      /\ Cardinality(S \cup {w}) \in Nat
      /\ Cardinality(S \cup {w}) <= Cardinality(S) + 1
  <2>1. IsFiniteSet(S \cup {w})
    BY FS_Subset, DeliveryAssumption
  <2>2. Cardinality(S \cup {w}) \in Nat
    BY <2>1, FS_CardinalityType
  <2>3. CASE w \in S
    <3>1. S \cup {w} = S
      BY <2>3
    <3>2. QED
      BY <1>1, <1>2, <3>1
  <2>4. CASE w \notin S
    <3>1. Cardinality(S \cup {w}) = Cardinality(S) + 1
      BY <1>1, <2>4, FS_AddElement
    <3>2. QED
      BY <1>2, <2>1, <2>2, <3>1
  <2>5. QED
    BY <2>3, <2>4
<1>5. T \subseteq S \cup {w} => Cardinality(T) <= Cardinality(S) + 1
  <2> SUFFICES ASSUME T \subseteq S \cup {w}
               PROVE  Cardinality(T) <= Cardinality(S) + 1
    OBVIOUS
  <2>1. Cardinality(T) <= Cardinality(S \cup {w})
    BY <1>4, FS_Subset
  <2>2. QED
    BY <1>2, <1>4, <2>1
<1>6. w \in S /\ T \subseteq S \ {w} => Cardinality(T) + 1 <= Cardinality(S)
  <2> SUFFICES ASSUME w \in S, T \subseteq S \ {w}
               PROVE  Cardinality(T) + 1 <= Cardinality(S)
    OBVIOUS
  <2>1. /\ IsFiniteSet(S \ {w})
        /\ Cardinality(S \ {w}) = Cardinality(S) - 1
    BY <1>1, FS_RemoveElement
  <2>2. Cardinality(T) <= Cardinality(S \ {w})
    BY <2>1, FS_Subset
  <2>3. QED
    BY <1>2, <2>1, <2>2
<1>7. QED
  BY <1>2, <1>3, <1>5, <1>6

\* Every slot but w stands where it stood.
OthersStand(w) ==
  \A v \in Workers \ {w} : run'[v].pc = run[v].pc /\ run'[v].task = run[v].task

\* How a step of slot w changes the slots that are to mark, or to send, u.
LEMMA CountStep ==
  ASSUME NEW w \in Workers, OthersStand(w), NEW u
  PROVE  /\ ToMark(u)' \subseteq ToMark(u) \cup {w}
         /\ ToSend(u)' \subseteq ToSend(u) \cup {w}
         /\ run'[w].task # u \/ run'[w].pc \notin {"load", "mark"}
              => ToMark(u)' \subseteq ToMark(u) \ {w}
         /\ run'[w].task # u \/ run'[w].pc # "send"
              => ToSend(u)' \subseteq ToSend(u) \ {w}
  BY DEF OthersStand, ToMark, ToSend

\* If no slot gets nearer to an attempt, no more slots are to make one.
LEMMA CountStill ==
  ASSUME NEW u,
         \A w \in Workers :
            \/ run'[w].pc = run[w].pc /\ run'[w].task = run[w].task
            \/ run'[w].pc \notin {"load", "mark", "send"}
  PROVE  /\ Cardinality(ToMark(u)') \in Nat /\ Cardinality(ToMark(u)) \in Nat
         /\ Cardinality(ToSend(u)') \in Nat /\ Cardinality(ToSend(u)) \in Nat
         /\ Cardinality(ToMark(u)') <= Cardinality(ToMark(u))
         /\ Cardinality(ToSend(u)') <= Cardinality(ToSend(u))
<1>1. /\ ToMark(u)' \subseteq ToMark(u) /\ ToMark(u) \subseteq Workers
      /\ ToSend(u)' \subseteq ToSend(u) /\ ToSend(u) \subseteq Workers
  BY DEF ToMark, ToSend
<1>2. CASE Workers = {}
  <2>1. ToMark(u) = {} /\ ToMark(u)' = {} /\ ToSend(u) = {} /\ ToSend(u)' = {}
    BY <1>1, <1>2
  <2>2. Cardinality({}) = 0
    BY FS_EmptySet
  <2>3. QED
    BY <2>1, <2>2
<1>3. CASE Workers # {}
  <2>1. PICK w \in Workers : TRUE
    BY <1>3
  <2>2. QED
    BY <1>1, <2>1, CountSlots
<1>4. QED
  BY <1>2, <1>3

\* What a step of processTask does to the two counters of its task.
LEMMA InnerCounts ==
  ASSUME DeliveryTypeOK, NEW w \in Workers, Inner(w)
  PROVE  LET t == run[w].task IN
         /\ \A u \in Tasks :
              \/ task'[u].attempts = task[u].attempts
              \/ /\ u = t /\ run[w].pc = "mark"
                 /\ task'[u].attempts = task[u].attempts + 1
         /\ \A u \in Tasks :
              \/ delivered'[u] = delivered[u]
              \/ /\ u = t /\ run[w].pc = "send"
                 /\ delivered'[u] = delivered[u] + 1
         /\ run[w].pc = "send" => run'[w].pc \notin {"load", "mark", "send"}
         /\ run[w].pc = "mark" => run'[w].pc \notin {"load", "mark"}
         /\ run'[w].pc = "load" => FALSE
         /\ run'[w].pc = "mark" => run[w].pc = "load"
         /\ run'[w].pc = "send" =>
              run[w].pc = "mark" /\ task'[t].attempts = task[t].attempts + 1
<1> DEFINE t == run[w].task
<1> USE DEF DeliveryTypeOK, Save
<1>1. t \in Tasks
  BY InnerMoves
<1>2. CASE Load(w)
  BY <1>2, StepMoves DEF Load
<1>3. CASE Mark(w)
  BY <1>1, <1>3, StepMoves, MarkedColumns DEF Mark
<1>4. CASE Send(w)
  BY <1>1, <1>4, StepMoves DEF Send, Notify, Mock, Deliver
<1>5. CASE RecordSent(w)
  BY <1>1, <1>5, StepMoves, SentColumns DEF RecordSent
<1>6. CASE RecordFailed(w)
  BY <1>1, <1>6, StepMoves, FailedColumnsFields DEF RecordFailed
<1>7. CASE RejectQuery(w)
  <2>1. delivered' = delivered
    BY <1>7 DEF RejectQuery
  <2>2. CASE run[w].pc = "load"
    BY <1>7, <2>1, <2>2, StepMoves DEF RejectQuery
  <2>3. CASE run[w].pc = "mark"
    BY <1>1, <1>7, <2>1, <2>3, StepMoves, MarkedColumns DEF RejectQuery
  <2>4. CASE run[w].pc = "sent"
    BY <1>1, <1>7, <2>1, <2>4, StepMoves, SentColumns DEF RejectQuery
  <2>5. CASE run[w].pc = "caught"
    BY <1>7, <2>1, <2>5, StepMoves DEF RejectQuery
  <2>6. QED
    BY <1>7, <2>2, <2>3, <2>4, <2>5 DEF RejectQuery
<1>8. QED
  BY <1>2, <1>3, <1>4, <1>5, <1>6, <1>7 DEF Inner

\* The steps that BullMQ takes, but for handing out a job, grant no less
\* than before, change no counter and bring no slot nearer to an attempt.
Outer ==
  \/ \E w \in Workers : Complete(w) \/ Retry(w) \/ RejectSettle(w)
  \/ \E t \in Tasks : Promote(t) \/ Stall(t)
  \/ EnvironmentStep
  \/ DeliveryCrash
  \/ UNCHANGED deliveryVars

LEMMA OuterCounts ==
  ASSUME DeliveryTypeOK, Locks, Outer
  PROVE  /\ UNCHANGED <<task, delivered>>
         /\ \A w \in Workers :
              \/ run'[w].pc = run[w].pc /\ run'[w].task = run[w].task
              \/ run'[w].pc \notin {"load", "mark", "send"}
         /\ \A u \in Tasks :
              Granted(u) \in Nat /\ Granted(u)' \in Nat /\ Granted(u) <= Granted(u)'
<1>1. \A u \in Tasks : job[u] \in Jobs /\ job[u].made \in Nat /\ job[u].stalls \in Nat
  BY DEF DeliveryTypeOK, Jobs
<1>2. ASSUME NEW u \in Tasks
      PROVE  Granted(u) \in Nat
  <2>1. CASE job[u].state \in {"active", "completed"}
    BY <1>1, <2>1 DEF Granted
  <2>2. CASE job[u].state \notin {"active", "completed"}
    BY <1>1, <2>2 DEF Granted
  <2>3. QED
    BY <2>1, <2>2
<1>3. CASE UNCHANGED job
  <2>1. \A u \in Tasks : Granted(u)' = Granted(u)
    BY <1>3 DEF Granted
  <2>2. /\ UNCHANGED <<task, delivered>>
        /\ \A w \in Workers :
              \/ run'[w].pc = run[w].pc /\ run'[w].task = run[w].task
              \/ run'[w].pc = "idle"
    <3>1. ASSUME NEW w \in Workers, Complete(w) \/ Retry(w) \/ RejectSettle(w)
          PROVE  <2>2!2
      BY <3>1, EndMoves DEF Complete, Retry, RejectSettle, Ends, NoRun
    <3>2. ASSUME NEW t \in Tasks, Promote(t) \/ Stall(t)
          PROVE  <2>2!2
      BY <3>2, StallMoves DEF Promote
    <3>3. CASE EnvironmentStep \/ UNCHANGED deliveryVars
      BY <3>3 DEF EnvironmentStep, InsertRows, AddJob, DeleteRows, deliveryVars
    <3>4. CASE DeliveryCrash
      BY <3>4 DEF DeliveryCrash, NoRun
    <3>5. UNCHANGED <<task, delivered>>
      BY DEF Outer, Complete, Retry, RejectSettle, Promote, Stall,
             EnvironmentStep, InsertRows, AddJob, DeleteRows, DeliveryCrash,
             deliveryVars
    <3>6. QED
      BY <3>1, <3>2, <3>3, <3>4, <3>5 DEF Outer
  <2>3. QED
    BY <1>2, <2>1, <2>2
<1>4. ASSUME NEW w \in Workers, Complete(w) \/ Retry(w), run[w].locked
      PROVE  /\ UNCHANGED <<task, delivered>>
             /\ \A v \in Workers : run'[v] = run[v] \/ run'[v].pc = "idle"
             /\ \A u \in Tasks : Granted(u)' = Granted(u)
  <2>1. PICK t \in Tasks : t = run[w].task /\ job[t].state = "active"
    BY <1>4, RunHasTask DEF Complete, Retry, Locks
  <2>2. /\ UNCHANGED <<task, delivered>>
        /\ \A v \in Workers : run'[v] = run[v] \/ run'[v].pc = "idle"
    BY <1>4, EndMoves DEF Complete, Retry, Ends, NoRun
  <2>3. \A u \in Tasks \ {t} : job'[u] = job[u]
    BY <1>4, <2>1 DEF Complete, Retry, DeliveryTypeOK
  <2>4. Granted(t)' = Granted(t)
    <3>1. CASE Complete(w)
      <4>1. /\ job'[t].made = job[t].made
            /\ job'[t].stalls = job[t].stalls
            /\ job'[t].state = "completed"
        BY <1>4, <2>1, <3>1 DEF Complete, DeliveryTypeOK, Jobs
      <4>2. QED
        BY <2>1, <4>1 DEF Granted
    <3>2. CASE Retry(w)
      <4>1. job'[t] = AfterAttempt(job[t])
        BY <1>4, <2>1, <3>2 DEF Retry, DeliveryTypeOK
      <4>2. /\ job'[t].made = job[t].made + 1
            /\ job'[t].stalls = job[t].stalls
            /\ job'[t].state \in {"delayed", "failed"}
        BY <1>1, <2>1, <4>1, AttemptJob
      <4>3. QED
        BY <1>1, <2>1, <4>2 DEF Granted
    <3>3. QED
      BY <1>4, <3>1, <3>2
  <2>5. QED
    BY <2>2, <2>3, <2>4 DEF Granted
<1>5. ASSUME NEW t \in Tasks, Promote(t) \/ Stall(t)
      PROVE  /\ UNCHANGED <<task, delivered>>
             /\ \A w \in Workers : run'[w].pc = run[w].pc /\ run'[w].task = run[w].task
             /\ \A u \in Tasks : Granted(u)' = Granted(u)
  <2>1. /\ UNCHANGED <<task, delivered>>
        /\ \A w \in Workers : run'[w].pc = run[w].pc /\ run'[w].task = run[w].task
    BY <1>5, StallMoves DEF Promote, Stall
  <2>2. \A u \in Tasks \ {t} : job'[u] = job[u]
    BY <1>5 DEF Promote, Stall, DeliveryTypeOK
  <2>3. CASE Promote(t)
    <3>1. /\ job'[t].made = job[t].made
          /\ job'[t].stalls = job[t].stalls
          /\ job[t].state = "delayed" /\ job'[t].state = "waiting"
      BY <2>3 DEF Promote, DeliveryTypeOK, Jobs
    <3>2. QED
      BY <2>1, <2>2, <3>1 DEF Granted
  <2>4. CASE Stall(t)
    <3>1. job'[t] = AfterStall(job[t]) /\ job[t].state = "active"
      BY <2>4 DEF Stall, DeliveryTypeOK
    <3>2. /\ job'[t].made = job[t].made
          /\ job'[t].stalls = job[t].stalls + 1
          /\ job'[t].state \in {"waiting", "failed"}
      BY <1>1, <3>1, StalledJob
    <3>3. Granted(t)' = Granted(t)
      BY <1>1, <3>1, <3>2 DEF Granted
    <3>4. QED
      BY <2>1, <2>2, <3>3 DEF Granted
  <2>5. QED
    BY <1>5, <2>3, <2>4
<1>6. Outer => \/ UNCHANGED job
               \/ \E w \in Workers : (Complete(w) \/ Retry(w)) /\ run[w].locked
               \/ \E t \in Tasks : Promote(t) \/ Stall(t)
  BY DEF Outer, Complete, Retry, RejectSettle, EnvironmentStep, InsertRows,
         AddJob, DeleteRows, DeliveryCrash, deliveryVars
<1>7. QED
  BY <1>2, <1>3, <1>4, <1>5, <1>6

\* Every step is one of processTask's, or takes a job, or is BullMQ's or the
\* environment's.
LEMMA StepKinds ==
  ASSUME [DeliveryNext]_deliveryVars
  PROVE  \/ \E w \in Workers : Inner(w)
         \/ \E t \in Tasks, w \in Workers : Fetch(w, t)
         \/ Outer
  BY DEF DeliveryNext, DeliveryStep, ProcessStep, Inner, Outer

\* Handing out a job grants an attempt, and the slot that took it may make it.
LEMMA FetchCounts ==
  ASSUME DeliveryTypeOK, NEW w \in Workers, NEW t \in Tasks, Fetch(w, t)
  PROVE  /\ OthersStand(w)
         /\ run'[w].task = t /\ run'[w].pc = "load"
         /\ UNCHANGED <<task, delivered>>
         /\ Granted(t) \in Nat /\ Granted(t)' = Granted(t) + 1
         /\ \A u \in Tasks \ {t} : Granted(u)' = Granted(u)
<1>1. job[t] \in Jobs /\ job[t].made \in Nat /\ job[t].stalls \in Nat
  BY DEF DeliveryTypeOK, Jobs
<1>2. /\ job[t].state = "waiting" /\ job'[t].state = "active"
      /\ job'[t].made = job[t].made
      /\ job'[t].stalls = job[t].stalls
      /\ \A u \in Tasks \ {t} : job'[u] = job[u]
  BY DEF Fetch, DeliveryTypeOK, Jobs
<1>3. Granted(t) = job[t].made + job[t].stalls
  BY <1>1, <1>2 DEF Granted
<1>4. Granted(t)' = job[t].made + job[t].stalls + 1
  BY <1>2 DEF Granted
<1>5. \A u \in Tasks \ {t} : Granted(u)' = Granted(u)
  BY <1>2 DEF Granted
<1>6. /\ OthersStand(w)
      /\ run'[w].task = t /\ run'[w].pc = "load"
      /\ UNCHANGED <<task, delivered>>
  BY DEF Fetch, DeliveryTypeOK, OthersStand
<1>7. QED
  BY <1>1, <1>3, <1>4, <1>5, <1>6

LEMMA AttemptsStep ==
  ASSUME DeliveryTypeOK, Locks, Attempts, [DeliveryNext]_deliveryVars
  PROVE  Attempts'
<1> SUFFICES ASSUME NEW u \in Tasks
             PROVE  task'[u].attempts + Cardinality(ToMark(u)') <= Granted(u)'
  BY DEF Attempts
<1>1. /\ task[u].attempts \in Nat
      /\ job[u].made \in Nat /\ job[u].stalls \in Nat
      /\ task[u].attempts + Cardinality(ToMark(u)) <= Granted(u)
  BY DEF DeliveryTypeOK, TaskColumns, Jobs, Attempts
<1>2. ToMark(u) \in SUBSET Workers /\ ToMark(u)' \in SUBSET Workers
  BY DEF ToMark
<1>3. Granted(u) \in Nat
  <2>1. CASE job[u].state \in {"active", "completed"}
    BY <1>1, <2>1 DEF Granted
  <2>2. CASE job[u].state \notin {"active", "completed"}
    BY <1>1, <2>2 DEF Granted
  <2>3. QED
    BY <2>1, <2>2
<1>4. ASSUME NEW w \in Workers, Inner(w)
      PROVE  task'[u].attempts + Cardinality(ToMark(u)') <= Granted(u)'
  <2>1. Granted(u)' = Granted(u)
    BY <1>4, InnerMoves DEF Granted
  <2>2. OthersStand(w)
    BY <1>4, InnerMoves DEF OthersStand
  <2>3. CASE u = run[w].task /\ run[w].pc = "mark"
    <3>1. w \in ToMark(u) /\ ToMark(u)' \subseteq ToMark(u) \ {w}
      BY <1>4, <2>2, <2>3, CountStep, InnerCounts DEF ToMark
    <3>2. Cardinality(ToMark(u)') + 1 <= Cardinality(ToMark(u))
      BY <1>2, <3>1, CountSlots
    <3>3. task'[u].attempts <= task[u].attempts + 1 /\ task'[u].attempts \in Nat
      BY <1>1, <1>4, InnerCounts
    <3>4. /\ Cardinality(ToMark(u)') \in Nat
          /\ Cardinality(ToMark(u)) \in Nat
      BY <1>2, CountSlots
    <3>5. QED
      BY <1>1, <1>3, <2>1, <3>2, <3>3, <3>4
  <2>4. CASE ~(u = run[w].task /\ run[w].pc = "mark")
    <3>1. ToMark(u)' \subseteq ToMark(u)
      <4>1. run'[w].task = run[w].task
        BY <1>4, InnerMoves
      <4>2. run'[w].pc \in {"load", "mark"} => run[w].pc = "load"
        BY <1>4, InnerCounts
      <4>3. QED
        BY <2>2, <4>1, <4>2 DEF ToMark, OthersStand
    <3>2. Cardinality(ToMark(u)') <= Cardinality(ToMark(u))
      BY <1>2, <3>1, CountSlots
    <3>3. task'[u].attempts = task[u].attempts
      BY <1>4, <2>4, InnerCounts
    <3>4. /\ Cardinality(ToMark(u)') \in Nat
          /\ Cardinality(ToMark(u)) \in Nat
      BY <1>2, CountSlots
    <3>5. QED
      BY <1>1, <1>3, <2>1, <3>2, <3>3, <3>4
  <2>5. QED
    BY <2>3, <2>4
<1>5. ASSUME NEW t \in Tasks, NEW w \in Workers, Fetch(w, t)
      PROVE  task'[u].attempts + Cardinality(ToMark(u)') <= Granted(u)'
  <2>1. /\ Cardinality(ToMark(u)') \in Nat
        /\ Cardinality(ToMark(u)) \in Nat
    BY <1>2, CountSlots
  <2>2. OthersStand(w) /\ task' = task
    BY <1>5, FetchCounts
  <2>3. CASE u = t
    <3>1. Cardinality(ToMark(u)') <= Cardinality(ToMark(u)) + 1
      BY <1>2, <2>2, CountStep, CountSlots
    <3>2. Granted(u)' = Granted(u) + 1
      BY <1>5, <2>3, FetchCounts
    <3>3. QED
      BY <1>1, <1>3, <2>1, <2>2, <3>1, <3>2
  <2>4. CASE u # t
    <3>1. ToMark(u)' \subseteq ToMark(u) \ {w}
      BY <1>5, <2>2, <2>4, CountStep, FetchCounts
    <3>2. Cardinality(ToMark(u)') <= Cardinality(ToMark(u))
      BY <1>2, <3>1, CountSlots
    <3>3. Granted(u)' = Granted(u)
      BY <1>5, <2>4, FetchCounts
    <3>4. QED
      BY <1>1, <1>3, <2>1, <2>2, <3>2, <3>3
  <2>5. QED
    BY <2>3, <2>4
<1>6. CASE Outer
  <2>1. /\ task' = task
        /\ Granted(u)' \in Nat /\ Granted(u) <= Granted(u)'
    BY <1>6, OuterCounts
  <2>2. /\ Cardinality(ToMark(u)') \in Nat /\ Cardinality(ToMark(u)) \in Nat
        /\ Cardinality(ToMark(u)') <= Cardinality(ToMark(u))
    BY <1>6, OuterCounts, CountStill
  <2>3. QED
    BY <1>1, <1>3, <2>1, <2>2
<1>7. QED
  BY <1>4, <1>5, <1>6, StepKinds

LEMMA DeliveriesStep ==
  ASSUME DeliveryTypeOK, Locks, Deliveries, [DeliveryNext]_deliveryVars
  PROVE  Deliveries'
<1> SUFFICES ASSUME NEW u \in Tasks
             PROVE  delivered'[u] + Cardinality(ToSend(u)') <= task'[u].attempts
  BY DEF Deliveries
<1>1. /\ task[u].attempts \in Nat /\ delivered[u] \in Nat
      /\ delivered[u] + Cardinality(ToSend(u)) <= task[u].attempts
  BY DEF DeliveryTypeOK, TaskColumns, Deliveries
<1>2. ToSend(u) \in SUBSET Workers /\ ToSend(u)' \in SUBSET Workers
  BY DEF ToSend
<1>3. ASSUME NEW w \in Workers, Inner(w)
      PROVE  delivered'[u] + Cardinality(ToSend(u)') <= task'[u].attempts
  <2>1. OthersStand(w) /\ run'[w].task = run[w].task
    BY <1>3, InnerMoves DEF OthersStand
  <2>2. /\ Cardinality(ToSend(u)') \in Nat
        /\ Cardinality(ToSend(u)) \in Nat
    BY <1>2, <1>3, CountSlots
  <2>3. CASE u = run[w].task /\ run'[w].pc = "send"
    <3>1. /\ task'[u].attempts = task[u].attempts + 1
          /\ delivered'[u] = delivered[u]
      BY <1>3, <2>3, InnerCounts
    <3>2. Cardinality(ToSend(u)') <= Cardinality(ToSend(u)) + 1
      BY <1>2, <2>1, CountStep, CountSlots
    <3>3. QED
      BY <1>1, <2>2, <3>1, <3>2
  <2>4. CASE u = run[w].task /\ run[w].pc = "send"
    <3>1. /\ task'[u].attempts = task[u].attempts
          /\ delivered'[u] <= delivered[u] + 1 /\ delivered'[u] \in Nat
      BY <1>1, <1>3, <2>4, InnerCounts
    <3>2. w \in ToSend(u) /\ ToSend(u)' \subseteq ToSend(u) \ {w}
      BY <1>3, <2>1, <2>4, CountStep, InnerCounts DEF ToSend
    <3>3. Cardinality(ToSend(u)') + 1 <= Cardinality(ToSend(u))
      BY <1>2, <3>2, CountSlots
    <3>4. QED
      BY <1>1, <2>2, <3>1, <3>3
  <2>5. CASE u # run[w].task \/ (run'[w].pc # "send" /\ run[w].pc # "send")
    <3>1. delivered'[u] = delivered[u] /\ task'[u].attempts >= task[u].attempts
      BY <1>1, <1>3, <2>5, InnerCounts
    <3>2. ToSend(u)' \subseteq ToSend(u)
      BY <2>1, <2>5, CountStep
    <3>3. Cardinality(ToSend(u)') <= Cardinality(ToSend(u))
      BY <1>2, <1>3, <3>2, CountSlots
    <3>4. task'[u].attempts \in Nat
      BY <1>1, <1>3, InnerCounts
    <3>5. QED
      BY <1>1, <2>2, <3>1, <3>3, <3>4
  <2>6. QED
    BY <2>3, <2>4, <2>5
<1>4. ASSUME NEW t \in Tasks, NEW w \in Workers, Fetch(w, t)
      PROVE  delivered'[u] + Cardinality(ToSend(u)') <= task'[u].attempts
  <2>1. OthersStand(w) /\ run'[w].pc # "send" /\ UNCHANGED <<task, delivered>>
    BY <1>4, FetchCounts
  <2>2. ToSend(u)' \subseteq ToSend(u)
    BY <2>1, CountStep
  <2>3. QED
    BY <1>1, <1>2, <2>1, <2>2, CountSlots
<1>5. CASE Outer
  <2>1. UNCHANGED <<task, delivered>>
    BY <1>5, OuterCounts
  <2>2. /\ Cardinality(ToSend(u)') \in Nat /\ Cardinality(ToSend(u)) \in Nat
        /\ Cardinality(ToSend(u)') <= Cardinality(ToSend(u))
    BY <1>5, OuterCounts, CountStill
  <2>3. QED
    BY <1>1, <2>1, <2>2
<1>6. QED
  BY <1>3, <1>4, <1>5, StepKinds

----------------------------------------------------------------------------
(***************************************************************************)
(* Evidence.                                                               *)
(***************************************************************************)

\* No step changes the type of a row's channel.
LEMMA MockedFixed ==
  ASSUME DeliveryTypeOK, Locks, [DeliveryNext]_deliveryVars
  PROVE  \A u \in Tasks : task'[u].mocked = task[u].mocked
<1>1. ASSUME NEW w \in Workers, Inner(w)
      PROVE  \A u \in Tasks : task'[u].mocked = task[u].mocked
  <2>1. PICK t \in Tasks : t = run[w].task
    BY <1>1, InnerMoves
  <2>2. \/ task' = task
        \/ task' = [task EXCEPT ![t] = Marked(t)]
        \/ task' = [task EXCEPT ![t] = Sent(t)]
        \/ task' = [task EXCEPT ![t] = FailedColumns(t)]
    BY <1>1, <2>1
       DEF Inner, Load, Mark, Send, RecordSent, RecordFailed, RejectQuery, Save
  <2>3. /\ Marked(t).mocked = task[t].mocked
        /\ Sent(t).mocked = task[t].mocked
        /\ FailedColumns(t).mocked = task[t].mocked
    BY MarkedColumns, SentColumns, FailedColumnsFields DEF DeliveryTypeOK
  <2>4. QED
    BY <2>2, <2>3 DEF DeliveryTypeOK
<1>2. ASSUME NEW t \in Tasks, NEW w \in Workers, Fetch(w, t)
      PROVE  task' = task
  BY <1>2 DEF Fetch
<1>3. Outer => task' = task
  BY OuterCounts
<1>4. QED
  BY <1>1, <1>2, <1>3, StepKinds

\* A row that claims a delivery.
Claims(t) == task[t].status = "SENT" \/ task[t].sentAt

\* Only RecordSent makes a row claim a delivery, and only Send, when it has
\* delivered or is the mock's, and RecordSent after it, move a run on to "sent" or "resolved".
LEMMA InnerEvidence ==
  ASSUME DeliveryTypeOK, NEW w \in Workers, Inner(w)
  PROVE  /\ \A u \in Tasks : Claims(u)' =>
              Claims(u) \/ (u = run[w].task /\ run[w].pc = "sent")
         /\ run'[w].pc \in {"sent", "resolved"} =>
              \/ run[w].pc = "sent"
              \/ delivered'[run[w].task] = delivered[run[w].task] + 1
              \/ task[run[w].task].mocked
<1> DEFINE t == run[w].task
<1> USE DEF DeliveryTypeOK, Save, Claims
<1>1. t \in Tasks
  BY InnerMoves
<1>2. CASE Load(w)
  BY <1>2, StepMoves DEF Load
<1>3. CASE Mark(w)
  BY <1>1, <1>3, StepMoves, MarkedColumns DEF Mark
<1>4. CASE Send(w)
  BY <1>1, <1>4, StepMoves DEF Send, Notify, Mock, Deliver
<1>5. CASE RecordSent(w)
  BY <1>1, <1>5, StepMoves DEF RecordSent
<1>6. CASE RecordFailed(w)
  BY <1>1, <1>6, StepMoves, FailedColumnsFields DEF RecordFailed
<1>7. CASE RejectQuery(w)
  <2>1. CASE run[w].pc = "load"
    BY <1>7, <2>1, StepMoves DEF RejectQuery
  <2>2. CASE run[w].pc = "mark"
    BY <1>1, <1>7, <2>2, StepMoves, MarkedColumns DEF RejectQuery
  <2>3. CASE run[w].pc = "sent"
    BY <1>1, <1>7, <2>3, StepMoves DEF RejectQuery
  <2>4. CASE run[w].pc = "caught"
    BY <1>7, <2>4, StepMoves DEF RejectQuery
  <2>5. QED
    BY <1>7, <2>1, <2>2, <2>3, <2>4 DEF RejectQuery
<1>8. QED
  BY <1>2, <1>3, <1>4, <1>5, <1>6, <1>7 DEF Inner

LEMMA EvidenceStep ==
  ASSUME DeliveryTypeOK, Locks, Evidence, [DeliveryNext]_deliveryVars
  PROVE  Evidence'
<1> USE DEF Evidence, SentWasDelivered
<1>0. \A u \in Tasks : task'[u].mocked = task[u].mocked
  BY MockedFixed
<1>1. \A u \in Tasks : delivered[u] \in Nat
  BY DEF DeliveryTypeOK
<1>2. ASSUME NEW w \in Workers, Inner(w)
      PROVE  Evidence'
  <2>1. \A u \in Tasks : delivered'[u] >= delivered[u] /\ delivered'[u] \in Nat
    BY <1>1, <1>2, InnerCounts
  <2>2. \A u \in Tasks : Justified(u) => Justified(u)'
    BY <1>0, <1>1, <2>1 DEF Justified
  <2>3. /\ run[w].task \in Tasks /\ run'[w].task = run[w].task
        /\ \A v \in Workers \ {w} : run'[v] = run[v]
        /\ job' = job
    BY <1>2, InnerMoves
  <2>4. ASSUME NEW v \in Workers, run'[v].pc \in {"sent", "resolved"}
        PROVE  Justified(run[v].task)'
    <3>1. CASE v = w
      <4>1. CASE run[w].pc = "sent"
        BY <2>2, <2>3, <3>1, <4>1
      <4>2. CASE run[w].pc # "sent"
        BY <1>0, <1>1, <1>2, <2>3, <2>4, <3>1, <4>2, InnerEvidence DEF Justified
      <4>3. QED
        BY <4>1, <4>2
    <3>2. CASE v # w
      BY <2>2, <2>3, <2>4, <3>2, RunHasTask
    <3>3. QED
      BY <3>1, <3>2
  <2>5. ASSUME NEW u \in Tasks, Claims(u)'
        PROVE  Justified(u)'
    <3>1. Claims(u) \/ (u = run[w].task /\ run[w].pc = "sent")
      BY <1>2, <2>5, InnerEvidence
    <3>2. QED
      BY <2>2, <2>3, <3>1 DEF Claims, Justified
  <2>6. \A u \in Tasks : job'[u].state = "completed" => Justified(u)'
    BY <2>2, <2>3 DEF Justified
  <2>7. QED
    BY <2>4, <2>5, <2>6 DEF Claims, Justified
<1>3. ASSUME NEW t \in Tasks, NEW w \in Workers, Fetch(w, t)
      PROVE  Evidence'
  <2>1. /\ run'[w].pc = "load"
        /\ \A v \in Workers \ {w} : run'[v] = run[v]
        /\ UNCHANGED <<task, delivered>>
    BY <1>3 DEF Fetch, DeliveryTypeOK
  <2>2. \A u \in Tasks : job'[u].state = "completed" => job[u].state = "completed"
    BY <1>3 DEF Fetch, DeliveryTypeOK, Jobs
  <2>3. QED
    BY <2>1, <2>2 DEF Justified
<1>4. CASE Outer
  <2>1. /\ UNCHANGED <<task, delivered>>
        /\ \A w \in Workers :
             \/ run'[w].pc = run[w].pc /\ run'[w].task = run[w].task
             \/ run'[w].pc = "idle"
    <3>1. ASSUME NEW w \in Workers, Complete(w) \/ Retry(w) \/ RejectSettle(w)
          PROVE  \A v \in Workers : run'[v] = run[v] \/ run'[v].pc = "idle"
      BY <3>1, EndMoves DEF Complete, Retry, RejectSettle, Ends, NoRun
    <3>2. ASSUME NEW t \in Tasks, Promote(t) \/ Stall(t)
          PROVE  \A w \in Workers :
                   run'[w].pc = run[w].pc /\ run'[w].task = run[w].task
      BY <3>2, StallMoves DEF Promote
    <3>3. DeliveryCrash => \A w \in Workers : run'[w].pc = "idle"
      BY DEF DeliveryCrash, NoRun
    <3>4. EnvironmentStep \/ UNCHANGED deliveryVars => run' = run
      BY DEF EnvironmentStep, InsertRows, AddJob, DeleteRows, deliveryVars
    <3>5. UNCHANGED <<task, delivered>>
      BY <1>4, OuterCounts
    <3>6. QED
      BY <1>4, <3>1, <3>2, <3>3, <3>4, <3>5 DEF Outer
  <2>2. ASSUME NEW u \in Tasks, job'[u].state = "completed"
        PROVE  Justified(u)
    <3>1. CASE UNCHANGED job
      BY <2>2, <3>1 DEF Justified
    <3>2. ASSUME NEW w \in Workers, Complete(w)
          PROVE  Justified(u)
      BY <2>2, <3>2, RunHasTask DEF Complete, DeliveryTypeOK, Justified
    <3>3. ASSUME NEW w \in Workers, Retry(w), run[w].locked
          PROVE  Justified(u)
      <4>1. PICK t \in Tasks : t = run[w].task
        BY <3>3, RunHasTask DEF Retry
      <4>2. job'[t] = AfterAttempt(job[t]) /\ \A v \in Tasks \ {t} : job'[v] = job[v]
        BY <3>3, <4>1 DEF Retry, DeliveryTypeOK
      <4>3. job'[t].state # "completed"
        BY <4>2, AttemptJob DEF DeliveryTypeOK
      <4>4. QED
        BY <2>2, <4>2, <4>3 DEF Justified
    <3>4. ASSUME NEW t \in Tasks, Promote(t)
          PROVE  Justified(u)
      BY <2>2, <3>4 DEF Justified, Promote, DeliveryTypeOK, Jobs
    <3>5. ASSUME NEW t \in Tasks, Stall(t)
          PROVE  Justified(u)
      <4>1. job'[t] = AfterStall(job[t]) /\ \A v \in Tasks \ {t} : job'[v] = job[v]
        BY <3>5 DEF Stall, DeliveryTypeOK
      <4>2. job'[t].state # "completed"
        BY <4>1, StalledJob DEF DeliveryTypeOK
      <4>3. QED
        BY <2>2, <4>1, <4>2 DEF Justified
    <3>6. QED
      BY <1>4, <3>1, <3>2, <3>3, <3>4, <3>5
         DEF Outer, Complete, Retry, RejectSettle, EnvironmentStep, InsertRows,
             AddJob, DeleteRows, DeliveryCrash, deliveryVars
  <2>3. QED
    BY <2>1, <2>2 DEF Justified
<1>5. QED
  BY <1>2, <1>3, <1>4, StepKinds

----------------------------------------------------------------------------
(***************************************************************************)
(* The theorems.                                                           *)
(***************************************************************************)
LEMMA DeliveryInvInit == DeliveryInit => DeliveryInv
<1> SUFFICES ASSUME DeliveryInit
             PROVE  DeliveryInv
  OBVIOUS
<1>0. PICK M \in SUBSET Tasks : task = [t \in Tasks |-> NewTask(t \in M)]
  BY DEF DeliveryInit
<1> USE DEF DeliveryInit, NewJob, NoRun, NewTask
<1>1. DeliveryTypeOK
  BY <1>0 DEF DeliveryTypeOK, RowsTypeOK, AddedTypeOK, RowStates, NoRows,
         NothingAdded, TaskColumns, Status, Jobs, JobStates, Runs, RunSteps
<1>2. \A t \in Tasks : ToMark(t) = {} /\ ToSend(t) = {}
  BY DEF ToMark, ToSend
<1>3. Cardinality({}) = 0
  BY FS_EmptySet
<1>4. ASSUME NEW t \in Tasks
      PROVE  Granted(t) = 0 /\ task[t].attempts = 0 /\ delivered[t] = 0
  <2>1. /\ job[t].made = 0 /\ job[t].stalls = 0 /\ job[t].state = "waiting"
        /\ task[t].attempts = 0 /\ delivered[t] = 0
    BY <1>0
  <2>2. Granted(t) = 0 + 0 + 0
    BY <2>1 DEF Granted
  <2>3. QED
    BY <2>1, <2>2
<1>5. Attempts /\ Deliveries
  <2>1. ASSUME NEW t \in Tasks
        PROVE  /\ task[t].attempts + Cardinality(ToMark(t)) = 0
               /\ delivered[t] + Cardinality(ToSend(t)) = 0
    <3>1. ToMark(t) = {} /\ ToSend(t) = {}
      BY <1>2
    <3>2. /\ task[t].attempts + Cardinality(ToMark(t)) = 0 + 0
          /\ delivered[t] + Cardinality(ToSend(t)) = 0 + 0
      BY ONLY <1>3, <1>4, <3>1
    <3>3. QED
      BY <3>2
  <2>2. QED
    BY ONLY <1>4, <2>1 DEF Attempts, Deliveries
<1>6. Locks /\ Budget /\ Evidence
  BY <1>0, DeliveryAssumption DEF Locks, Budget, Evidence, SentWasDelivered
<1>7. QED
  BY <1>1, <1>5, <1>6 DEF DeliveryInv

\* DeliveryInv is an inductive invariant of Delivery.
THEOREM DeliveryInvariant == DeliverySpec => []DeliveryInv
<1>1. DeliveryInv /\ [DeliveryNext]_deliveryVars => DeliveryInv'
  BY DeliveryTypeStep, LocksStep, BudgetStep, AttemptsStep, DeliveriesStep,
     EvidenceStep DEF DeliveryInv
<1>2. QED
  BY <1>1, DeliveryInvInit, PTL DEF DeliverySpec

LEMMA AttemptsWithinLimit ==
  ASSUME DeliveryInv, NEW t \in Tasks
  PROVE  /\ task[t].attempts \in Nat
         /\ task[t].attempts <= MaxAttempts + MaxStalled
<1>1. /\ task[t].attempts \in Nat
      /\ job[t].made \in Nat /\ job[t].stalls \in Nat /\ job[t].state \in JobStates
  BY DEF DeliveryInv, DeliveryTypeOK, TaskColumns, Jobs
<1>2. Cardinality(ToMark(t)) \in Nat
  BY FS_Subset, FS_CardinalityType, DeliveryAssumption DEF ToMark
<1>3. task[t].attempts + Cardinality(ToMark(t)) <= Granted(t)
  BY DEF DeliveryInv, Attempts
<1>4. Granted(t) <= MaxAttempts + MaxStalled /\ Granted(t) \in Nat
  <2>1. CASE job[t].state = "failed"
    BY <1>1, <2>1, DeliveryAssumption DEF Granted, DeliveryInv, Budget
  <2>2. CASE job[t].state # "failed"
    <3>1. job[t].made + 1 <= MaxAttempts /\ job[t].stalls <= MaxStalled
      BY <1>1, <2>2, DeliveryAssumption DEF DeliveryInv, Budget
    <3>2. CASE job[t].state \in {"active", "completed"}
      BY <1>1, <3>1, <3>2, DeliveryAssumption DEF Granted
    <3>3. CASE job[t].state \notin {"active", "completed"}
      BY <1>1, <3>1, <3>3, DeliveryAssumption DEF Granted
    <3>4. QED
      BY <3>2, <3>3
  <2>3. QED
    BY <2>1, <2>2
<1>5. QED
  BY <1>1, <1>2, <1>3, <1>4, DeliveryAssumption

\* The attempts column stays within what enqueueTask and BullMQ's stall limit
\* allow, for every number of workers, attempts and stalls.
THEOREM AttemptsAreBounded == DeliverySpec => []AttemptsBounded
<1>1. DeliveryInv => AttemptsBounded
  BY AttemptsWithinLimit DEF AttemptsBounded
<1>2. QED
  BY <1>1, DeliveryInvariant, PTL

\* Every delivery to a user was counted as an attempt before it was made.
THEOREM DeliveriesAreCounted == DeliverySpec => []DeliveriesCounted
<1>1. ASSUME DeliveryInv, NEW t \in Tasks
      PROVE  delivered[t] <= task[t].attempts
  <2>1. task[t].attempts \in Nat /\ delivered[t] \in Nat
    BY <1>1 DEF DeliveryInv, DeliveryTypeOK, TaskColumns
  <2>2. Cardinality(ToSend(t)) \in Nat
    BY FS_Subset, FS_CardinalityType, DeliveryAssumption DEF ToSend
  <2>3. delivered[t] + Cardinality(ToSend(t)) <= task[t].attempts
    BY <1>1 DEF DeliveryInv, Deliveries
  <2>4. QED
    BY <2>1, <2>2, <2>3
<1>2. DeliveryInv => DeliveriesCounted
  BY <1>1 DEF DeliveriesCounted
<1>3. QED
  BY <1>2, DeliveryInvariant, PTL

\* What a row or a completed job says was delivered, was, unless its provider
\* is the WECHAT mock.
THEOREM SentIsTrue == DeliverySpec => []SentWasDelivered
<1>1. DeliveryInv => SentWasDelivered
  BY DEF DeliveryInv, Evidence
<1>2. QED
  BY <1>1, DeliveryInvariant, PTL

----------------------------------------------------------------------------
(***************************************************************************)
(* The delivery of tasks implements TaskPromise.                           *)
(***************************************************************************)
Due == {t \in Tasks : added[t] > 0}
Mocked == {t \in Tasks : task[t].mocked}
Verdict == [t \in Tasks |-> VerdictOf(t)]

\* What an active job's verdict can become.
LEMMA VerdictStep ==
  ASSUME NEW t \in Tasks,
         \A u \in Tasks \ {t} : job'[u].state = job[u].state,
         job[t].state = "active"
  PROVE  \/ Verdict' = Verdict
         \/ /\ job'[t].state \in {"completed", "failed"}
            /\ VerdictOf(t) = "open"
            /\ Verdict' = [Verdict EXCEPT ![t] =
                 IF job'[t].state = "completed" THEN "done" ELSE "gaveUp"]
<1>1. \A u \in Tasks \ {t} : VerdictOf(u)' = VerdictOf(u)
  BY DEF VerdictOf
<1>2. VerdictOf(t) = "open"
  BY DEF VerdictOf
<1>3. CASE job'[t].state = "completed"
  BY <1>1, <1>2, <1>3 DEF Verdict, VerdictOf
<1>4. CASE job'[t].state = "failed"
  BY <1>1, <1>2, <1>4 DEF Verdict, VerdictOf
<1>5. CASE job'[t].state \notin {"completed", "failed"}
  BY <1>1, <1>2, <1>5 DEF Verdict, VerdictOf
<1>6. QED
  BY <1>3, <1>4, <1>5

LEMMA PromiseStep ==
  ASSUME DeliveryInv, [DeliveryNext]_deliveryVars
  PROVE  [Promise!Next]_(Promise!promiseVars)
<1> USE DEF DeliveryInv
<1> USE DEF Promise!Next, Promise!promiseVars, Promise!Verdicts
<1>0. Mocked' = Mocked
  BY MockedFixed DEF Mocked
<1>1. ASSUME NEW w \in Workers, Inner(w)
      PROVE  [Promise!Next]_(Promise!promiseVars)
  <2>1. PICK t \in Tasks : t = run[w].task /\ added[t] > 0
    BY <1>1, InnerMoves DEF Locks
  <2>2. UNCHANGED <<added, job>>
    BY <1>1, InnerMoves
  <2>3. UNCHANGED <<Due, Verdict>>
    BY <2>2 DEF Due, Verdict, VerdictOf
  <2>4. CASE delivered' = delivered
    BY <1>0, <2>3, <2>4 DEF Due, Verdict, Mocked
  <2>5. CASE delivered' # delivered
    <3>1. /\ delivered' = [delivered EXCEPT ![t] = @ + 1]
          /\ run[w].pc = "send" /\ t \notin Mocked
      BY <1>1, <2>1, <2>5
         DEF Inner, Load, Mark, Send, RecordSent, RecordFailed, RejectQuery,
             Notify, Mock, Deliver, Mocked
    <3>2. delivered[t] + 1 <= task[t].attempts
      <4>1. w \in ToSend(t) /\ ToSend(t) \in SUBSET Workers
        BY <2>1, <3>1 DEF ToSend
      <4>2. Cardinality({}) + 1 <= Cardinality(ToSend(t))
        BY <4>1, CountSlots
      <4>3. Cardinality(ToSend(t)) \in Nat /\ Cardinality({}) = 0
        BY <4>1, CountSlots, FS_EmptySet
      <4>4. task[t].attempts \in Nat /\ delivered[t] \in Nat
        BY DEF DeliveryTypeOK, TaskColumns
      <4>5. QED
        BY <4>2, <4>3, <4>4 DEF Deliveries
    <3>3. task[t].attempts <= MaxAttempts + MaxStalled /\ task[t].attempts \in Nat
      BY AttemptsWithinLimit
    <3>4. delivered[t] < MaxAttempts + MaxStalled
      BY <3>2, <3>3, DeliveryAssumption DEF DeliveryTypeOK
    <3>5. Promise!SendOnce(t)
      BY <1>0, <2>1, <2>3, <3>1, <3>4
         DEF Promise!SendOnce, Due, Verdict, Mocked
    <3>6. QED
      BY <3>5
  <2>6. QED
    BY <2>4, <2>5
<1>2. ASSUME NEW t \in Tasks, NEW w \in Workers, Fetch(w, t)
      PROVE  [Promise!Next]_(Promise!promiseVars)
  <2>1. UNCHANGED <<added, delivered>>
    BY <1>2 DEF Fetch
  <2>2. \A u \in Tasks : VerdictOf(u)' = VerdictOf(u)
    BY <1>2 DEF Fetch, VerdictOf, DeliveryTypeOK, Jobs
  <2>3. QED
    BY <1>0, <2>1, <2>2 DEF Mocked
<1>3. ASSUME NEW t \in Tasks, job[t].state = "active",
             UNCHANGED <<added, delivered>>,
             \A u \in Tasks \ {t} : job'[u].state = job[u].state,
             job'[t].state = "completed" => Justified(t)
      PROVE  [Promise!Next]_(Promise!promiseVars)
  <2>1. added[t] > 0
    BY <1>3 DEF Locks
  <2>2. CASE Verdict' = Verdict
    BY <1>0, <1>3, <2>2 DEF Verdict, Mocked
  <2>3. CASE Verdict' # Verdict
    <3>1. PICK v \in {"done", "gaveUp"} :
            /\ v = "done" => Justified(t)
            /\ VerdictOf(t) = "open"
            /\ Verdict' = [Verdict EXCEPT ![t] = v]
      BY <1>3, <2>3, VerdictStep
    <3>2. Promise!Close(t, v)
      BY <1>0, <1>3, <2>1, <3>1 DEF Promise!Close, Verdict, Mocked, Justified
    <3>3. QED
      BY <3>1, <3>2
  <2>4. QED
    BY <2>2, <2>3
<1>4. ASSUME NEW w \in Workers, Complete(w) \/ Retry(w), run[w].locked
      PROVE  [Promise!Next]_(Promise!promiseVars)
  <2>1. PICK t \in Tasks : t = run[w].task /\ job[t].state = "active"
    BY <1>4, RunHasTask DEF Complete, Retry, Locks
  <2>2. \A u \in Tasks \ {t} : job'[u] = job[u]
    BY <1>4, <2>1 DEF Complete, Retry, DeliveryTypeOK
  <2>3. UNCHANGED <<added, delivered>>
    BY <1>4 DEF Complete, Retry
  <2>4. job'[t].state = "completed" => Justified(t)
    <3>1. CASE Complete(w)
      BY <2>1, <3>1 DEF Complete, Evidence
    <3>2. CASE Retry(w)
      <4>1. job'[t] = AfterAttempt(job[t])
        BY <1>4, <2>1, <3>2 DEF Retry, DeliveryTypeOK
      <4>2. QED
        BY <4>1, AttemptJob DEF DeliveryTypeOK
    <3>3. QED
      BY <1>4, <3>1, <3>2
  <2>5. QED
    BY <1>3, <2>1, <2>2, <2>3, <2>4
<1>5. ASSUME NEW t \in Tasks, Stall(t)
      PROVE  [Promise!Next]_(Promise!promiseVars)
  <2>1. /\ job'[t] = AfterStall(job[t]) /\ job[t].state = "active"
        /\ \A u \in Tasks \ {t} : job'[u] = job[u]
        /\ UNCHANGED <<added, delivered>>
    BY <1>5 DEF Stall, DeliveryTypeOK
  <2>2. job'[t].state # "completed"
    BY <2>1, StalledJob DEF DeliveryTypeOK
  <2>3. QED
    BY <1>3, <2>1, <2>2
<1>6. ASSUME NEW t \in Tasks, Promote(t)
      PROVE  [Promise!Next]_(Promise!promiseVars)
  <2>1. UNCHANGED <<added, delivered>>
    BY <1>6 DEF Promote
  <2>2. \A u \in Tasks : VerdictOf(u)' = VerdictOf(u)
    BY <1>6 DEF Promote, VerdictOf, DeliveryTypeOK, Jobs
  <2>3. QED
    BY <1>0, <2>1, <2>2 DEF Mocked
<1>7. ASSUME NEW t \in Tasks, AddJob(t)
      PROVE  [Promise!Next]_(Promise!promiseVars)
  <2>1. UNCHANGED <<job, delivered>>
    BY <1>7 DEF AddJob
  <2>2. Due' = Due \cup {t}
    BY <1>7 DEF AddJob, Due, DeliveryTypeOK, AddedTypeOK
  <2>3. Promise!HandOver(t)
    BY <1>0, <2>1, <2>2 DEF Promise!HandOver, Due, VerdictOf, Mocked
  <2>4. QED
    BY <2>3
<1>8. CASE UNCHANGED <<added, job, delivered>>
  BY <1>0, <1>8 DEF VerdictOf, Mocked
<1>9. \/ \E t \in Tasks, w \in Workers : Fetch(w, t)
      \/ \E w \in Workers : Inner(w)
      \/ \E w \in Workers : (Complete(w) \/ Retry(w)) /\ run[w].locked
      \/ \E t \in Tasks : Promote(t) \/ Stall(t) \/ AddJob(t)
      \/ UNCHANGED <<added, job, delivered>>
  BY StepKinds
     DEF Outer, Complete, Retry, RejectSettle, EnvironmentStep, InsertRows,
         DeleteRows, DeliveryCrash, deliveryVars
<1>10. QED
  BY <1>1, <1>2, <1>4, <1>5, <1>6, <1>7, <1>8, <1>9

\* Every behaviour of the workers, with every kind of failure, is one that
\* TaskPromise allows: no task is sent more often than the limits add up to,
\* none is sent before it was handed over, and each is closed once, as done
\* only if it was sent or is a WECHAT task, which is never sent.
THEOREM DeliveryKeepsPromise == DeliverySpec => KeepsPromise
<1>1. DeliveryInit => Promise!Init
  BY DEF DeliveryInit, Promise!Init, NothingAdded, NewJob, VerdictOf
<1>2. DeliveryInv /\ [DeliveryNext]_deliveryVars
        => [Promise!Next]_(Promise!promiseVars)
  BY PromiseStep
<1>3. QED
  BY <1>1, <1>2, DeliveryInvariant, PTL DEF DeliverySpec, KeepsPromise, Promise!Spec

----------------------------------------------------------------------------
(***************************************************************************)
(* When nothing crashes, stalls, rejects or answers late.                  *)
(*                                                                         *)
(* NotifiedOnce and StatusFollowsJob say nothing of a task whose run is    *)
(* under way.  Follows(t) fills that in: a job is active as long as it has *)
(* a run, which never loses its lock, so that no stall and no second run   *)
(* comes in between; and at each of its awaits the columns are what the    *)
(* job's attempts make them.  A row that is deleted meanwhile keeps its    *)
(* columns for good, and its job can no longer get as far as a delivery.   *)
(***************************************************************************)

\* What the columns of t are between two runs.
Settled(t) ==
  LET s == task[t].status
      j == job[t]
  IN
  /\ task[t].attempts = (IF s = "SENT" THEN j.made + 1 ELSE j.made)
  /\ s = "PENDING" <=> j.state = "waiting" /\ j.made = 0
  /\ s = "SENT" <=> j.state = "completed"
  /\ j.state = "failed" => s = "FAILED"
  /\ s # "PROCESSING"
  /\ s # "SENT" => delivered[t] = 0

\* What they are during a run that is at step pc.
AtStep(t, pc) ==
  LET s == task[t].status
      made == job[t].made
  IN
  /\ pc \in {"load", "mark"} =>
       /\ task[t].attempts = made /\ delivered[t] = 0
       /\ s \in {"PENDING", "FAILED"} /\ (s = "PENDING" <=> made = 0)
  /\ pc \in {"send", "sent", "caught"} =>
       task[t].attempts = made + 1 /\ s = "PROCESSING"
  /\ pc \in {"caught", "rejected"} => delivered[t] = 0
  /\ pc = "resolved" => task[t].attempts = made + 1 /\ s = "SENT"
  /\ pc = "rejected" => task[t].attempts = made + 1 /\ s = "FAILED"

Follows(t) ==
  /\ rows[t] = "none" =>
       /\ added[t] = 0 /\ job[t].made = 0
       /\ task[t].status = "PENDING" /\ task[t].attempts = 0 /\ delivered[t] = 0
  /\ job[t].state = "delayed" => job[t].made > 0
  /\ job[t].state = "failed" => job[t].made = MaxAttempts
  /\ job[t].state = "active" <=> \E w \in Workers : run[w].task = t
  /\ \A w \in Workers : run[w].task = t =>
       /\ run[w].locked
       /\ run[w].pc = "send" => delivered[t] = 0
       /\ rows[t] = "live" => AtStep(t, run[w].pc)
  /\ rows[t] = "live" /\ job[t].state # "active" => Settled(t)
  /\ delivered[t] <= 1

FollowsInv == Faults = {} /\ \A t \in Tasks : Follows(t)

\* A step that does not touch task t leaves it as it is.
LEMMA Untouched ==
  ASSUME NEW t \in Tasks, Follows(t),
         rows'[t] = rows[t], added'[t] = added[t], task'[t] = task[t],
         job'[t] = job[t], delivered'[t] = delivered[t],
         \A w \in Workers :
            run'[w] = run[w] \/ (run[w].task # t /\ run'[w].task # t)
  PROVE  Follows(t)'
  BY DEF Follows, Settled, AtStep

\* Only one run has task t.
LEMMA OneRun ==
  ASSUME DeliveryInv, FollowsInv, NEW v \in Workers, NEW w \in Workers,
         run[w].pc # "idle", run[v].task = run[w].task
  PROVE  v = w
<1>1. run[w].task \in Tasks
  BY RunHasTask DEF DeliveryInv
<1>2. run[v].locked /\ run[w].locked
  BY <1>1 DEF FollowsInv, Follows
<1>3. QED
  BY <1>2 DEF DeliveryInv, Locks

\* Every step of a run that BullMQ does not hear of.
LEMMA InnerFollows ==
  ASSUME DeliveryInv, FollowsInv, NEW w \in Workers, Inner(w)
  PROVE  \A t \in Tasks : Follows(t)'
<1>1. PICK t \in Tasks : t = run[w].task
  BY InnerMoves DEF DeliveryInv
<1>2. DeliveryTypeOK
  BY DEF DeliveryInv
<1>3. /\ run[w].pc # "idle" /\ run'[w].task = t /\ run'[w].locked
      /\ \A v \in Workers \ {w} : run'[v] = run[v] /\ run[v].task # t
      /\ UNCHANGED <<rows, added, job>>
      /\ job[t].state = "active"
      /\ rows[t] # "none"
  <2>1. run[w].locked /\ job[t].state = "active"
    BY <1>1 DEF FollowsInv, Follows
  <2>2. added[t] > 0
    BY <1>1, <1>2, InnerMoves DEF DeliveryInv, Locks
  <2>3. added[t] # 0 /\ rows[t] # "none"
    BY <2>2 DEF FollowsInv, Follows
  <2>4. QED
    BY <1>1, <1>2, <2>1, <2>3, InnerMoves, OneRun
<1>4. ASSUME NEW u \in Tasks \ {t}
      PROVE  Follows(u)'
  <2>1. task'[u] = task[u] /\ delivered'[u] = delivered[u]
    BY <1>1, <1>2
       DEF Inner, Load, Mark, Send, Notify, Mock, Deliver, RecordSent,
           RecordFailed, RejectQuery, Save, DeliveryTypeOK
  <2>2. \A v \in Workers :
          run'[v] = run[v] \/ (run[v].task # u /\ run'[v].task # u)
    BY <1>1, <1>3
  <2>3. QED
    BY <1>3, <2>1, <2>2, Untouched DEF FollowsInv
<1>5. /\ run[w].pc = "send" => delivered[t] = 0
      /\ rows[t] = "live" => AtStep(t, run[w].pc)
      /\ delivered[t] <= 1
  BY <1>1 DEF FollowsInv, Follows
<1>6. /\ delivered'[t] <= 1
      /\ run'[w].pc = "send" => delivered'[t] = 0
      /\ rows[t] = "live" => AtStep(t, run[w].pc)'
  <2>1. Live(w) <=> rows[t] = "live"
    BY <1>1 DEF Live
  <2>2. /\ task[t].attempts \in Nat /\ job[t].made \in Nat /\ delivered[t] \in Nat
        /\ task \in [Tasks -> TaskColumns]
    BY <1>2 DEF DeliveryTypeOK, TaskColumns, Jobs
  <2>3. CASE Load(w)
    <3>1. UNCHANGED <<task, delivered, job>> /\ run[w].pc = "load"
      BY <2>3 DEF Load
    <3>2. run'[w].pc = IF rows[t] = "live" THEN "mark" ELSE "rejected"
      BY <1>2, <2>1, <2>3, StepMoves DEF Load
    <3>3. QED
      BY <1>5, <3>1, <3>2 DEF AtStep
  <2>4. CASE Mark(w)
    <3>1. run[w].pc = "mark" /\ UNCHANGED <<delivered, job>>
      BY <2>4 DEF Mark
    <3>2. CASE rows[t] = "live"
      <4>1. task'[t] = Marked(t) /\ Step(w, "send")
        BY <1>1, <2>1, <2>2, <2>4, <3>2 DEF Mark, Save
      <4>2. /\ task'[t].attempts = task[t].attempts + 1
            /\ task'[t].status = "PROCESSING"
        BY <2>2, <4>1, MarkedColumns
      <4>3. run'[w].pc = "send"
        BY <1>2, <4>1, StepMoves
      <4>4. QED
        BY <1>5, <3>1, <3>2, <4>2, <4>3 DEF AtStep
    <3>3. CASE rows[t] # "live"
      <4>1. Step(w, "rejected")
        BY <2>1, <2>4, <3>3 DEF Mark
      <4>2. run'[w].pc = "rejected"
        BY <1>2, <4>1, StepMoves
      <4>3. QED
        BY <1>5, <3>1, <3>3, <4>2
    <3>4. QED
      BY <3>2, <3>3
  <2>5. CASE Send(w)
    <3>1. run[w].pc = "send" /\ UNCHANGED <<task, job>> /\ delivered[t] = 0
      BY <1>5, <2>5 DEF Send
    <3>2. \/ Step(w, "sent") /\ delivered' = [delivered EXCEPT ![t] = @ + 1]
          \/ Step(w, "caught") /\ UNCHANGED delivered
          \/ Step(w, "sent") /\ UNCHANGED delivered
      BY <1>1, <2>5 DEF Send, Notify, Mock, Deliver, FollowsInv
    <3>3. \/ run'[w].pc = "sent" /\ delivered'[t] = 1
          \/ run'[w].pc \in {"caught", "sent"} /\ delivered'[t] = 0
      BY <1>2, <3>1, <3>2, StepMoves DEF DeliveryTypeOK
    <3>4. QED
      BY <1>5, <3>1, <3>3 DEF AtStep
  <2>6. CASE RecordSent(w)
    <3>1. run[w].pc = "sent" /\ UNCHANGED <<delivered, job>>
      BY <2>6 DEF RecordSent
    <3>2. CASE rows[t] = "live"
      <4>1. task'[t] = Sent(t) /\ Step(w, "resolved")
        BY <1>1, <2>1, <2>2, <2>6, <3>2 DEF RecordSent, Save
      <4>2. task'[t].attempts = task[t].attempts /\ task'[t].status = "SENT"
        BY <2>2, <4>1, SentColumns
      <4>3. run'[w].pc = "resolved"
        BY <1>2, <4>1, StepMoves
      <4>4. QED
        BY <1>5, <3>1, <3>2, <4>2, <4>3 DEF AtStep
    <3>3. CASE rows[t] # "live"
      <4>1. run'[w].pc = "caught"
        BY <1>2, <2>1, <2>6, <3>3, StepMoves DEF RecordSent
      <4>2. QED
        BY <1>5, <3>1, <3>3, <4>1
    <3>4. QED
      BY <3>2, <3>3
  <2>7. CASE RecordFailed(w)
    <3>1. run[w].pc = "caught" /\ UNCHANGED <<delivered, job>>
      BY <2>7 DEF RecordFailed
    <3>2. run'[w].pc = "rejected"
      BY <1>2, <2>7, StepMoves DEF RecordFailed
    <3>3. CASE rows[t] = "live"
      <4>1. task'[t] = FailedColumns(t)
        BY <1>1, <2>1, <2>2, <2>7, <3>3 DEF RecordFailed, Save
      <4>2. task'[t].attempts = task[t].attempts /\ task'[t].status = "FAILED"
        BY <2>2, <4>1, FailedColumnsFields
      <4>3. QED
        BY <1>5, <3>1, <3>2, <3>3, <4>2 DEF AtStep
    <3>4. CASE rows[t] # "live"
      BY <1>5, <3>1, <3>2, <3>4
    <3>5. QED
      BY <3>3, <3>4
  <2>8. QED
    BY <2>3, <2>4, <2>5, <2>6, <2>7 DEF Inner, RejectQuery, FollowsInv
<1>7. Follows(t)'
  <2>1. /\ rows'[t] = rows[t] /\ job'[t] = job[t]
        /\ \A v \in Workers : run'[v].task = t <=> v = w
    BY <1>3
  <2>2. Follows(t)
    BY DEF FollowsInv
  <2>3. QED
    BY <1>3, <1>6, <2>1, <2>2 DEF Follows
<1>8. QED
  BY <1>4, <1>7

\* A run that starts finds the columns of a job that waits.
LEMMA FetchFollows ==
  ASSUME DeliveryInv, FollowsInv, NEW t \in Tasks, NEW w \in Workers, Fetch(w, t)
  PROVE  \A u \in Tasks : Follows(u)'
<1>1. /\ run[w].pc = "idle" /\ run[w].task = NoTask
      /\ run'[w] = [pc |-> "load", task |-> t, locked |-> TRUE]
      /\ \A v \in Workers \ {w} : run'[v] = run[v]
      /\ UNCHANGED <<rows, added, task, delivered>>
  BY DEF Fetch, DeliveryInv, DeliveryTypeOK
<1>2. /\ added[t] > 0 /\ job[t].state = "waiting"
      /\ job'[t].state = "active" /\ job'[t].made = job[t].made
      /\ \A u \in Tasks \ {t} : job'[u] = job[u]
  BY DEF Fetch, DeliveryInv, DeliveryTypeOK, Jobs
<1>3. ASSUME NEW u \in Tasks \ {t}
      PROVE  Follows(u)'
  <2>1. run[w].task # u /\ run'[w].task # u
    BY <1>1, DeliveryAssumption
  <2>2. QED
    BY <1>1, <1>2, <2>1, Untouched DEF FollowsInv
<1>4. Follows(t)'
  <2>1. Follows(t)
    BY DEF FollowsInv
  <2>2. \A v \in Workers : run'[v].task = t <=> v = w
    BY <1>1, <1>2, <2>1 DEF Follows
  <2>3. rows[t] = "live" => AtStep(t, "load")'
    <3>1. rows[t] = "live" => Settled(t)
      BY <1>2, <2>1 DEF Follows
    <3>2. task[t].status \in Status /\ job[t].made \in Nat
      BY DEF DeliveryInv, DeliveryTypeOK, TaskColumns, Jobs
    <3>3. QED
      BY <1>1, <1>2, <3>1, <3>2 DEF Settled, AtStep, Status
  <2>4. rows[t] # "none" /\ added[t] # 0
    BY <1>2, <2>1 DEF Follows
  <2>5. QED
    BY <1>1, <1>2, <2>1, <2>2, <2>3, <2>4 DEF Follows
<1>5. QED
  BY <1>3, <1>4

\* A run that ends leaves the columns as its job's new state wants them.
LEMMA SettleFollows ==
  ASSUME DeliveryInv, FollowsInv, NEW w \in Workers, Complete(w) \/ Retry(w)
  PROVE  \A t \in Tasks : Follows(t)'
<1>1. PICK t \in Tasks : t = run[w].task
  BY RunHasTask DEF Complete, Retry, DeliveryInv
<1>2. /\ run[w].pc # "idle" /\ run'[w].task = NoTask
      /\ \A v \in Workers \ {w} : run'[v] = run[v] /\ run[v].task # t
      /\ UNCHANGED <<rows, added, task, delivered>>
      /\ run[w].locked /\ job[t].state = "active"
  <2>1. Ends(w) /\ run[w].pc # "idle" /\ UNCHANGED <<rows, added, task, delivered>>
    BY DEF Complete, Retry, Ends
  <2>2. run[w].locked /\ job[t].state = "active"
    BY <1>1 DEF FollowsInv, Follows
  <2>3. QED
    BY <1>1, <2>1, <2>2, EndMoves, OneRun DEF DeliveryInv, NoRun
<1>3. /\ \A u \in Tasks \ {t} : job'[u] = job[u]
      /\ Complete(w) => job'[t] = [job[t] EXCEPT !.state = "completed"]
      /\ Retry(w) => job'[t] = AfterAttempt(job[t])
  BY <1>1, <1>2 DEF Complete, Retry, DeliveryInv, DeliveryTypeOK
<1>4. ASSUME NEW u \in Tasks \ {t}
      PROVE  Follows(u)'
  <2>1. run[w].task # u /\ run'[w].task # u
    BY <1>1, <1>2, DeliveryAssumption
  <2>2. QED
    BY <1>2, <1>3, <2>1, Untouched DEF FollowsInv
<1>5. Follows(t)'
  <2>1. Follows(t)
    BY DEF FollowsInv
  <2>2. \A v \in Workers : run'[v].task # t
    BY <1>2, DeliveryAssumption
  <2>3. rows[t] # "none" /\ added[t] > 0
    <3>1. added[t] > 0
      BY <1>1, <1>2 DEF DeliveryInv, Locks
    <3>2. QED
      BY <2>1, <3>1 DEF Follows
  <2>4. /\ job[t] \in Jobs /\ job[t].made \in Nat /\ job[t].made < MaxAttempts
        /\ task[t].attempts \in Nat
    BY <1>2 DEF DeliveryInv, DeliveryTypeOK, Jobs, Budget, TaskColumns
  <2>5. rows[t] = "live" => AtStep(t, run[w].pc)
    BY <1>1, <2>1 DEF Follows
  <2>6. CASE Complete(w)
    <3>1. job'[t].state = "completed" /\ job'[t].made = job[t].made
      BY <1>3, <2>4, <2>6 DEF Jobs
    <3>2. rows[t] = "live" => Settled(t)'
      BY <1>2, <2>4, <2>5, <2>6, <3>1 DEF Complete, AtStep, Settled
    <3>3. QED
      BY <1>2, <2>1, <2>2, <2>3, <3>1, <3>2 DEF Follows
  <2>7. CASE Retry(w)
    <3>1. /\ job'[t].made = job[t].made + 1
          /\ job'[t].state =
               IF job[t].made + 1 < MaxAttempts THEN "delayed" ELSE "failed"
      BY <1>3, <2>4, <2>7, AttemptJob
    <3>2. rows[t] = "live" => Settled(t)'
      BY <1>2, <2>4, <2>5, <2>7, <3>1 DEF Retry, AtStep, Settled
    <3>3. /\ job'[t].made > 0
          /\ job'[t].state = "failed" => job'[t].made = MaxAttempts
      BY <2>4, <3>1, DeliveryAssumption
    <3>4. QED
      BY <1>2, <2>1, <2>2, <2>3, <3>1, <3>2, <3>3 DEF Follows
  <2>8. QED
    BY <2>6, <2>7
<1>6. QED
  BY <1>4, <1>5

LEMMA FollowsStep ==
  ASSUME DeliveryInv, FollowsInv, [DeliveryNext]_deliveryVars
  PROVE  FollowsInv'
<1> SUFFICES ASSUME NEW u \in Tasks
             PROVE  Follows(u)'
  BY DEF FollowsInv
<1>1. Follows(u) /\ DeliveryTypeOK /\ Faults = {}
  BY DEF FollowsInv, DeliveryInv
<1>2. ASSUME NEW w \in Workers, Inner(w)
      PROVE  Follows(u)'
  BY <1>2, InnerFollows
<1>3. ASSUME NEW w \in Workers, Complete(w) \/ Retry(w)
      PROVE  Follows(u)'
  BY <1>3, SettleFollows
<1>4. ASSUME NEW t \in Tasks, NEW w \in Workers, Fetch(w, t)
      PROVE  Follows(u)'
  BY <1>4, FetchFollows
<1>5. ASSUME NEW t \in Tasks, Promote(t)
      PROVE  Follows(u)'
  <2>1. /\ UNCHANGED <<rows, added, task, run, delivered>>
        /\ job[t].state = "delayed"
        /\ job'[t].state = "waiting" /\ job'[t].made = job[t].made
        /\ \A v \in Tasks \ {t} : job'[v] = job[v]
    BY <1>1, <1>5 DEF Promote, DeliveryTypeOK, Jobs
  <2>2. CASE u = t
    <3>1. /\ job[t].made > 0 /\ job[t].made # 0
          /\ rows[t] = "live" => Settled(t)
      BY <1>1, <2>1, <2>2 DEF Follows, DeliveryTypeOK, Jobs
    <3>2. rows[t] = "live" => Settled(t)'
      BY <2>1, <3>1 DEF Settled
    <3>3. QED
      BY <1>1, <2>1, <2>2, <3>1, <3>2 DEF Follows
  <2>3. CASE u # t
    BY <1>1, <2>1, <2>3, Untouched
  <2>4. QED
    BY <2>2, <2>3
<1>6. ASSUME NEW t \in Tasks
      PROVE  ~Stall(t)
  <2>1. SUFFICES ASSUME job[t].state = "active", Abandoned(t)
                 PROVE  FALSE
    BY <1>1 DEF Stall
  <2>2. Follows(t)
    BY DEF FollowsInv
  <2>3. QED
    BY <2>1, <2>2 DEF Follows, Abandoned
<1>7. CASE EnvironmentStep
  <2>1. UNCHANGED <<task, job, run, delivered>>
    BY <1>7 DEF EnvironmentStep, InsertRows, DeleteRows, AddJob
  <2>2. job[u].state # "waiting" => added[u] > 0
    BY DEF DeliveryInv, Locks
  <2>3. ASSUME NEW S \in SUBSET Tasks, InsertRows(S)
        PROVE  Follows(u)'
    <3>1. CASE u \notin S
      BY <1>1, <2>1, <2>3, <3>1, Untouched
         DEF InsertRows, WithRows, DeliveryTypeOK, RowsTypeOK
    <3>2. CASE u \in S
      <4>1. rows[u] = "none" /\ rows'[u] = "live" /\ added' = added
        BY <2>3, <3>2 DEF InsertRows, WithRows
      <4>2. /\ job[u].state = "waiting" /\ job[u].made = 0
            /\ task[u].status = "PENDING" /\ task[u].attempts = 0
            /\ delivered[u] = 0
        BY <1>1, <2>2, <4>1 DEF Follows
      <4>3. Settled(u)'
        BY <2>1, <4>2 DEF Settled
      <4>4. \A w \in Workers : run'[w].task # u
        BY <1>1, <2>1, <4>2 DEF Follows
      <4>5. QED
        BY <1>1, <2>1, <4>1, <4>2, <4>3, <4>4 DEF Follows
    <3>3. QED
      BY <3>1, <3>2
  <2>4. ASSUME NEW S \in SUBSET Tasks, DeleteRows(S)
        PROVE  Follows(u)'
    <3>1. /\ rows'[u] = "none" <=> rows[u] = "none"
          /\ rows'[u] = "live" => rows[u] = "live"
          /\ added' = added
      BY <2>4 DEF DeleteRows, WithoutRows
    <3>2. QED
      BY <1>1, <2>1, <3>1 DEF Follows, Settled, AtStep
  <2>5. ASSUME NEW t \in Tasks, AddJob(t)
        PROVE  Follows(u)'
    <3>1. /\ rows' = rows /\ rows[t] # "none"
          /\ u # t => added'[u] = added[u]
      BY <1>1, <2>5 DEF AddJob, DeliveryTypeOK, AddedTypeOK
    <3>2. QED
      BY <1>1, <2>1, <3>1 DEF Follows, Settled, AtStep
  <2>6. QED
    BY <1>7, <2>3, <2>4, <2>5 DEF EnvironmentStep
<1>8. CASE UNCHANGED deliveryVars
  BY <1>1, <1>8 DEF deliveryVars, Follows, Settled, AtStep
<1>9. ~DeliveryCrash /\ \A w \in Workers : ~RejectSettle(w)
  BY <1>1 DEF DeliveryCrash, RejectSettle
<1>10. QED
  BY <1>2, <1>3, <1>4, <1>5, <1>6, <1>7, <1>8, <1>9, StepKinds DEF Outer

LEMMA FollowsInvInit == Faults = {} /\ DeliveryInit => FollowsInv
  BY DeliveryAssumption
     DEF DeliveryInit, FollowsInv, Follows, NoRows, NothingAdded, NewTask, NewJob,
         NoRun

LEMMA FollowsInvariant == Faults = {} /\ DeliverySpec => []FollowsInv
<1>1. DeliveryInv /\ FollowsInv /\ [DeliveryNext]_deliveryVars => FollowsInv'
  BY FollowsStep
<1>2. QED
  BY <1>1, FollowsInvInit, DeliveryInvariant, PTL DEF DeliverySpec

\* Without failures of the infrastructure no user gets a message twice, in
\* however many attempts processTask delivers it and whatever is deleted.
THEOREM CleanTasksNotifyOnce ==
  Faults = {} /\ DeliverySpec => []NotifiedOnce
<1>1. FollowsInv => NotifiedOnce
  BY DEF FollowsInv, Follows, NotifiedOnce
<1>2. QED
  BY <1>1, FollowsInvariant, PTL

\* Without failures of the infrastructure the status and the attempts that a
\* row shows between two runs are those of its job.
THEOREM CleanStatusFollowsJob ==
  Faults = {} /\ DeliverySpec => []StatusFollowsJob
<1>1. ASSUME FollowsInv, NEW t \in Tasks, rows[t] = "live",
             \A w \in Workers : run[w].task # t
      PROVE  Settled(t) /\ (job[t].state = "failed" => job[t].made = MaxAttempts)
  BY <1>1 DEF FollowsInv, Follows
<1>2. FollowsInv => StatusFollowsJob
  BY <1>1 DEF StatusFollowsJob, Settled
<1>3. QED
  BY <1>2, FollowsInvariant, PTL

\* Without failures of the infrastructure nothing writes to a task that is SENT.
THEOREM CleanSentIsFinal ==
  Faults = {} /\ DeliverySpec => SentIsFinal
<1>1. ASSUME DeliveryInv, FollowsInv, [DeliveryNext]_deliveryVars,
             NEW t \in Tasks, task[t].status = "SENT"
      PROVE  task'[t] = task[t]
  <2>1. CASE task' = task
    BY <2>1
  <2>2. ASSUME NEW w \in Workers, Mark(w) \/ RecordSent(w) \/ RecordFailed(w)
        PROVE  task'[t] = task[t]
    <3>1. CASE run[w].task = t /\ rows[t] = "live"
      <4>1. AtStep(t, run[w].pc)
        BY <1>1, <3>1 DEF FollowsInv, Follows
      <4>2. run[w].pc \in {"mark", "sent", "caught"}
        BY <2>2 DEF Mark, RecordSent, RecordFailed
      <4>3. QED
        BY <1>1, <4>1, <4>2 DEF AtStep
    <3>2. CASE ~(run[w].task = t /\ rows[t] = "live")
      BY <1>1, <2>2, <3>2
         DEF Mark, RecordSent, RecordFailed, Save, Live, DeliveryInv,
             DeliveryTypeOK
    <3>3. QED
      BY <3>1, <3>2
  <2>3. task' = task \/ \E w \in Workers : Mark(w) \/ RecordSent(w) \/ RecordFailed(w)
    BY <1>1
       DEF FollowsInv, DeliveryNext, DeliveryStep, ProcessStep, EnvironmentStep,
           InsertRows, AddJob, DeleteRows, DeliveryCrash, Load, Send, Complete,
           Retry, Fetch, Promote, Stall, RejectQuery, RejectSettle, deliveryVars
  <2>4. QED
    BY <2>1, <2>2, <2>3
<1>2. DeliveryInv /\ FollowsInv /\ [DeliveryNext]_deliveryVars
        => [\A t \in Tasks : task[t].status = "SENT" => task'[t] = task[t]]_deliveryVars
  BY <1>1
<1>3. QED
  BY <1>2, FollowsInvariant, DeliveryInvariant, PTL DEF DeliverySpec, SentIsFinal
============================================================================
