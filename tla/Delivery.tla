------------------------------ MODULE Delivery ------------------------------
(***************************************************************************)
(* The consumer half of the pipeline: NotificationWorkerService and        *)
(* NotificationService.processTask, one action per awaited operation, on   *)
(* top of a model of the BullMQ queue they are configured with.            *)
(*                                                                         *)
(* BullMQ (a library, modelled from how the code uses it): queue.add       *)
(* stores a waiting job; a worker makes it active and holds its lock; a    *)
(* rejected processor is retried after a back-off until MaxAttempts        *)
(* attempts were made; an active job whose lock is not renewed has stalled *)
(* and goes back to waiting, at most MaxStalled times.                     *)
(*                                                                         *)
(* rows and added belong to the environment here: the producer inserts and *)
(* enqueues tasks, and deleting a channel or a target deletes its tasks.   *)
(***************************************************************************)
EXTENDS NotificationTasks, FiniteSets

CONSTANTS
  Workers,      \* the jobs the BullMQ workers may process at once
  MaxAttempts,  \* the "attempts" option of enqueueTask (5)
  MaxStalled,   \* BullMQ's maxStalledCount, left at its default (1)
  NoTask

ASSUME DeliveryAssumption ==
  /\ IsFiniteSet(Workers)
  /\ MaxAttempts \in Nat \ {0}
  /\ MaxStalled \in Nat
  /\ NoTask \notin Tasks

VARIABLES
  task,       \* task[t]: the columns of row t that processTask uses
  job,        \* job[t]:  the BullMQ job of t, if added[t] > 0
  run,        \* run[w]:  the execution of processTask by worker slot w
  delivered   \* history: how often the provider delivered task t

deliveryVars == <<rows, added, task, job, run, delivered>>

----------------------------------------------------------------------------
(***************************************************************************)
(* Rows, jobs and runs.                                                    *)
(***************************************************************************)
\* NotificationStatus also has CANCELLED, which no code ever writes.
Status == {"PENDING", "PROCESSING", "SENT", "FAILED"}

\* "mocked": the row's channel is a WECHAT channel, whose provider is a mock
\* that logs the notification and sends nothing.  No code changes the channel
\* of a row or the type of a channel.
TaskColumns ==
  [status : Status, attempts : Nat, sentAt : BOOLEAN, lastError : BOOLEAN,
   mocked : BOOLEAN]

\* The column defaults: what an inserted row holds.
NewTask(mocked) ==
  [status |-> "PENDING", attempts |-> 0, sentAt |-> FALSE, lastError |-> FALSE,
   mocked |-> mocked]

JobStates == {"waiting", "active", "delayed", "completed", "failed"}

Jobs == [state : JobStates, made : Nat, stalls : Nat]

\* What queue.add stores.
NewJob == [state |-> "waiting", made |-> 0, stalls |-> 0]

\* The steps of processTask, named after what it awaits next.  "caught" is
\* its catch block; "resolved" and "rejected" are how its promise settled,
\* with BullMQ still to be told.
RunSteps == {"idle", "load", "mark", "send", "sent", "caught",
             "resolved", "rejected"}

Runs == [pc : RunSteps, task : Tasks \cup {NoTask}, locked : BOOLEAN]

NoRun == [pc |-> "idle", task |-> NoTask, locked |-> FALSE]

Live(w) == rows[run[w].task] = "live"

\* Worker slot w goes on to step next.
Step(w, next) == run' = [run EXCEPT ![w].pc = next]

\* The row of worker slot w's task gets the columns cols.
Save(w, cols) == task' = [task EXCEPT ![run[w].task] = cols]

DeliveryInit ==
  /\ rows = NoRows
  /\ added = NothingAdded
  /\ \E M \in SUBSET Tasks : task = [t \in Tasks |-> NewTask(t \in M)]
  /\ job = [t \in Tasks |-> NewJob]
  /\ run = [w \in Workers |-> NoRun]
  /\ delivered = [t \in Tasks |-> 0]

----------------------------------------------------------------------------
(***************************************************************************)
(* The environment.                                                        *)
(***************************************************************************)
InsertRows(S) ==
  /\ \A t \in S : rows[t] = "none"
  /\ rows' = WithRows(S)
  /\ UNCHANGED <<added, task, job, run, delivered>>

AddJob(t) ==
  /\ rows[t] # "none" /\ added[t] = 0
  /\ added' = [added EXCEPT ![t] = 1]
  /\ UNCHANGED <<rows, task, job, run, delivered>>

DeleteRows(S) ==
  /\ rows' = WithoutRows(S)
  /\ UNCHANGED <<added, task, job, run, delivered>>

----------------------------------------------------------------------------
(***************************************************************************)
(* The worker takes a job and runs processTask.                            *)
(***************************************************************************)
Fetch(w, t) ==
  /\ run[w].pc = "idle"
  /\ added[t] > 0 /\ job[t].state = "waiting"
  /\ job' = [job EXCEPT ![t].state = "active"]
  /\ run' = [run EXCEPT ![w] = [pc |-> "load", task |-> t, locked |-> TRUE]]
  /\ UNCHANGED <<rows, added, task, delivered>>

\* A plausible bug: a task that was tried before is taken for done.
LoadUntried(w) ==
  /\ run[w].pc = "load"
  /\ Step(w, IF ~Live(w) THEN "rejected"
             ELSE IF task[run[w].task].status = "PENDING" THEN "mark" ELSE "resolved")
  /\ UNCHANGED <<rows, added, task, job, delivered>>

\* findTaskWithRelations; a row that is gone is a NotFoundException.
Load(w) ==
  /\ run[w].pc = "load"
  /\ Step(w, IF Live(w) THEN "mark" ELSE "rejected")
  /\ UNCHANGED <<rows, added, task, job, delivered>>

Marked(t) ==
  [task[t] EXCEPT !.status = "PROCESSING", !.attempts = @ + 1]

\* A plausible bug: an attempt already marked is not counted again.
MarkOnce(w) ==
  /\ run[w].pc = "mark"
  /\ IF task[run[w].task].status # "PROCESSING" /\ Live(w)
     THEN Save(w, Marked(run[w].task)) /\ Step(w, "send")
     ELSE UNCHANGED task /\ Step(w, IF Live(w) THEN "send" ELSE "rejected")
  /\ UNCHANGED <<rows, added, job, delivered>>

\* status PROCESSING, attempts + 1; updating a deleted row throws, and this
\* is outside the try block.
Mark(w) ==
  /\ run[w].pc = "mark"
  /\ IF Live(w)
     THEN Save(w, Marked(run[w].task)) /\ Step(w, "send")
     ELSE UNCHANGED task /\ Step(w, "rejected")
  /\ UNCHANGED <<rows, added, job, delivered>>

Deliver(w) == delivered' = [delivered EXCEPT ![run[w].task] = @ + 1]

\* TELEGRAM and QQ: delivered; refused (invalid configuration, HTTP error,
\* unreachable); or delivered, with an answer that came too late.
Notify(w) ==
  \/ Step(w, "sent") /\ Deliver(w)
  \/ Step(w, "caught") /\ UNCHANGED delivered
  \/ "timeout" \in Faults /\ Step(w, "caught") /\ Deliver(w)

\* WECHAT: the mock always resolves and delivers nothing.
Mock(w) == Step(w, "sent") /\ UNCHANGED delivered

\* A plausible bug: the provider's error is swallowed.
SendSwallowed(w) ==
  /\ run[w].pc = "send"
  /\ Step(w, "sent")
  /\ UNCHANGED delivered \/ (~task[run[w].task].mocked /\ Deliver(w))
  /\ UNCHANGED <<rows, added, task, job>>

\* A plausible bug: the provider call has no timeout and may never settle.
SendUntimed(w) ==
  /\ run[w].pc = "send"
  /\ IF task[run[w].task].mocked
     THEN Mock(w)
     ELSE \/ Step(w, "sent") /\ Deliver(w)
          \/ Step(w, "hanging") /\ UNCHANGED delivered
  /\ UNCHANGED <<rows, added, task, job>>

\* provider.send.
Send(w) ==
  /\ run[w].pc = "send"
  /\ IF task[run[w].task].mocked THEN Mock(w) ELSE Notify(w)
  /\ UNCHANGED <<rows, added, task, job>>

Sent(t) ==
  [task[t] EXCEPT !.status = "SENT", !.sentAt = TRUE, !.lastError = FALSE]

\* A plausible bug: something after the update, still in the try block, throws.
RecordSentAndThrow(w) ==
  /\ run[w].pc = "sent"
  /\ IF Live(w) THEN Save(w, Sent(run[w].task)) ELSE UNCHANGED task
  /\ Step(w, "caught")
  /\ UNCHANGED <<rows, added, job, delivered>>

\* status SENT, sentAt, no lastError.  It is inside the try block: if the
\* row is gone, the catch block treats the delivery as a failed one.
RecordSent(w) ==
  /\ run[w].pc = "sent"
  /\ IF Live(w)
     THEN Save(w, Sent(run[w].task)) /\ Step(w, "resolved")
     ELSE UNCHANGED task /\ Step(w, "caught")
  /\ UNCHANGED <<rows, added, job, delivered>>

FailedColumns(t) == [task[t] EXCEPT !.status = "FAILED", !.lastError = TRUE]

\* A plausible bug: the failure is counted as an attempt a second time.
RecordFailedCounting(w) ==
  /\ run[w].pc = "caught"
  /\ IF Live(w)
     THEN Save(w, [FailedColumns(run[w].task) EXCEPT !.attempts = @ + 1])
     ELSE UNCHANGED task
  /\ Step(w, "rejected")
  /\ UNCHANGED <<rows, added, job, delivered>>

\* A plausible bug: the error is not thrown again, so BullMQ never retries.
RecordFailedQuietly(w) ==
  /\ run[w].pc = "caught"
  /\ IF Live(w) THEN Save(w, FailedColumns(run[w].task)) ELSE UNCHANGED task
  /\ Step(w, "resolved")
  /\ UNCHANGED <<rows, added, job, delivered>>

\* A plausible bug: the status written is none the worker knows.
RecordCancelled(w) ==
  /\ run[w].pc = "caught"
  /\ IF Live(w)
     THEN Save(w, [FailedColumns(run[w].task) EXCEPT !.status = "CANCELLED"])
     ELSE UNCHANGED task
  /\ Step(w, "rejected")
  /\ UNCHANGED <<rows, added, job, delivered>>

\* A plausible bug: the catch block enqueues the task anew for its retry.
RecordFailedAndEnqueue(w) ==
  /\ run[w].pc = "caught"
  /\ IF Live(w) THEN Save(w, FailedColumns(run[w].task)) ELSE UNCHANGED task
  /\ added' = [added EXCEPT ![run[w].task] = @ + 1]
  /\ Step(w, "rejected")
  /\ UNCHANGED <<rows, job, delivered>>

\* The catch block: status FAILED, lastError, and the error is thrown again.
RecordFailed(w) ==
  /\ run[w].pc = "caught"
  /\ IF Live(w) THEN Save(w, FailedColumns(run[w].task)) ELSE UNCHANGED task
  /\ Step(w, "rejected")
  /\ UNCHANGED <<rows, added, job, delivered>>

----------------------------------------------------------------------------
(***************************************************************************)
(* BullMQ hears how the processor settled.  A run that lost its lock is    *)
(* not heard: the job is another run's by then.                            *)
(***************************************************************************)
Complete(w) ==
  /\ run[w].pc = "resolved"
  /\ job' = IF run[w].locked
            THEN [job EXCEPT ![run[w].task].state = "completed"]
            ELSE job
  /\ run' = [run EXCEPT ![w] = NoRun]
  /\ UNCHANGED <<rows, added, task, delivered>>

\* The job after one more rejected attempt.
AfterAttempt(j) ==
  [j EXCEPT !.made = @ + 1,
            !.state = IF j.made + 1 < MaxAttempts THEN "delayed" ELSE "failed"]

\* A plausible bug: a run that lost its lock reports its failure all the same.
RetryUnlocked(w) ==
  /\ run[w].pc = "rejected"
  /\ job' = [job EXCEPT ![run[w].task] = AfterAttempt(@)]
  /\ run' = [run EXCEPT ![w] = NoRun]
  /\ UNCHANGED <<rows, added, task, delivered>>

Retry(w) ==
  /\ run[w].pc = "rejected"
  /\ job' = IF run[w].locked
            THEN [job EXCEPT ![run[w].task] = AfterAttempt(@)]
            ELSE job
  /\ run' = [run EXCEPT ![w] = NoRun]
  /\ UNCHANGED <<rows, added, task, delivered>>

\* The back-off of a delayed job is over.
Promote(t) ==
  /\ job[t].state = "delayed"
  /\ job' = [job EXCEPT ![t].state = "waiting"]
  /\ UNCHANGED <<rows, added, task, run, delivered>>

\* No run holds the lock of job t.
Abandoned(t) == \A w \in Workers : run[w].task = t => ~run[w].locked

AfterStall(j) ==
  [j EXCEPT !.stalls = @ + 1,
            !.state = IF j.stalls < MaxStalled THEN "waiting" ELSE "failed"]

\* The lock of an active job expires: nobody renews it, or ("stall") its
\* worker is too slow to, and goes on without it.
Stall(t) ==
  /\ job[t].state = "active"
  /\ Abandoned(t) \/ "stall" \in Faults
  /\ job' = [job EXCEPT ![t] = AfterStall(@)]
  /\ run' = [w \in Workers |->
       IF run[w].task = t THEN [run[w] EXCEPT !.locked = FALSE] ELSE run[w]]
  /\ UNCHANGED <<rows, added, task, delivered>>

----------------------------------------------------------------------------
(***************************************************************************)
(* Failures.                                                               *)
(***************************************************************************)

\* A database call of processTask rejects, having taken effect or not.
RejectQuery(w) ==
  LET t == run[w].task IN
  /\ "reject" \in Faults
  /\ \/ run[w].pc = "load" /\ UNCHANGED task /\ Step(w, "rejected")
     \/ /\ run[w].pc = "mark" /\ Step(w, "rejected")
        /\ UNCHANGED task \/ (Live(w) /\ Save(w, Marked(t)))
     \/ /\ run[w].pc = "sent" /\ Step(w, "caught")
        /\ UNCHANGED task \/ (Live(w) /\ Save(w, Sent(t)))
     \/ /\ run[w].pc = "caught" /\ Step(w, "rejected")
        /\ UNCHANGED task
  /\ UNCHANGED <<rows, added, job, delivered>>

\* Redis rejects the message that settles the job, which then stalls.
RejectSettle(w) ==
  /\ "reject" \in Faults
  /\ run[w].pc \in {"resolved", "rejected"}
  /\ run' = [run EXCEPT ![w] = NoRun]
  /\ UNCHANGED <<rows, added, task, job, delivered>>

\* The API process, in which the workers live, dies.
DeliveryCrash ==
  /\ "crash" \in Faults
  /\ run' = [w \in Workers |-> NoRun]
  /\ UNCHANGED <<rows, added, task, job, delivered>>

----------------------------------------------------------------------------
ProcessStep(w) ==
  \/ Load(w) \/ Mark(w) \/ Send(w) \/ RecordSent(w) \/ RecordFailed(w)
  \/ Complete(w) \/ Retry(w)

DeliveryStep ==
  \/ \E w \in Workers :
       ProcessStep(w) \/ RejectQuery(w) \/ RejectSettle(w)
  \/ \E t \in Tasks : Promote(t) \/ Stall(t) \/ \E w \in Workers : Fetch(w, t)

EnvironmentStep ==
  \/ \E S \in SUBSET Tasks : InsertRows(S) \/ DeleteRows(S)
  \/ \E t \in Tasks : AddJob(t)

DeliveryNext == DeliveryStep \/ EnvironmentStep \/ DeliveryCrash

DeliverySpec == DeliveryInit /\ [][DeliveryNext]_deliveryVars

----------------------------------------------------------------------------
(***************************************************************************)
(* Fairness.  Node's event loop runs every pending continuation and every  *)
(* awaited call settles (WF of each step); the back-off timer fires and    *)
(* the stalled-job check runs (WF).  BullMQ hands out waiting jobs in the  *)
(* order they arrived, so a job that is waiting again and again while a    *)
(* slot is free is taken (SF).                                             *)
(***************************************************************************)
DeliveryFairness ==
  /\ \A w \in Workers : WF_deliveryVars(ProcessStep(w))
  /\ \A t \in Tasks :
       /\ SF_deliveryVars(\E w \in Workers : Fetch(w, t))
       /\ WF_deliveryVars(Promote(t))
       /\ WF_deliveryVars(Abandoned(t) /\ Stall(t))

DeliveryFairSpec == DeliverySpec /\ DeliveryFairness

----------------------------------------------------------------------------
(***************************************************************************)
(* Properties, under every failure.                                        *)
(***************************************************************************)

\* Every variable stays within its type; a run under way has a task, and one
\* that holds the lock has its job active.
DeliveryTypeOK ==
  /\ RowsTypeOK
  /\ AddedTypeOK
  /\ task \in [Tasks -> TaskColumns]
  /\ job \in [Tasks -> Jobs]
  /\ run \in [Workers -> Runs]
  /\ delivered \in [Tasks -> Nat]
  /\ \A w \in Workers :
       /\ run[w].pc = "idle" <=> run[w].task = NoTask
       /\ run[w].locked => run[w].pc # "idle"

\* The attempts column never exceeds the five attempts enqueueTask configures
\* by more than the stalls BullMQ tolerates, whatever crashes, lost locks and
\* rejected calls repeat or overlap the runs of processTask.
AttemptsBounded ==
  \A t \in Tasks : task[t].attempts <= MaxAttempts + MaxStalled

\* No delivery goes uncounted: processTask counts an attempt before it calls
\* the provider, so the column bounds how often a user got the message.
DeliveriesCounted == \A t \in Tasks : delivered[t] <= task[t].attempts

\* A task that says SENT, has a sentAt or whose job completed was delivered,
\* unless its provider is the WECHAT mock: there the same columns are written
\* with nothing delivered, so SENT is no evidence.
SentWasDelivered ==
  \A t \in Tasks :
     \/ task[t].status = "SENT"
     \/ task[t].sentAt
     \/ job[t].state = "completed"
     => delivered[t] > 0 \/ task[t].mocked

\* The delivery of tasks keeps the promise of TaskPromise.
VerdictOf(t) ==
  CASE job[t].state = "completed" -> "done"
    [] job[t].state = "failed" -> "gaveUp"
    [] OTHER -> "open"

Promise ==
  INSTANCE TaskPromise
    WITH due <- {t \in Tasks : added[t] > 0},
         mocked <- {t \in Tasks : task[t].mocked},
         sends <- delivered,
         verdict <- [t \in Tasks |-> VerdictOf(t)],
         Limit <- MaxAttempts + MaxStalled

\* Safety: sends are bounded and a task is closed once, as done only if it was
\* sent or is a WECHAT task, which is never sent.
KeepsPromise == Promise!Spec

\* Liveness: every task that was enqueued is closed in the end, whatever
\* crashes, lost locks and rejected calls come in between.
ClosesTasks == Promise!Closing

----------------------------------------------------------------------------
(***************************************************************************)
(* Properties when nothing crashes, stalls, rejects or answers late.       *)
(***************************************************************************)

\* README.md:29 and Agent.md:468: the same message is not notified twice.
NotifiedOnce == \A t \in Tasks : delivered[t] <= 1

\* A task that is SENT stays as it is: no retry runs for it.
SentIsFinal ==
  [][\A t \in Tasks : task[t].status = "SENT" => task'[t] = task[t]]_deliveryVars

\* README.md:31: PENDING -> PROCESSING -> SENT/FAILED, retried five times.  When
\* no run is under way, the status of a row says what its job will do: PENDING
\* for a first attempt, FAILED for a retry, SENT or FAILED for good.
StatusFollowsJob ==
  \A t \in Tasks :
     rows[t] = "live" /\ (\A w \in Workers : run[w].task # t) =>
       LET s == task[t].status
           j == job[t]
       IN
       /\ task[t].attempts = (IF s = "SENT" THEN j.made + 1 ELSE j.made)
       /\ s = "PENDING" <=> j.state = "waiting" /\ j.made = 0
       /\ s = "SENT" <=> j.state = "completed"
       /\ j.state = "failed" => s = "FAILED" /\ j.made = MaxAttempts
       /\ s # "PROCESSING"

============================================================================
