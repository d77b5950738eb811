------------------------------ MODULE Pipeline ------------------------------
(***************************************************************************)
(* The notification pipeline of the API process: the ingest calls and the  *)
(* administrator's edits (Ingest) produce the task rows and jobs that the  *)
(* BullMQ workers (Delivery) consume.  They share the tables, the queues   *)
(* and the process: a crash takes the calls and the runs together.         *)
(***************************************************************************)
EXTENDS Ingest, Delivery

ingestOwn == <<target, channel, message, call, since, announced>>
deliveryOwn == <<task, job, run, delivered>>

pipelineVars == <<rows, added, ingestOwn, deliveryOwn>>

\* The tasks of one channel have one provider.
OneProvider ==
  \A s, t \in Tasks : s.channel = t.channel => task[s].mocked = task[t].mocked

PipelineInit == IngestInit /\ DeliveryInit /\ OneProvider

PipelineNext ==
  \/ IngestStep /\ UNCHANGED deliveryOwn
  \/ DeliveryStep /\ UNCHANGED ingestOwn
  \/ IngestCrash /\ DeliveryCrash

PipelineSpec == PipelineInit /\ [][PipelineNext]_pipelineVars

\* Every awaited operation of a call settles and its continuation runs; that
\* a message arrives, or that an administrator does anything, is not assumed.
PipelineFairSpec ==
  /\ PipelineSpec
  /\ DeliveryFairness
  /\ \A k \in Calls : WF_ingestVars(CallStep(k))

----------------------------------------------------------------------------
(***************************************************************************)
(* Properties                                                              *)
(***************************************************************************)

\* The producer is an environment that Delivery is written for: rows are
\* inserted once, jobs are added once and after the row.
ImplementsDelivery == DeliverySpec

\* The consumer changes nothing that Ingest relies on.
ImplementsIngest == IngestSpec

\* README.md:79-98, the whole path: without failures of the infrastructure a
\* task row that exists is deleted or ends SENT or FAILED with its job closed,
\* however the provider answers and whatever the administrator edits.
TasksSettle ==
  \A t \in Tasks :
    rows[t] = "live" ~>
      \/ rows[t] = "deleted"
      \/ task[t].status = "SENT" /\ job[t].state = "completed"
      \/ task[t].status = "FAILED" /\ job[t].state = "failed"

\* Who is to deal with task t: the call that created it, the queue, or a run
\* that holds the lock of its job.
InHand(t) ==
  \/ \E k \in Calls : call[k].pc = "enqueue" /\ t \in call[k].todo
  \/ added[t] > 0 /\ job[t].state \in {"waiting", "delayed"}
  \/ \E w \in Workers : run[w].task = t /\ run[w].locked

\* README.md:31 and 79-98, the safety under TasksSettle: without failures of the
\* infrastructure a task row is never left behind between the request that
\* creates it, the queue and the workers.  A row in nobody's hand is SENT, or
\* it is FAILED and has had all its attempts.
NoTaskForgotten ==
  \A t \in Tasks :
     rows[t] = "live" /\ ~InHand(t) =>
       \/ task[t].status = "SENT"
       \/ task[t].status = "FAILED" /\ task[t].attempts = MaxAttempts

\* README.md:31: PROCESSING leads to SENT or FAILED.  A row whose job is closed
\* and that no run works on is not left PROCESSING.
ClosedIsNotProcessing ==
  \A t \in Tasks :
     rows[t] = "live" /\ job[t].state \in {"completed", "failed"}
                      /\ (\A w \in Workers : run[w].task # t)
       => task[t].status # "PROCESSING"
============================================================================
