--------------------------- MODULE PipelineProofs ---------------------------
(***************************************************************************)
(* The two halves fit together: the producer is the environment Delivery   *)
(* was proved for, the consumer leaves alone what Ingest was proved about, *)
(* so that what holds of the halves holds of the pipeline.                 *)
(***************************************************************************)
EXTENDS Pipeline, IngestProofs, DeliveryProofs

\* The steps of the workers change neither rows nor jobs handed over.
LEMMA DeliveryLeavesTasks ==
  ASSUME DeliveryStep \/ DeliveryCrash
  PROVE  UNCHANGED <<rows, added>>
  BY DEF DeliveryStep, DeliveryCrash, ProcessStep, Fetch, Load, Mark, Send,
         RecordSent, RecordFailed, Complete, Retry, Promote, Stall,
         RejectQuery, RejectSettle

LEMMA PipelineStepOfIngest ==
  ASSUME [PipelineNext]_pipelineVars
  PROVE  [IngestNext]_ingestVars
<1>1. CASE IngestStep \/ IngestCrash
  BY <1>1 DEF IngestNext
<1>2. CASE DeliveryStep /\ UNCHANGED ingestOwn
  BY <1>2, DeliveryLeavesTasks DEF ingestOwn, ingestVars
<1>3. CASE UNCHANGED pipelineVars
  BY <1>3 DEF pipelineVars, ingestOwn, ingestVars
<1>4. QED
  BY <1>1, <1>2, <1>3 DEF PipelineNext

\* The pipeline implements Ingest: the workers are invisible to the producer.
THEOREM PipelineImplementsIngest == PipelineSpec => ImplementsIngest
<1>1. PipelineInit => IngestInit
  BY DEF PipelineInit
<1>2. [PipelineNext]_pipelineVars => [IngestNext]_ingestVars
  BY PipelineStepOfIngest
<1>3. QED
  BY <1>1, <1>2, PTL DEF PipelineSpec, ImplementsIngest, IngestSpec

\* What the producer does to the tasks is what Delivery expects of it.
LEMMA IngestStepsOfDelivery ==
  ASSUME IngestInv, [IngestNext]_ingestVars, UNCHANGED deliveryOwn
  PROVE  [DeliveryNext]_deliveryVars
<1> USE DEF DeliveryNext, EnvironmentStep, deliveryOwn
<1>1. IngestTypeOK /\ MessagesHaveTargets /\ DeletedForAReason
  BY DEF IngestInv
<1>2. ASSUME NEW S \in SUBSET Tasks, rows' = WithoutRows(S), added' = added
      PROVE  [DeliveryNext]_deliveryVars
  BY <1>2 DEF DeleteRows
<1>3. CASE UNCHANGED <<rows, added>>
  BY <1>3 DEF deliveryVars
<1>4. ASSUME NEW k \in Calls, Creates(k)
      PROVE  [DeliveryNext]_deliveryVars
  <2>1. NewTasks(k) \in SUBSET Tasks /\ \A t \in NewTasks(k) : rows[t] = "none"
    BY <1>1, <1>4, NewTasksType, NewRowsAreNew DEF Creates
  <2>2. InsertRows(NewTasks(k))
    BY <1>4, <2>1 DEF InsertRows, Creates
  <2>3. QED
    BY <2>1, <2>2
<1>5. ASSUME NEW k \in Calls, NEW t \in Tasks, Adds(k, t)
      PROVE  [DeliveryNext]_deliveryVars
  <2>1. rows[t] # "none" /\ added[t] = 0
    BY <1>5 DEF Adds, IngestInv, TodoIsOwn
  <2>2. AddJob(t)
    BY <1>5, <2>1 DEF AddJob, Adds
  <2>3. QED
    BY <2>2
<1>6. ASSUME NothingAdds
      PROVE  [DeliveryNext]_deliveryVars
  <2>1. added' = added
    BY <1>6 DEF NothingAdds
  <2>2. ASSUME NEW i \in TargetIds, RemoveTarget(i)
        PROVE  [DeliveryNext]_deliveryVars
    <3>1. {t \in Tasks : t.target = i} \in SUBSET Tasks
      OBVIOUS
    <3>2. QED
      BY <1>2, <2>1, <2>2, <3>1 DEF RemoveTarget
  <2>3. ASSUME NEW c \in Channels, RemoveChannel(c)
        PROVE  [DeliveryNext]_deliveryVars
    <3>1. {t \in Tasks : t.channel = c} \in SUBSET Tasks
      OBVIOUS
    <3>2. QED
      BY <1>2, <2>1, <2>3, <3>1 DEF RemoveChannel
  <2>4. QED
    BY <1>1, <1>3, <1>4, <2>1, <2>2, <2>3, TableSteps
       DEF TablesStand, Inserts, AddsTarget, SetsChannel
<1>7. QED
  BY <1>1, <1>4, <1>5, <1>6, JobSteps

LEMMA PipelineStepOfDelivery ==
  ASSUME IngestInv, [PipelineNext]_pipelineVars
  PROVE  [DeliveryNext]_deliveryVars
<1>1. CASE IngestStep /\ UNCHANGED deliveryOwn
  BY <1>1, IngestStepsOfDelivery DEF IngestNext
<1>2. CASE DeliveryStep \/ DeliveryCrash
  BY <1>2 DEF DeliveryNext
<1>3. CASE UNCHANGED pipelineVars
  BY <1>3 DEF pipelineVars, deliveryOwn, deliveryVars
<1>4. QED
  BY <1>1, <1>2, <1>3 DEF PipelineNext

\* The pipeline implements Delivery: the calls, their races, their failures
\* and the administrator's deletions are steps of its environment.
THEOREM PipelineImplementsDelivery == PipelineSpec => ImplementsDelivery
<1>1. PipelineInit => DeliveryInit
  BY DEF PipelineInit
<1>2. PipelineSpec => []IngestInv
  BY PipelineImplementsIngest, IngestInvariant, PTL DEF ImplementsIngest
<1>3. IngestInv /\ [PipelineNext]_pipelineVars => [DeliveryNext]_deliveryVars
  BY PipelineStepOfDelivery
<1>4. QED
  BY <1>1, <1>2, <1>3, PTL DEF PipelineSpec, ImplementsDelivery, DeliverySpec

\* From the request to the provider: a task is enqueued once, the users get
\* its message at most MaxAttempts + MaxStalled times, each counted before it
\* is sent, and it says SENT only if they got it.
THEOREM PipelineIsSafe ==
  PipelineSpec =>
    /\ [](OneJobPerTask /\ AttemptsBounded /\ DeliveriesCounted /\ SentWasDelivered)
    /\ KeepsPromise
  BY PipelineImplementsIngest, PipelineImplementsDelivery, TasksAreEnqueuedOnce,
     AttemptsAreBounded, DeliveriesAreCounted, SentIsTrue, DeliveryKeepsPromise,
     PTL
     DEF ImplementsIngest, ImplementsDelivery

\* From the request to the provider, when the infrastructure does not fail: a
\* task row was enqueued or is about to be, its users get the message at most
\* once, its status follows its job, and SENT is final.
THEOREM CleanPipelineIsSafe ==
  Faults = {} /\ PipelineSpec =>
    /\ [](PersistedMeansEnqueued /\ NotifiedOnce /\ StatusFollowsJob)
    /\ SentIsFinal
  BY PipelineImplementsIngest, PipelineImplementsDelivery, CleanTasksAreEnqueued,
     CleanTasksNotifyOnce, CleanStatusFollowsJob, CleanSentIsFinal, PTL
     DEF ImplementsIngest, ImplementsDelivery

\* Without failures of the infrastructure a live task has somebody who is to
\* deal with it until it is SENT or all its attempts have FAILED: between the
\* insert and queue.add it is the request that inserted it, and from then on its
\* job waits, is delayed, or is active with a run that has the lock.
THEOREM CleanTasksAreInHand ==
  Faults = {} /\ PipelineSpec => []NoTaskForgotten
<1>1. ASSUME DeliveryInv, FollowsInv, PersistedMeansEnqueued,
             NEW t \in Tasks, rows[t] = "live", ~InHand(t)
      PROVE  \/ task[t].status = "SENT"
             \/ task[t].status = "FAILED" /\ task[t].attempts = MaxAttempts
  <2>1. job[t].state \notin {"waiting", "delayed"}
    BY <1>1 DEF PersistedMeansEnqueued, InHand
  <2>2. job[t].state # "active"
    BY <1>1 DEF FollowsInv, Follows, InHand
  <2>3. job[t].state \in {"completed", "failed"}
    BY <1>1, <2>1, <2>2 DEF DeliveryInv, DeliveryTypeOK, Jobs, JobStates
  <2>4. Settled(t) /\ (job[t].state = "failed" => job[t].made = MaxAttempts)
    BY <1>1, <2>2 DEF FollowsInv, Follows
  <2>5. QED
    BY <2>3, <2>4 DEF Settled
<1>2. DeliveryInv /\ FollowsInv /\ PersistedMeansEnqueued => NoTaskForgotten
  BY <1>1 DEF NoTaskForgotten
<1>3. QED
  BY <1>2, PipelineImplementsIngest, PipelineImplementsDelivery, CleanTasksAreEnqueued,
     FollowsInvariant, DeliveryInvariant, PTL DEF ImplementsIngest, ImplementsDelivery

\* The answer {ingested: true} is kept: every channel that was enabled ever since
\* the message was saved has a task in somebody's hand, or SENT, or FAILED after
\* all its attempts, for the call that saved the message and for its duplicates.
IngestedIsFollowedUp ==
  \A k \in Calls, t \in Tasks :
     /\ call[k].pc = "ok" /\ MessageExists(k)
     /\ t.post = call[k].post /\ t.target = call[k].target
     /\ t.channel \in since[t.post]
     => \/ InHand(t)
        \/ task[t].status = "SENT"
        \/ task[t].status = "FAILED" /\ task[t].attempts = MaxAttempts

\* From the answer of the ingest endpoint to the end of the notification, when
\* the infrastructure does not fail.
THEOREM CleanAnswersAreFollowedUp ==
  Faults = {} /\ PipelineSpec => []IngestedIsFollowedUp
<1>1. ASSUME IngestedMeansRouted, NoTaskForgotten, NEW k \in Calls, NEW t \in Tasks,
             call[k].pc = "ok", MessageExists(k),
             t.post = call[k].post, t.target = call[k].target, t.channel \in since[t.post]
      PROVE  \/ InHand(t)
             \/ task[t].status = "SENT"
             \/ task[t].status = "FAILED" /\ task[t].attempts = MaxAttempts
  <2>1. t = TaskFor(k, t.channel)
    BY <1>1, IngestAssumption DEF TaskFor
  <2>2. rows[t] = "live"
    BY <1>1, <2>1 DEF IngestedMeansRouted
  <2>3. QED
    BY <1>1, <2>2 DEF NoTaskForgotten
<1>2. IngestedMeansRouted /\ NoTaskForgotten => IngestedIsFollowedUp
  BY <1>1 DEF IngestedIsFollowedUp
<1>3. QED
  BY <1>2, PipelineImplementsIngest, IngestedIsRouted, CleanTasksAreInHand, PTL
     DEF ImplementsIngest
============================================================================
