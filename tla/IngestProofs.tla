---------------------------- MODULE IngestProofs ----------------------------
(***************************************************************************)
(* What Ingest guarantees for any posts, targets, channels and calls and   *)
(* any kinds of failure.                                                   *)
(***************************************************************************)
EXTENDS Ingest, TLAPS

----------------------------------------------------------------------------
(***************************************************************************)
(* What the helpers do to the calls.                                       *)
(***************************************************************************)
Others(k) == \A l \in Calls \ {k} : call'[l] = call[l]

LEMMA GoToCall ==
  ASSUME call \in [Calls -> CallStates], NEW k \in Calls,
         NEW next \in CallSteps, GoTo(k, next)
  PROVE  /\ call' \in [Calls -> CallStates]
         /\ Others(k)
         /\ call'[k].pc = next
         /\ call'[k].post = call[k].post
         /\ call'[k].target = call[k].target
         /\ call'[k].chans = call[k].chans
         /\ call'[k].todo = call[k].todo
  BY DEF GoTo, CallStates, Others

LEMMA GoToWithCall ==
  ASSUME call \in [Calls -> CallStates], NEW k \in Calls,
         NEW next \in CallSteps, NEW i \in TargetIds, GoToWith(k, next, i)
  PROVE  /\ call' \in [Calls -> CallStates]
         /\ Others(k)
         /\ call'[k].pc = next
         /\ call'[k].post = call[k].post
         /\ call'[k].target = i
         /\ call'[k].chans = call[k].chans
         /\ call'[k].todo = call[k].todo
<1> DEFINE moved == [call EXCEPT ![k].pc = next]
<1>1. /\ moved \in [Calls -> CallStates]
      /\ \A l \in Calls \ {k} : moved[l] = call[l]
      /\ moved[k].pc = next
      /\ moved[k].post = call[k].post
      /\ moved[k].chans = call[k].chans
      /\ moved[k].todo = call[k].todo
  BY DEF CallStates
<1>2. call' = [moved EXCEPT ![k].target = i]
  BY DEF GoToWith
<1> HIDE DEF moved
<1>3. QED
  BY <1>1, <1>2 DEF CallStates, Others

LEMMA GiveUpCall ==
  ASSUME call \in [Calls -> CallStates], NEW k \in Calls,
         NEW answer \in CallSteps, GiveUp(k, answer)
  PROVE  /\ call' \in [Calls -> CallStates]
         /\ Others(k)
         /\ call'[k].pc = answer
         /\ call'[k].post = NoPost
         /\ call'[k].target = NoTarget
         /\ call'[k].chans = {}
         /\ call'[k].todo = {}
<1>1. /\ [Idle EXCEPT !.pc = answer] \in CallStates
      /\ [Idle EXCEPT !.pc = answer].pc = answer
      /\ [Idle EXCEPT !.pc = answer].post = NoPost
      /\ [Idle EXCEPT !.pc = answer].target = NoTarget
      /\ [Idle EXCEPT !.pc = answer].chans = {}
      /\ [Idle EXCEPT !.pc = answer].todo = {}
  BY DEF Idle, CallStates, Types
<1>2. QED
  BY <1>1 DEF GiveUp, Others

LEMMA EnqueueNextCall ==
  ASSUME call \in [Calls -> CallStates], NEW k \in Calls,
         NEW S \in SUBSET Tasks, EnqueueNext(k, S)
  PROVE  /\ call' \in [Calls -> CallStates]
         /\ Others(k)
         /\ call'[k].pc = IF S = {} THEN "ok" ELSE "enqueue"
         /\ call'[k].post = call[k].post
         /\ call'[k].target = call[k].target
         /\ call'[k].chans = {}
         /\ call'[k].todo = S
<1> DEFINE next == IF S = {} THEN "ok" ELSE "enqueue"
           moved == [call EXCEPT ![k].pc = next]
           emptied == [moved EXCEPT ![k].chans = {}]
<1>1. next \in CallSteps
  BY DEF CallSteps, AwaitSteps, Answers
<1> HIDE DEF next
<1>2. /\ moved \in [Calls -> CallStates]
      /\ \A l \in Calls \ {k} : moved[l] = call[l]
      /\ moved[k].pc = next
      /\ moved[k].post = call[k].post
      /\ moved[k].target = call[k].target
  BY <1>1 DEF CallStates
<1> HIDE DEF moved
<1>3. /\ emptied \in [Calls -> CallStates]
      /\ \A l \in Calls \ {k} : emptied[l] = call[l]
      /\ emptied[k].pc = next
      /\ emptied[k].post = call[k].post
      /\ emptied[k].target = call[k].target
      /\ emptied[k].chans = {}
  BY <1>2 DEF CallStates
<1>4. call' = [emptied EXCEPT ![k].todo = S]
  BY DEF EnqueueNext, Succeed, emptied, moved, next
<1> HIDE DEF emptied
<1>5. /\ call' \in [Calls -> CallStates]
      /\ Others(k)
      /\ call'[k].pc = next
      /\ call'[k].post = call[k].post
      /\ call'[k].target = call[k].target
      /\ call'[k].chans = {}
      /\ call'[k].todo = S
  BY <1>3, <1>4 DEF CallStates, Others
<1>6. QED
  BY <1>5 DEF next

\* What ListChannels does to call k when it finds the channels S.
Lists(k, S) == call' = [call EXCEPT ![k].pc = "create", ![k].chans = S]

LEMMA ListedCall ==
  ASSUME call \in [Calls -> CallStates], NEW k \in Calls,
         NEW S \in SUBSET Channels, Lists(k, S)
  PROVE  /\ call' \in [Calls -> CallStates]
         /\ Others(k)
         /\ call'[k].pc = "create"
         /\ call'[k].post = call[k].post
         /\ call'[k].target = call[k].target
         /\ call'[k].chans = S
         /\ call'[k].todo = call[k].todo
<1> DEFINE moved == [call EXCEPT ![k].pc = "create"]
<1>1. /\ moved \in [Calls -> CallStates]
      /\ \A l \in Calls \ {k} : moved[l] = call[l]
      /\ moved[k].pc = "create"
      /\ moved[k].post = call[k].post
      /\ moved[k].target = call[k].target
      /\ moved[k].todo = call[k].todo
  BY DEF CallStates, CallSteps, AwaitSteps
<1>2. call' = [moved EXCEPT ![k].chans = S]
  BY DEF Lists
<1> HIDE DEF moved
<1>3. QED
  BY <1>1, <1>2 DEF CallStates, Others


\* What Lookup does to call k when it finds a target of type x.
Finds(k, x) == call' = [call EXCEPT ![k].pc = "resolve", ![k].type = x]

LEMMA FoundCall ==
  ASSUME call \in [Calls -> CallStates], NEW k \in Calls,
         NEW x \in Types, Finds(k, x)
  PROVE  /\ call' \in [Calls -> CallStates]
         /\ Others(k)
         /\ call'[k].pc = "resolve"
         /\ call'[k].post = call[k].post
         /\ call'[k].target = call[k].target
         /\ call'[k].chans = call[k].chans
         /\ call'[k].todo = call[k].todo
<1> DEFINE moved == [call EXCEPT ![k].pc = "resolve"]
<1>1. /\ moved \in [Calls -> CallStates]
      /\ \A l \in Calls \ {k} : moved[l] = call[l]
      /\ moved[k].pc = "resolve"
      /\ moved[k].post = call[k].post
      /\ moved[k].target = call[k].target
      /\ moved[k].chans = call[k].chans
      /\ moved[k].todo = call[k].todo
  BY DEF CallStates, CallSteps, AwaitSteps
<1>2. call' = [moved EXCEPT ![k].type = x]
  BY DEF Finds
<1> HIDE DEF moved
<1>3. QED
  BY <1>1, <1>2 DEF CallStates, Others

LEMMA ReceivedCall ==
  ASSUME call \in [Calls -> CallStates], NEW k \in Calls, NEW p \in Posts,
         Receive(k, p)
  PROVE  /\ call' \in [Calls -> CallStates]
         /\ Others(k)
         /\ call'[k].pc = "lookup"
         /\ call'[k].post = p
         /\ call'[k].target = NoTarget
         /\ call'[k].chans = {}
         /\ call'[k].todo = {}
<1> DEFINE started == [Idle EXCEPT !.pc = "lookup"]
<1>1. /\ started \in CallStates
      /\ started.pc = "lookup"
      /\ started.target = NoTarget
      /\ started.chans = {}
      /\ started.todo = {}
  BY DEF Idle, CallStates, Types, CallSteps, AwaitSteps
<1>2. call' = [call EXCEPT ![k] = [started EXCEPT !.post = p]]
  BY DEF Receive
<1> HIDE DEF started
<1>3. /\ [started EXCEPT !.post = p] \in CallStates
      /\ [started EXCEPT !.post = p].pc = "lookup"
      /\ [started EXCEPT !.post = p].post = p
      /\ [started EXCEPT !.post = p].target = NoTarget
      /\ [started EXCEPT !.post = p].chans = {}
      /\ [started EXCEPT !.post = p].todo = {}
  BY <1>1 DEF CallStates
<1>4. QED
  BY <1>2, <1>3 DEF Others

LEMMA IdleType ==
  /\ Idle \in CallStates
  /\ Idle.pc = "idle" /\ Idle.post = NoPost /\ Idle.target = NoTarget
  /\ Idle.chans = {} /\ Idle.todo = {}
  BY DEF Idle, CallStates, CallSteps, Types

----------------------------------------------------------------------------
(***************************************************************************)
(* Type correctness.                                                       *)
(***************************************************************************)

\* The part of IngestTypeOK about the calls.
CallsOK ==
  /\ call \in [Calls -> CallStates]
  /\ \A k \in Calls :
       /\ call[k].pc \in AwaitSteps => call[k].post \in Posts
       /\ call[k].pc \in AwaitSteps \ {"lookup", "resolve"}
            => call[k].target \in TargetIds

\* The tasks that CreateTasks inserts are tasks of the call's message.
LEMMA NewTasksType ==
  ASSUME IngestTypeOK, NEW k \in Calls, call[k].pc = "create"
  PROVE  /\ NewTasks(k) \in SUBSET Tasks
         /\ \A c \in Channels : TaskFor(k, c) \in Tasks
         /\ \A t \in NewTasks(k) :
              /\ t.post = call[k].post /\ t.target = call[k].target
              /\ t.channel \in call[k].chans
              /\ rows[t] # "live"
<1>1. /\ call[k].post \in Posts /\ call[k].target \in TargetIds
      /\ call[k].chans \subseteq Channels
  BY DEF IngestTypeOK, CallStates, AwaitSteps
<1>2. QED
  BY <1>1, IngestAssumption DEF NewTasks, TaskFor

LEMMA CallsStep ==
  ASSUME IngestTypeOK, NEW k \in Calls, CallStep(k)
  PROVE  Others(k) /\ CallsOK'
<1> DEFINE Late == AwaitSteps \ {"lookup", "resolve"}
<1>1. call \in [Calls -> CallStates] /\ CallsOK
  BY DEF IngestTypeOK, CallsOK
<1>2. ASSUME NEW answer \in Answers, GiveUp(k, answer)
      PROVE  Others(k) /\ CallsOK'
  BY <1>1, <1>2, GiveUpCall DEF CallsOK, Others, CallSteps, AwaitSteps, Answers
<1>3. ASSUME NEW next \in CallSteps, GoTo(k, next), call[k].pc \in Late
      PROVE  Others(k) /\ CallsOK'
  BY <1>1, <1>3, GoToCall DEF CallsOK, Others
<1>4. ASSUME NEW next \in CallSteps, NEW i \in TargetIds, GoToWith(k, next, i),
             call[k].pc \in AwaitSteps
      PROVE  Others(k) /\ CallsOK'
  BY <1>1, <1>4, GoToWithCall DEF CallsOK, Others
<1>5. ASSUME NEW S \in SUBSET Tasks, EnqueueNext(k, S), call[k].pc \in Late
      PROVE  Others(k) /\ CallsOK'
  BY <1>1, <1>5, EnqueueNextCall DEF CallsOK, Others
<1> USE DEF CallSteps, AwaitSteps, Answers
<1>6. CASE Lookup(k)
  <2>1. ASSUME NEW i \in Monitored(call[k].post),
               call' = [call EXCEPT ![k].pc = "resolve", ![k].type = TypeOf[i]]
        PROVE  Others(k) /\ CallsOK'
    <3>1. Finds(k, TypeOf[i]) /\ TypeOf[i] \in Types
      BY <2>1, IngestAssumption DEF Finds, Monitored
    <3>2. QED
      BY <1>1, <1>6, <3>1, FoundCall DEF Lookup, CallsOK, Others
  <2>2. QED
    BY <1>2, <1>6, <2>1 DEF Lookup
<1>7. CASE Resolve(k)
  BY <1>2, <1>4, <1>7 DEF Resolve, Resolved
<1>8. CASE FindExisting(k)
  <2>1. message[call[k].post] \in TargetIds \cup {NoTarget}
    BY <1>1, <1>8 DEF FindExisting, CallsOK, IngestTypeOK
  <2>2. QED
    BY <1>3, <1>4, <1>8, <2>1 DEF FindExisting
<1>9. CASE Insert(k)
  BY <1>2, <1>3, <1>9 DEF Insert
<1>10. CASE Refind(k)
  <2>1. message[call[k].post] \in TargetIds \cup {NoTarget}
    BY <1>1, <1>10 DEF Refind, CallsOK, IngestTypeOK
  <2>2. QED
    BY <1>2, <1>4, <1>10, <2>1 DEF Refind
<1>11. CASE Touch(k)
  BY <1>2, <1>3, <1>11 DEF Touch
<1>12. CASE ListChannels(k)
  <2>1. Lists(k, Enabled) \/ EnqueueNext(k, {})
    BY <1>12 DEF ListChannels, Lists, EnqueueNext
  <2>2. Enabled \in SUBSET Channels /\ call[k].pc = "channels"
    BY <1>12 DEF Enabled, ListChannels
  <2>3. QED
    BY <1>1, <1>5, <2>1, <2>2, ListedCall DEF CallsOK, Others
<1>13. CASE CreateTasks(k)
  <2>1. GiveUp(k, "failed") \/ EnqueueNext(k, NewTasks(k))
    BY <1>13 DEF CreateTasks
  <2>2. NewTasks(k) \in SUBSET Tasks /\ call[k].pc = "create"
    BY <1>13, NewTasksType DEF CreateTasks
  <2>3. QED
    BY <1>2, <1>5, <2>1, <2>2
<1>14. CASE Enqueue(k)
  <2>1. PICK t \in call[k].todo : EnqueueNext(k, call[k].todo \ {t})
    BY <1>14 DEF Enqueue
  <2>2. call[k].todo \ {t} \in SUBSET Tasks
    BY <1>1 DEF CallStates
  <2>3. call[k].pc = "enqueue"
    BY <1>14 DEF Enqueue
  <2>4. QED
    BY <1>5, <2>1, <2>2, <2>3
<1>15. CASE Answer(k)
  BY <1>1, <1>15, IdleType DEF Answer, CallsOK, Others
<1>16. QED
  BY <1>6, <1>7, <1>8, <1>9, <1>10, <1>11, <1>12, <1>13, <1>14, <1>15 DEF CallStep

LEMMA TouchedType ==
  ASSUME target \in [TargetIds -> TargetRows], NEW i \in TargetIds, NEW p \in Posts
  PROVE  [target EXCEPT ![i].last = p] \in [TargetIds -> TargetRows]
<1>1. [target[i] EXCEPT !.last = p] \in TargetRows
  BY DEF TargetRows
<1>2. QED
  BY <1>1

LEMMA IngestTypeStep ==
  ASSUME IngestTypeOK, [IngestNext]_ingestVars
  PROVE  IngestTypeOK'
<1> USE DEF IngestTypeOK, RowsTypeOK, AddedTypeOK, tableVars
<1>1. ASSUME NEW k \in Calls, CallStep(k)
      PROVE  IngestTypeOK'
  <2>1. CallsOK'
    BY <1>1, CallsStep
  <2>2. /\ rows' \in [Tasks -> RowStates]
        /\ added' \in [Tasks -> Nat]
    <3>1. CASE CreateTasks(k)
      BY <3>1 DEF CreateTasks, WithRows, RowStates
    <3>2. CASE Enqueue(k)
      <4>1. call[k].todo \subseteq Tasks
        BY DEF CallStates
      <4>2. QED
        BY <3>2, <4>1 DEF Enqueue
    <3>3. QED
      BY <1>1, <3>1, <3>2
         DEF CallStep, Lookup, Resolve, FindExisting, Insert, Refind, Touch,
             ListChannels, Answer
  <2>3. /\ message' \in [Posts -> TargetIds \cup {NoTarget}]
        /\ since' \in [Posts -> SUBSET Channels]
    <3>1. CASE Insert(k)
      <4>1. call[k].target \in TargetIds /\ Enabled \in SUBSET Channels
        BY <3>1 DEF Insert, AwaitSteps, Enabled
      <4>2. QED
        BY <3>1, <4>1 DEF Insert
    <3>2. QED
      BY <1>1, <3>1
         DEF CallStep, Lookup, Resolve, FindExisting, Refind, Touch,
             ListChannels, CreateTasks, Enqueue, Answer
  <2>4. /\ target' \in [TargetIds -> TargetRows]
        /\ announced' \in [Posts -> [TargetIds -> Nat]]
    <3>1. CASE Touch(k)
      <4>1. PICK p \in Posts, i \in TargetIds :
              p = call[k].post /\ i = call[k].target
        BY <3>1 DEF Touch, AwaitSteps
      <4>2. /\ target' = target \/ target' = [target EXCEPT ![i].last = p]
            /\ \/ announced' = announced
               \/ announced' = [announced EXCEPT ![p][i] = @ + 1]
        BY <3>1, <4>1 DEF Touch
      <4>3. target' \in [TargetIds -> TargetRows]
        BY <4>2, TouchedType
      <4>4. announced' \in [Posts -> [TargetIds -> Nat]]
        <5>1. announced[p][i] + 1 \in Nat
          OBVIOUS
        <5>2. [announced[p] EXCEPT ![i] = announced[p][i] + 1] \in [TargetIds -> Nat]
          BY <5>1
        <5>3. announced' = announced
              \/ announced' = [announced EXCEPT ![p] =
                   [announced[p] EXCEPT ![i] = announced[p][i] + 1]]
          BY <4>2
        <5>4. QED
          BY <5>2, <5>3
      <4>5. QED
        BY <4>3, <4>4
    <3>2. QED
      BY <1>1, <3>1
         DEF CallStep, Lookup, Resolve, FindExisting, Insert, Refind,
             ListChannels, CreateTasks, Enqueue, Answer
  <2>5. channel' = channel
    BY <1>1 DEF CallStep, Lookup, Resolve, FindExisting, Insert, Refind, Touch,
                ListChannels, CreateTasks, Enqueue, Answer
  <2>6. QED
    BY <2>1, <2>2, <2>3, <2>4, <2>5 DEF CallsOK
<1>2. ASSUME NEW k \in Calls, Reject(k)
      PROVE  IngestTypeOK'
  <2>1. "failed" \in CallSteps /\ "failed" \notin AwaitSteps
    BY DEF CallSteps, Answers, AwaitSteps
  <2>2. GiveUp(k, "failed") /\ UNCHANGED <<rows, channel, message, since, announced>>
    BY <1>2 DEF Reject
  <2>3. added' \in [Tasks -> Nat]
    BY <1>2 DEF Reject, CallStates
  <2>4. target' \in [TargetIds -> TargetRows]
    <3>1. CASE target' = target
      BY <3>1
    <3>2. CASE call[k].pc = "touch"
      <4>1. PICK p \in Posts, i \in TargetIds :
              p = call[k].post /\ i = call[k].target
        BY <3>2 DEF AwaitSteps
      <4>2. target' = target \/ target' = [target EXCEPT ![i].last = p]
        BY <1>2, <4>1 DEF Reject
      <4>3. QED
        BY <4>2, TouchedType
    <3>3. QED
      BY <1>2, <3>1, <3>2 DEF Reject
  <2>5. QED
    BY <2>1, <2>2, <2>3, <2>4, GiveUpCall DEF Others
<1>3. ASSUME NEW k \in Calls, NEW p \in Posts, Receive(k, p)
      PROVE  IngestTypeOK'
  <2>1. UNCHANGED <<rows, added, target, channel, message, since, announced>>
    BY <1>3 DEF Receive
  <2>2. QED
    BY <1>3, <2>1, ReceivedCall DEF Others
<1>4. CASE IngestCrash
  BY <1>4, IdleType DEF IngestCrash, AwaitSteps
<1>5. CASE AdminStep
  <2>1. ASSUME NEW i \in TargetIds, NEW x \in Chats, CreateTarget(i, x)
        PROVE  IngestTypeOK'
    BY <2>1 DEF CreateTarget, TargetRows, RowStates
  <2>2. ASSUME NEW i \in TargetIds, NEW x \in Chats, NEW on \in BOOLEAN,
               UpdateTarget(i, x, on)
        PROVE  IngestTypeOK'
    <3> DEFINE renamed == [target EXCEPT ![i].chat = x]
    <3>1. renamed \in [TargetIds -> TargetRows]
      BY DEF TargetRows
    <3>2. target' = [renamed EXCEPT ![i].enabled = on]
      BY <2>2 DEF UpdateTarget
    <3> HIDE DEF renamed
    <3>3. target' \in [TargetIds -> TargetRows]
      BY <3>1, <3>2 DEF TargetRows
    <3>4. QED
      BY <2>2, <3>3 DEF UpdateTarget
  <2>3. ASSUME NEW i \in TargetIds, RemoveTarget(i)
        PROVE  IngestTypeOK'
    <3>1. target' \in [TargetIds -> TargetRows]
      BY <2>3 DEF RemoveTarget, NoTargetRow, TargetRows, RowStates
    <3>2. QED
      BY <2>3, <3>1 DEF RemoveTarget, WithoutRows, RowStates
  <2>4. ASSUME NEW c \in Channels,
               CreateChannel(c) \/ RemoveChannel(c) \/
               \E on \in BOOLEAN : UpdateChannel(c, on)
        PROVE  IngestTypeOK'
    <3>1. channel' \in [Channels -> ChannelStates]
      BY <2>4 DEF CreateChannel, UpdateChannel, RemoveChannel, ChannelStates
    <3>2. since' \in [Posts -> SUBSET Channels]
      BY <2>4 DEF CreateChannel, UpdateChannel, RemoveChannel
    <3>3. rows' \in [Tasks -> RowStates]
      BY <2>4 DEF CreateChannel, UpdateChannel, RemoveChannel, WithoutRows, RowStates
    <3>4. UNCHANGED <<added, target, message, call, announced>>
      BY <2>4 DEF CreateChannel, UpdateChannel, RemoveChannel
    <3>5. QED
      BY <3>1, <3>2, <3>3, <3>4
  <2>5. QED
    BY <1>5, <2>1, <2>2, <2>3, <2>4 DEF AdminStep
<1>6. CASE UNCHANGED ingestVars
  BY <1>6 DEF ingestVars
<1>7. QED
  BY <1>1, <1>2, <1>3, <1>4, <1>5, <1>6 DEF IngestNext, IngestStep

\* Every reachable state of the ingest is type correct, and no call reads a
\* local it has not set.
THEOREM IngestTypeCorrect == IngestSpec => []IngestTypeOK
<1>1. IngestInit => IngestTypeOK
  BY IdleType DEF IngestInit, IngestTypeOK, RowsTypeOK, AddedTypeOK, RowStates,
         NoRows, NothingAdded, TargetRows, NoTargetRow, ChannelStates, AwaitSteps
<1>2. IngestTypeOK /\ [IngestNext]_ingestVars => IngestTypeOK'
  BY IngestTypeStep
<1>3. QED
  BY <1>1, <1>2, PTL DEF IngestSpec

----------------------------------------------------------------------------
(***************************************************************************)
(* The inductive invariant: why a message is announced once and its tasks  *)
(* are enqueued once, though nothing locks a message.  The rows decide:    *)
(* whoever inserts a Message or a NotificationTask goes on with it, and    *)
(* nobody else.                                                            *)
(***************************************************************************)

\* Message p is saved under target i, or was until i was deleted.
SavedUnder(p, i) == message[p] = i \/ target[i].row = "deleted"

MessagesHaveTargets ==
  \A p \in Posts : message[p] # NoTarget => TargetLive(message[p])

DeletedForAReason ==
  \A t \in Tasks : rows[t] = "deleted" =>
    target[t.target].row = "deleted" \/ channel[t.channel] = "deleted"

\* The tasks that a call has left to enqueue are its own and nobody's before.
TodoIsOwn ==
  /\ \A k \in Calls : \A t \in call[k].todo : rows[t] # "none" /\ added[t] = 0
  /\ \A k, l \in Calls : k # l => call[k].todo \cap call[l].todo = {}

\* One call is about to announce a message that nobody has announced.
TouchIsOwn ==
  /\ \A k \in Calls : call[k].pc = "touch" =>
       /\ announced[call[k].post][call[k].target] = 0
       /\ SavedUnder(call[k].post, call[k].target)
  /\ \A k, l \in Calls :
       /\ call[k].pc = "touch" /\ call[l].pc = "touch"
       /\ call[k].post = call[l].post /\ call[k].target = call[l].target
       => k = l

RoutingSteps == {"channels", "create", "enqueue", "ok"}

\* A call that routes a message routes it to every channel it must.
RoutesWell(k) ==
  /\ call[k].pc \in RoutingSteps =>
       /\ call[k].post \in Posts /\ call[k].target \in TargetIds
       /\ SavedUnder(call[k].post, call[k].target)
  /\ call[k].pc = "create" /\ MessageExists(k) =>
       since[call[k].post] \subseteq call[k].chans
  /\ call[k].pc \in {"enqueue", "ok"} /\ MessageExists(k) =>
       \A c \in since[call[k].post] : rows[TaskFor(k, c)] = "live"

RoutesAll ==
  /\ \A p \in Posts : since[p] \subseteq Enabled
  /\ \A k \in Calls : RoutesWell(k)

IngestInv ==
  /\ IngestTypeOK
  /\ MessagesHaveTargets
  /\ DeletedForAReason
  /\ TodoIsOwn
  /\ OneJobPerTask
  /\ TouchIsOwn
  /\ AnnouncedOnce
  /\ RoutesAll

----------------------------------------------------------------------------
(***************************************************************************)
(* What the steps do to the tables.                                        *)
(***************************************************************************)
TablesStand ==
  /\ UNCHANGED <<rows, message, channel, since>>
  /\ \A i \in TargetIds : target'[i].row = target[i].row

\* Call k inserts its message.
Inserts(k) ==
  /\ call[k].pc = "insert" /\ call'[k].pc = "touch"
  /\ call'[k].post = call[k].post /\ call'[k].target = call[k].target
  /\ call[k].post \in Posts /\ call[k].target \in TargetIds
  /\ message[call[k].post] = NoTarget /\ TargetLive(call[k].target)
  /\ message' = [message EXCEPT ![call[k].post] = call[k].target]
  /\ since' = [since EXCEPT ![call[k].post] = Enabled]
  /\ UNCHANGED <<rows, added, channel, target, announced>>

\* Call k inserts the tasks of its message.
Creates(k) ==
  /\ call[k].pc = "create"
  /\ MessageExists(k)
  /\ \A c \in call[k].chans : ChannelLive(c)
  /\ rows' = WithRows(NewTasks(k))
  /\ EnqueueNext(k, NewTasks(k))
  /\ UNCHANGED <<added, message, channel, target, since, announced>>

AddsTarget(i) ==
  /\ target[i].row = "none" /\ target'[i].row = "live"
  /\ \A j \in TargetIds \ {i} : target'[j] = target[j]
  /\ UNCHANGED <<rows, message, channel, since>>

SetsChannel(c) ==
  /\ channel[c] # "deleted" /\ channel'[c] \in {"enabled", "disabled"}
  /\ \A p \in Posts :
       /\ since'[p] \subseteq since[p]
       /\ channel'[c] = "disabled" => c \notin since'[p]
  /\ \A d \in Channels \ {c} : channel'[d] = channel[d]
  /\ UNCHANGED <<rows, message, target>>

LEMMA TableSteps ==
  ASSUME IngestTypeOK, [IngestNext]_ingestVars
  PROVE  \/ TablesStand
         \/ \E k \in Calls : Others(k) /\ (Inserts(k) \/ Creates(k))
         \/ \E i \in TargetIds : AddsTarget(i) \/ RemoveTarget(i)
         \/ \E c \in Channels : SetsChannel(c) \/ RemoveChannel(c)
<1> USE DEF TablesStand, tableVars
<1>1. ASSUME NEW k \in Calls, CallStep(k)
      PROVE  TablesStand \/ (Others(k) /\ (Inserts(k) \/ Creates(k)))
  <2>1. Others(k)
    BY <1>1, CallsStep
  <2>2. CASE Insert(k)
    <3>1. CASE UNCHANGED message
      <4>1. message[call[k].post] # call[k].target
            \/ message[call[k].post] # NoTarget
        BY <2>2, IngestAssumption DEF Insert, IngestTypeOK, AwaitSteps
      <4>2. since' = since
        BY <2>2, <3>1, <4>1 DEF Insert, IngestTypeOK, AwaitSteps
      <4>3. QED
        BY <2>2, <3>1, <4>2 DEF Insert
    <3>2. CASE message' # message
      <4>1. call[k].post \in Posts /\ call[k].target \in TargetIds
        BY <2>2 DEF Insert, IngestTypeOK, AwaitSteps
      <4>2. GoTo(k, "touch") /\ "touch" \in CallSteps
        BY <2>2, <3>2 DEF Insert, CallSteps, AwaitSteps
      <4>3. /\ call'[k].pc = "touch"
            /\ call'[k].post = call[k].post /\ call'[k].target = call[k].target
        BY <4>2, GoToCall DEF IngestTypeOK
      <4>4. Inserts(k)
        BY <2>2, <3>2, <4>1, <4>3 DEF Insert, Inserts
      <4>5. QED
        BY <2>1, <4>4
    <3>3. QED
      BY <3>1, <3>2
  <2>3. CASE CreateTasks(k)
    BY <2>1, <2>3 DEF CreateTasks, Creates
  <2>4. CASE Touch(k)
    <3>1. target' = target
          \/ target' = [target EXCEPT ![call[k].target].last = call[k].post]
      BY <2>4 DEF Touch
    <3>2. \A i \in TargetIds : target'[i].row = target[i].row
      BY <3>1 DEF IngestTypeOK, TargetRows
    <3>3. QED
      BY <2>4, <3>2 DEF Touch
  <2>5. QED
    BY <1>1, <2>2, <2>3, <2>4
       DEF CallStep, Lookup, Resolve, FindExisting, Refind, ListChannels,
           Enqueue, Answer
<1>2. ASSUME NEW k \in Calls, Reject(k)
      PROVE  TablesStand
  <2>1. target' = target
        \/ target' = [target EXCEPT ![call[k].target].last = call[k].post]
    BY <1>2 DEF Reject
  <2>2. \A i \in TargetIds : target'[i].row = target[i].row
    BY <2>1 DEF IngestTypeOK, TargetRows
  <2>3. QED
    BY <1>2, <2>2 DEF Reject
<1>3. ASSUME NEW k \in Calls, NEW p \in Posts, Receive(k, p)
      PROVE  TablesStand
  BY <1>3 DEF Receive
<1>4. ASSUME NEW i \in TargetIds, NEW x \in Chats, CreateTarget(i, x)
      PROVE  AddsTarget(i)
  BY <1>4 DEF CreateTarget, AddsTarget, IngestTypeOK
<1>5. ASSUME NEW i \in TargetIds, NEW x \in Chats, NEW on \in BOOLEAN,
             UpdateTarget(i, x, on)
      PROVE  TablesStand
  <2> DEFINE renamed == [target EXCEPT ![i].chat = x]
  <2>1. /\ renamed \in [TargetIds -> TargetRows]
        /\ \A j \in TargetIds : renamed[j].row = target[j].row
    BY DEF TargetRows, IngestTypeOK
  <2>2. target' = [renamed EXCEPT ![i].enabled = on]
    BY <1>5 DEF UpdateTarget
  <2> HIDE DEF renamed
  <2>3. \A j \in TargetIds : target'[j].row = target[j].row
    BY <2>1, <2>2 DEF TargetRows
  <2>4. QED
    BY <1>5, <2>3 DEF UpdateTarget
<1>6. ASSUME NEW c \in Channels,
             CreateChannel(c) \/ \E on \in BOOLEAN : UpdateChannel(c, on)
      PROVE  SetsChannel(c)
  BY <1>6 DEF CreateChannel, UpdateChannel, SetsChannel, ChannelLive, IngestTypeOK
<1>7. CASE IngestCrash \/ UNCHANGED ingestVars
  BY <1>7 DEF IngestCrash, ingestVars
<1>8. QED
  BY <1>1, <1>2, <1>3, <1>4, <1>5, <1>6, <1>7
     DEF IngestNext, IngestStep, AdminStep

LEMMA MessagesHaveTargetsStep ==
  ASSUME IngestTypeOK, MessagesHaveTargets, [IngestNext]_ingestVars
  PROVE  MessagesHaveTargets'
<1> USE DEF MessagesHaveTargets, TargetLive, IngestTypeOK
<1>1. CASE TablesStand
  BY <1>1 DEF TablesStand
<1>2. ASSUME NEW k \in Calls, Inserts(k)
      PROVE  MessagesHaveTargets'
  BY <1>2 DEF Inserts
<1>3. ASSUME NEW k \in Calls, Creates(k)
      PROVE  MessagesHaveTargets'
  BY <1>3 DEF Creates
<1>4. ASSUME NEW i \in TargetIds, AddsTarget(i)
      PROVE  MessagesHaveTargets'
  BY <1>4 DEF AddsTarget
<1>5. ASSUME NEW i \in TargetIds, RemoveTarget(i)
      PROVE  MessagesHaveTargets'
  BY <1>5 DEF RemoveTarget
<1>6. ASSUME NEW c \in Channels, SetsChannel(c) \/ RemoveChannel(c)
      PROVE  MessagesHaveTargets'
  BY <1>6 DEF SetsChannel, RemoveChannel
<1>7. QED
  BY <1>1, <1>2, <1>3, <1>4, <1>5, <1>6, TableSteps

\* The rows that a call inserts were never there.
LEMMA NewRowsAreNew ==
  ASSUME IngestTypeOK, MessagesHaveTargets, DeletedForAReason,
         NEW k \in Calls, Creates(k), NEW t \in NewTasks(k)
  PROVE  /\ t \in Tasks /\ rows[t] = "none"
         /\ t.post = call[k].post /\ t.target = call[k].target
         /\ message[t.post] = t.target /\ ChannelLive(t.channel)
<1>1. /\ t \in Tasks /\ t.channel \in call[k].chans /\ rows[t] # "live"
      /\ t.post = call[k].post /\ t.target = call[k].target
  BY NewTasksType DEF Creates
<1>2. t.post \in Posts /\ t.target \in TargetIds /\ message[t.post] = t.target
  BY <1>1, IngestAssumption DEF Creates, MessageExists
<1>3. target[t.target].row = "live" /\ ChannelLive(t.channel)
  BY <1>1, <1>2, IngestAssumption DEF MessagesHaveTargets, TargetLive, Creates
<1>4. rows[t] # "deleted"
  BY <1>1, <1>3 DEF DeletedForAReason, ChannelLive
<1>5. QED
  BY <1>1, <1>2, <1>3, <1>4 DEF IngestTypeOK, RowsTypeOK, RowStates

LEMMA DeletedForAReasonStep ==
  ASSUME IngestTypeOK, DeletedForAReason, [IngestNext]_ingestVars
  PROVE  DeletedForAReason'
<1> USE DEF DeletedForAReason
<1>1. \A t \in Tasks : t.target \in TargetIds /\ t.channel \in Channels
  BY IngestAssumption
<1>2. CASE TablesStand
  BY <1>1, <1>2 DEF TablesStand
<1>3. ASSUME NEW k \in Calls, Inserts(k)
      PROVE  DeletedForAReason'
  BY <1>3 DEF Inserts
<1>4. ASSUME NEW k \in Calls, Creates(k)
      PROVE  DeletedForAReason'
  BY <1>4 DEF Creates, WithRows
<1>5. ASSUME NEW i \in TargetIds, AddsTarget(i)
      PROVE  DeletedForAReason'
  BY <1>1, <1>5 DEF AddsTarget
<1>6. ASSUME NEW i \in TargetIds, RemoveTarget(i)
      PROVE  DeletedForAReason'
  <2>1. /\ target'[i].row = "deleted"
        /\ \A j \in TargetIds \ {i} : target'[j] = target[j]
    BY <1>6 DEF RemoveTarget, NoTargetRow, IngestTypeOK
  <2>2. \A t \in Tasks : rows'[t] = "deleted" => rows[t] = "deleted" \/ t.target = i
    BY <1>6 DEF RemoveTarget, WithoutRows
  <2>3. channel' = channel
    BY <1>6 DEF RemoveTarget
  <2>4. QED
    BY <1>1, <2>1, <2>2, <2>3
<1>7. ASSUME NEW c \in Channels, SetsChannel(c)
      PROVE  DeletedForAReason'
  BY <1>1, <1>7 DEF SetsChannel
<1>8. ASSUME NEW c \in Channels, RemoveChannel(c)
      PROVE  DeletedForAReason'
  BY <1>1, <1>8 DEF RemoveChannel, WithoutRows, IngestTypeOK
<1>9. QED
  BY <1>2, <1>3, <1>4, <1>5, <1>6, <1>7, <1>8, TableSteps

----------------------------------------------------------------------------
(***************************************************************************)
(* One job per task.                                                       *)
(***************************************************************************)

\* Call k hands task t to the queue (or dies doing so).
Adds(k, t) ==
  /\ t \in call[k].todo
  /\ added' = [added EXCEPT ![t] = @ + 1]
  /\ rows' = rows
  /\ call'[k].todo \subseteq call[k].todo \ {t}

\* Nothing is handed over, and nobody has more to hand over.
NothingAdds ==
  /\ added' = added
  /\ \A l \in Calls : call'[l].todo \subseteq call[l].todo
  /\ \A t \in Tasks : rows'[t] = "none" => rows[t] = "none"

\* Only CreateTasks gives a call tasks to enqueue.
LEMMA TodoShrinks ==
  ASSUME IngestTypeOK, NEW k \in Calls, CallStep(k), ~CreateTasks(k), ~Enqueue(k)
  PROVE  call'[k].todo \subseteq call[k].todo
<1> USE DEF CallSteps, AwaitSteps, Answers
<1>1. call \in [Calls -> CallStates]
      /\ \A l \in Calls : call[l].todo \subseteq Tasks
  BY DEF IngestTypeOK, CallStates
<1>2. ASSUME NEW answer \in Answers, GiveUp(k, answer)
      PROVE  call'[k].todo \subseteq call[k].todo
  BY <1>1, <1>2, GiveUpCall
<1>3. ASSUME NEW next \in CallSteps, GoTo(k, next)
      PROVE  call'[k].todo \subseteq call[k].todo
  BY <1>1, <1>3, GoToCall
<1>4. ASSUME NEW next \in CallSteps, NEW i \in TargetIds, GoToWith(k, next, i)
      PROVE  call'[k].todo \subseteq call[k].todo
  BY <1>1, <1>4, GoToWithCall
<1>5. CASE Lookup(k)
  <2>1. ASSUME NEW i \in Monitored(call[k].post), Finds(k, TypeOf[i])
        PROVE  call'[k].todo \subseteq call[k].todo
    BY <1>1, <2>1, IngestAssumption, FoundCall DEF Monitored
  <2>2. QED
    BY <1>2, <1>5, <2>1 DEF Lookup, Finds
<1>6. CASE ListChannels(k)
  <2>1. Lists(k, Enabled) \/ EnqueueNext(k, {})
    BY <1>6 DEF ListChannels, Lists, EnqueueNext
  <2>2. Enabled \in SUBSET Channels
    BY DEF Enabled
  <2>3. QED
    BY <1>1, <2>1, <2>2, ListedCall, EnqueueNextCall
<1>7. CASE Answer(k)
  BY <1>1, <1>7, IdleType DEF Answer
<1>8. CASE FindExisting(k) \/ Refind(k)
  <2>1. message[call[k].post] \in TargetIds \cup {NoTarget}
    BY <1>8 DEF FindExisting, Refind, IngestTypeOK
  <2>2. QED
    BY <1>2, <1>3, <1>4, <1>8, <2>1 DEF FindExisting, Refind
<1>9. CASE Resolve(k) \/ Insert(k) \/ Touch(k)
  BY <1>2, <1>3, <1>4, <1>9 DEF Resolve, Resolved, Insert, Touch
<1>10. QED
  BY <1>5, <1>6, <1>7, <1>8, <1>9 DEF CallStep

LEMMA JobSteps ==
  ASSUME IngestTypeOK, [IngestNext]_ingestVars
  PROVE  \/ NothingAdds
         \/ \E k \in Calls : Others(k) /\ (Creates(k) \/ \E t \in Tasks : Adds(k, t))
<1> USE DEF NothingAdds
<1>1. call \in [Calls -> CallStates]
      /\ \A k \in Calls : call[k].todo \subseteq Tasks
  BY DEF IngestTypeOK, CallStates
<1>2. ASSUME NEW k \in Calls, CallStep(k)
      PROVE  NothingAdds \/ (Others(k) /\ (Creates(k) \/ \E t \in Tasks : Adds(k, t)))
  <2> USE DEF CallSteps, AwaitSteps, Answers
  <2>1. Others(k)
    BY <1>2, CallsStep
  <2>2. CASE CreateTasks(k)
    <3>1. CASE Creates(k)
      BY <2>1, <3>1
    <3>2. CASE ~Creates(k)
      <4>1. GiveUp(k, "failed") /\ UNCHANGED <<rows, added>>
        BY <2>2, <3>2 DEF CreateTasks, Creates, tableVars
      <4>2. QED
        BY <1>1, <2>1, <4>1, GiveUpCall DEF Others
    <3>3. QED
      BY <3>1, <3>2
  <2>3. CASE Enqueue(k)
    <3>1. PICK t \in call[k].todo :
            /\ added' = [added EXCEPT ![t] = @ + 1]
            /\ EnqueueNext(k, call[k].todo \ {t})
      BY <2>3 DEF Enqueue
    <3>2. call[k].todo \ {t} \in SUBSET Tasks /\ t \in Tasks
      BY <1>1
    <3>3. call'[k].todo = call[k].todo \ {t}
      BY <1>1, <3>1, <3>2, EnqueueNextCall
    <3>4. Adds(k, t)
      BY <2>3, <3>1, <3>3 DEF Adds, Enqueue
    <3>5. QED
      BY <2>1, <3>2, <3>4
  <2>4. CASE ~CreateTasks(k) /\ ~Enqueue(k)
    <3>1. UNCHANGED <<rows, added>>
      BY <1>2, <2>4
         DEF CallStep, Lookup, Resolve, FindExisting, Insert, Refind, Touch,
             ListChannels, Answer
    <3>2. call'[k].todo \subseteq call[k].todo
      BY <1>2, <2>4, TodoShrinks
    <3>3. QED
      BY <2>1, <3>1, <3>2 DEF Others
  <2>5. QED
    BY <2>2, <2>3, <2>4
<1>3. ASSUME NEW k \in Calls, Reject(k)
      PROVE  NothingAdds \/ (Others(k) /\ \E t \in Tasks : Adds(k, t))
  <2>1. Others(k) /\ call'[k].todo = {}
    BY <1>1, <1>3, GiveUpCall DEF Reject, CallSteps, Answers
  <2>2. rows' = rows
    BY <1>3 DEF Reject
  <2>3. CASE added' = added
    BY <2>1, <2>2, <2>3 DEF Others
  <2>4. ASSUME NEW t \in call[k].todo, added' = [added EXCEPT ![t] = @ + 1]
        PROVE  \E u \in Tasks : Adds(k, u)
    BY <1>1, <2>1, <2>2, <2>4 DEF Adds
  <2>5. QED
    BY <1>3, <2>1, <2>3, <2>4 DEF Reject
<1>4. ASSUME NEW k \in Calls, NEW p \in Posts, Receive(k, p)
      PROVE  NothingAdds
  BY <1>1, <1>4, ReceivedCall DEF Receive, Others
<1>5. CASE AdminStep
  <2>1. UNCHANGED <<added, call>>
    BY <1>5 DEF AdminStep, CreateTarget, UpdateTarget, RemoveTarget,
                CreateChannel, UpdateChannel, RemoveChannel
  <2>2. \A t \in Tasks : rows'[t] = "none" => rows[t] = "none"
    BY <1>5 DEF AdminStep, CreateTarget, UpdateTarget, RemoveTarget,
                CreateChannel, UpdateChannel, RemoveChannel, WithoutRows
  <2>3. QED
    BY <2>1, <2>2
<1>6. CASE IngestCrash
  BY <1>6, IdleType DEF IngestCrash
<1>7. CASE UNCHANGED ingestVars
  BY <1>7 DEF ingestVars
<1>8. QED
  BY <1>2, <1>3, <1>4, <1>5, <1>6, <1>7 DEF IngestNext, IngestStep

LEMMA OneJobStep ==
  ASSUME IngestTypeOK, MessagesHaveTargets, DeletedForAReason, TodoIsOwn,
         OneJobPerTask, [IngestNext]_ingestVars
  PROVE  TodoIsOwn' /\ OneJobPerTask'
<1>1. \A t \in Tasks : added[t] \in Nat
  BY DEF IngestTypeOK, AddedTypeOK
<1>2. \A k \in Calls : call[k].todo \subseteq Tasks
  BY DEF IngestTypeOK, CallStates
<1>3. CASE NothingAdds
  <2>1. \A t \in Tasks : rows[t] # "none" => rows'[t] # "none"
    BY <1>3 DEF NothingAdds
  <2>2. TodoIsOwn'
    BY <1>2, <1>3, <2>1 DEF NothingAdds, TodoIsOwn
  <2>3. OneJobPerTask'
    BY <1>3, <2>1 DEF NothingAdds, OneJobPerTask
  <2>4. QED
    BY <2>2, <2>3
<1>4. ASSUME NEW k \in Calls, Others(k), NEW t \in Tasks, Adds(k, t)
      PROVE  TodoIsOwn' /\ OneJobPerTask'
  <2>1. /\ added[t] = 0 /\ rows[t] # "none"
        /\ \A l \in Calls \ {k} : t \notin call[l].todo
    BY <1>4 DEF Adds, TodoIsOwn
  <2>2. /\ rows' = rows /\ added'[t] = 1
        /\ \A u \in Tasks \ {t} : added'[u] = added[u]
    BY <1>4, <2>1 DEF Adds, IngestTypeOK, AddedTypeOK
  <2>3. \A l \in Calls : call'[l].todo \subseteq call[l].todo \ {t}
    BY <1>4, <2>1 DEF Adds, Others
  <2>4. TodoIsOwn'
    BY <1>2, <2>2, <2>3 DEF TodoIsOwn
  <2>5. OneJobPerTask'
    BY <2>1, <2>2 DEF OneJobPerTask
  <2>6. QED
    BY <2>4, <2>5
<1>5. ASSUME NEW k \in Calls, Others(k), Creates(k)
      PROVE  TodoIsOwn' /\ OneJobPerTask'
  <2>1. NewTasks(k) \in SUBSET Tasks
    BY <1>5, NewTasksType DEF Creates
  <2>2. call'[k].todo = NewTasks(k)
    BY <1>5, <2>1, EnqueueNextCall DEF Creates, IngestTypeOK
  <2>3. \A t \in NewTasks(k) : rows[t] = "none"
    BY <1>5, NewRowsAreNew
  <2>4. \A t \in NewTasks(k) : added[t] = 0 /\ rows'[t] = "live"
    BY <1>1, <1>5, <2>1, <2>3 DEF Creates, WithRows, OneJobPerTask
  <2>5. \A t \in Tasks : rows[t] # "none" => rows'[t] # "none"
    BY <1>5 DEF Creates, WithRows
  <2>6. added' = added
    BY <1>5 DEF Creates
  <2>7. \A l \in Calls \ {k} : call'[l].todo = call[l].todo
    BY <1>5 DEF Others
  <2>8. \A l \in Calls : \A t \in call'[l].todo : rows'[t] # "none" /\ added'[t] = 0
    BY <1>2, <2>2, <2>4, <2>5, <2>6, <2>7 DEF TodoIsOwn
  <2>9. \A l \in Calls \ {k} : call[l].todo \cap NewTasks(k) = {}
    BY <2>3 DEF TodoIsOwn
  <2>10. TodoIsOwn'
    BY <2>2, <2>7, <2>8, <2>9 DEF TodoIsOwn
  <2>11. OneJobPerTask'
    BY <2>5, <2>6 DEF OneJobPerTask
  <2>12. QED
    BY <2>10, <2>11
<1>6. QED
  BY <1>3, <1>4, <1>5, JobSteps

----------------------------------------------------------------------------
(***************************************************************************)
(* One announcement per message.                                           *)
(***************************************************************************)

\* Call k announces its message.
Announces(k) ==
  /\ call[k].pc = "touch" /\ call'[k].pc # "touch"
  /\ call[k].post \in Posts /\ call[k].target \in TargetIds
  /\ announced' = [announced EXCEPT ![call[k].post][call[k].target] = @ + 1]

\* Nothing is announced, and no other call is about to announce.
NothingAnnounces ==
  /\ announced' = announced
  /\ \A l \in Calls : call'[l].pc = "touch" => call'[l] = call[l]

\* A message that was saved under a target stays so, or dies with the target.
SavedStays ==
  \A p \in Posts, i \in TargetIds : SavedUnder(p, i) => SavedUnder(p, i)'

LEMMA SavedStep ==
  ASSUME IngestTypeOK, [IngestNext]_ingestVars
  PROVE  SavedStays
<1> USE DEF SavedStays, SavedUnder
<1>1. CASE TablesStand
  BY <1>1 DEF TablesStand
<1>2. ASSUME NEW k \in Calls, Inserts(k)
      PROVE  SavedStays
  BY <1>2, IngestAssumption DEF Inserts, IngestTypeOK
<1>3. ASSUME NEW k \in Calls, Creates(k)
      PROVE  SavedStays
  BY <1>3 DEF Creates
<1>4. ASSUME NEW i \in TargetIds, AddsTarget(i)
      PROVE  SavedStays
  BY <1>4 DEF AddsTarget
<1>5. ASSUME NEW i \in TargetIds, RemoveTarget(i)
      PROVE  SavedStays
  <2>1. /\ target'[i].row = "deleted"
        /\ \A j \in TargetIds \ {i} : target'[j] = target[j]
    BY <1>5 DEF RemoveTarget, NoTargetRow, IngestTypeOK
  <2>2. \A p \in Posts : message[p] # i => message'[p] = message[p]
    BY <1>5 DEF RemoveTarget
  <2>3. QED
    BY <2>1, <2>2
<1>6. ASSUME NEW c \in Channels, SetsChannel(c) \/ RemoveChannel(c)
      PROVE  SavedStays
  BY <1>6 DEF SetsChannel, RemoveChannel
<1>7. QED
  BY <1>1, <1>2, <1>3, <1>4, <1>5, <1>6, TableSteps

LEMMA AnnounceSteps ==
  ASSUME IngestTypeOK, [IngestNext]_ingestVars
  PROVE  \/ NothingAnnounces
         \/ \E k \in Calls : Others(k) /\ (Inserts(k) \/ Announces(k))
<1> USE DEF NothingAnnounces
<1>1. call \in [Calls -> CallStates]
  BY DEF IngestTypeOK
<1>2. ASSUME NEW k \in Calls, Others(k), UNCHANGED announced, call'[k].pc # "touch"
      PROVE  NothingAnnounces
  BY <1>2 DEF Others
<1>3. ASSUME NEW k \in Calls, CallStep(k)
      PROVE  NothingAnnounces \/ (Others(k) /\ (Inserts(k) \/ Announces(k)))
  <2> USE DEF CallSteps, AwaitSteps, Answers
  <2>1. Others(k)
    BY <1>3, CallsStep
  <2>2. ASSUME NEW answer \in Answers, GiveUp(k, answer)
        PROVE  call'[k].pc # "touch"
    BY <1>1, <2>2, GiveUpCall
  <2>3. ASSUME NEW next \in CallSteps \ {"touch"}, GoTo(k, next)
        PROVE  call'[k].pc # "touch"
    BY <1>1, <2>3, GoToCall
  <2>4. ASSUME NEW next \in CallSteps \ {"touch"}, NEW i \in TargetIds,
               GoToWith(k, next, i)
        PROVE  call'[k].pc # "touch"
    BY <1>1, <2>4, GoToWithCall
  <2>5. ASSUME NEW S \in SUBSET Tasks, EnqueueNext(k, S)
        PROVE  call'[k].pc # "touch"
    BY <1>1, <2>5, EnqueueNextCall
  <2>6. CASE Insert(k)
    <3>1. CASE message' = message
      <4>1. GoTo(k, "refind") \/ GiveUp(k, "failed")
        <5>1. CASE GoTo(k, "touch") /\ message' = [message EXCEPT ![call[k].post] = call[k].target]
                   /\ message[call[k].post] = NoTarget
          BY <2>6, <3>1, <5>1, IngestAssumption DEF Insert, IngestTypeOK
        <5>2. QED
          BY <2>6, <5>1 DEF Insert
      <4>2. QED
        BY <1>2, <2>1, <2>2, <2>3, <2>6, <4>1 DEF Insert
    <3>2. CASE message' # message
      <4>1. call[k].post \in Posts /\ call[k].target \in TargetIds
        BY <2>6 DEF Insert, IngestTypeOK
      <4>2. GoTo(k, "touch")
        BY <2>6, <3>2 DEF Insert
      <4>3. /\ call'[k].pc = "touch"
            /\ call'[k].post = call[k].post /\ call'[k].target = call[k].target
        BY <1>1, <4>2, GoToCall
      <4>4. Inserts(k)
        BY <2>6, <3>2, <4>1, <4>3 DEF Insert, Inserts
      <4>5. QED
        BY <2>1, <4>4
    <3>3. QED
      BY <3>1, <3>2
  <2>7. CASE Touch(k)
    <3>1. call'[k].pc # "touch"
      BY <2>2, <2>3, <2>7 DEF Touch
    <3>2. call[k].post \in Posts /\ call[k].target \in TargetIds
      BY <2>7 DEF Touch, IngestTypeOK
    <3>3. QED
      BY <1>2, <2>1, <2>7, <3>1, <3>2 DEF Touch, Announces
  <2>8. CASE ~Insert(k) /\ ~Touch(k)
    <3>1. announced' = announced
      BY <1>3, <2>8
         DEF CallStep, Lookup, Resolve, FindExisting, Refind, ListChannels,
             CreateTasks, Enqueue, Answer
    <3>2. call'[k].pc # "touch"
      <4>1. CASE Lookup(k)
        <5>1. ASSUME NEW i \in Monitored(call[k].post), Finds(k, TypeOf[i])
              PROVE  call'[k].pc # "touch"
          BY <1>1, <5>1, IngestAssumption, FoundCall DEF Monitored
        <5>2. QED
          BY <2>2, <4>1, <5>1 DEF Lookup, Finds
      <4>2. CASE ListChannels(k)
        <5>1. Lists(k, Enabled) \/ EnqueueNext(k, {})
          BY <4>2 DEF ListChannels, Lists, EnqueueNext
        <5>2. Enabled \in SUBSET Channels
          BY DEF Enabled
        <5>3. QED
          BY <1>1, <2>5, <5>1, <5>2, ListedCall
      <4>3. CASE Answer(k)
        BY <1>1, <4>3, IdleType DEF Answer
      <4>4. CASE FindExisting(k) \/ Refind(k)
        <5>1. message[call[k].post] \in TargetIds \cup {NoTarget}
          BY <4>4 DEF FindExisting, Refind, IngestTypeOK
        <5>2. QED
          BY <2>2, <2>3, <2>4, <4>4, <5>1 DEF FindExisting, Refind
      <4>5. CASE Resolve(k)
        BY <2>2, <2>4, <4>5 DEF Resolve, Resolved
      <4>6. CASE CreateTasks(k)
        <5>1. NewTasks(k) \in SUBSET Tasks
          BY <4>6, NewTasksType DEF CreateTasks
        <5>2. QED
          BY <2>2, <2>5, <4>6, <5>1 DEF CreateTasks
      <4>7. CASE Enqueue(k)
        <5>1. PICK t \in call[k].todo : EnqueueNext(k, call[k].todo \ {t})
          BY <4>7 DEF Enqueue
        <5>2. call[k].todo \ {t} \in SUBSET Tasks
          BY <1>1 DEF CallStates
        <5>3. QED
          BY <2>5, <5>1, <5>2
      <4>8. QED
        BY <1>3, <2>8, <4>1, <4>2, <4>3, <4>4, <4>5, <4>6, <4>7 DEF CallStep
    <3>3. QED
      BY <1>2, <2>1, <3>1, <3>2
  <2>9. QED
    BY <2>6, <2>7, <2>8
<1>4. ASSUME NEW k \in Calls, Reject(k)
      PROVE  NothingAnnounces
  <2>1. "failed" \in CallSteps
    BY DEF CallSteps, Answers
  <2>2. QED
    BY <1>1, <1>2, <1>4, <2>1, GiveUpCall DEF Reject
<1>5. ASSUME NEW k \in Calls, NEW p \in Posts, Receive(k, p)
      PROVE  NothingAnnounces
  BY <1>1, <1>2, <1>5, ReceivedCall DEF Receive
<1>6. CASE AdminStep
  BY <1>6 DEF AdminStep, CreateTarget, UpdateTarget, RemoveTarget,
              CreateChannel, UpdateChannel, RemoveChannel
<1>7. CASE IngestCrash
  BY <1>7, IdleType DEF IngestCrash
<1>8. CASE UNCHANGED ingestVars
  BY <1>8 DEF ingestVars
<1>9. QED
  BY <1>3, <1>4, <1>5, <1>6, <1>7, <1>8 DEF IngestNext, IngestStep

LEMMA AnnouncedOnceStep ==
  ASSUME IngestTypeOK, TouchIsOwn, AnnouncedOnce, [IngestNext]_ingestVars
  PROVE  TouchIsOwn' /\ AnnouncedOnce'
<1>1. \A p \in Posts, i \in TargetIds : announced[p][i] \in Nat
  BY DEF IngestTypeOK
<1>2. \A k \in Calls : call[k].pc = "touch" =>
        call[k].post \in Posts /\ call[k].target \in TargetIds
  BY DEF IngestTypeOK, AwaitSteps
<1>3. SavedStays
  BY SavedStep
<1>4. CASE NothingAnnounces
  <2>1. TouchIsOwn'
    BY <1>2, <1>3, <1>4 DEF TouchIsOwn, NothingAnnounces, SavedStays
  <2>2. AnnouncedOnce'
    BY <1>3, <1>4 DEF AnnouncedOnce, NothingAnnounces, SavedStays, SavedUnder
  <2>3. QED
    BY <2>1, <2>2
<1>5. ASSUME NEW k \in Calls, Others(k), Inserts(k)
      PROVE  TouchIsOwn' /\ AnnouncedOnce'
  <2>1. PICK p \in Posts, i \in TargetIds :
          p = call[k].post /\ i = call[k].target
    BY <1>5 DEF Inserts
  <2>2. message[p] = NoTarget /\ target[i].row = "live" /\ message'[p] = i
    BY <1>5, <2>1 DEF Inserts, TargetLive, IngestTypeOK
  <2>3. ~SavedUnder(p, i)
    BY <2>2, IngestAssumption DEF SavedUnder
  <2>4. announced[p][i] = 0
    BY <1>1, <2>3 DEF AnnouncedOnce, SavedUnder
  <2>5. \A l \in Calls : call[l].pc = "touch" =>
          ~(call[l].post = p /\ call[l].target = i)
    BY <2>3 DEF TouchIsOwn
  <2>6. announced' = announced /\ target' = target
    BY <1>5 DEF Inserts
  <2>7. TouchIsOwn'
    BY <1>2, <1>3, <1>5, <2>1, <2>2, <2>4, <2>5, <2>6
       DEF TouchIsOwn, SavedStays, SavedUnder, Others, Inserts
  <2>8. AnnouncedOnce'
    BY <1>3, <2>6 DEF AnnouncedOnce, SavedStays, SavedUnder
  <2>9. QED
    BY <2>7, <2>8
<1>6. ASSUME NEW k \in Calls, Others(k), Announces(k)
      PROVE  TouchIsOwn' /\ AnnouncedOnce'
  <2>1. PICK p \in Posts, i \in TargetIds :
          p = call[k].post /\ i = call[k].target
    BY <1>6 DEF Announces
  <2>2. announced[p][i] = 0 /\ SavedUnder(p, i)
    BY <1>6, <2>1 DEF Announces, TouchIsOwn
  <2>3. /\ announced'[p][i] = 1
        /\ \A q \in Posts, j \in TargetIds :
             q # p \/ j # i => announced'[q][j] = announced[q][j]
    BY <1>6, <2>1, <2>2 DEF Announces, IngestTypeOK
  <2>4. \A l \in Calls : call'[l].pc = "touch" =>
          /\ call'[l] = call[l]
          /\ call[l].post # p \/ call[l].target # i
    BY <1>6, <2>1 DEF Announces, Others, TouchIsOwn
  <2>5. TouchIsOwn'
    BY <1>2, <1>3, <2>3, <2>4 DEF TouchIsOwn, SavedStays
  <2>6. AnnouncedOnce'
    BY <1>3, <2>2, <2>3 DEF AnnouncedOnce, SavedStays, SavedUnder
  <2>7. QED
    BY <2>5, <2>6
<1>7. QED
  BY <1>4, <1>5, <1>6, AnnounceSteps

----------------------------------------------------------------------------
(***************************************************************************)
(* A message reaches every channel.                                        *)
(***************************************************************************)
TaskOf(p, i, c) == [post |-> p, target |-> i, channel |-> c]

\* What a step leaves of a message that was saved: no channel joins the ones
\* it must reach, and its tasks for them stay.
LEMMA RoutesHold ==
  ASSUME IngestTypeOK, [IngestNext]_ingestVars,
         NEW p \in Posts, NEW i \in TargetIds, SavedUnder(p, i), message'[p] = i
  PROVE  /\ message[p] = i
         /\ since'[p] \subseteq since[p]
         /\ \A c \in since'[p] :
              rows[TaskOf(p, i, c)] = "live" => rows'[TaskOf(p, i, c)] = "live"
<1> USE DEF SavedUnder, IngestTypeOK
<1>1. \A c \in Channels : TaskOf(p, i, c) \in Tasks
  BY IngestAssumption DEF TaskOf
<1>2. CASE TablesStand
  BY <1>2 DEF TablesStand
<1>3. ASSUME NEW k \in Calls, Inserts(k)
      PROVE  /\ message[p] = i /\ since'[p] = since[p] /\ rows' = rows
  BY <1>3, IngestAssumption DEF Inserts, TargetLive
<1>4. ASSUME NEW k \in Calls, Creates(k)
      PROVE  /\ message[p] = i /\ since'[p] = since[p]
             /\ \A t \in Tasks : rows[t] = "live" => rows'[t] = "live"
  BY <1>4 DEF Creates, WithRows
<1>5. ASSUME NEW j \in TargetIds, AddsTarget(j)
      PROVE  message[p] = i /\ since'[p] = since[p] /\ rows' = rows
  BY <1>5 DEF AddsTarget
<1>6. ASSUME NEW j \in TargetIds, RemoveTarget(j)
      PROVE  /\ message[p] = i
             /\ since'[p] \subseteq since[p]
             /\ \A c \in Channels :
                  rows[TaskOf(p, i, c)] = "live" => rows'[TaskOf(p, i, c)] = "live"
  <2>1. message[p] = i /\ i # j
    BY <1>6, IngestAssumption DEF RemoveTarget
  <2>2. since'[p] = since[p]
    BY <1>6, <2>1 DEF RemoveTarget
  <2>3. \A c \in Channels : TaskOf(p, i, c).target # j
    BY <2>1 DEF TaskOf
  <2>4. \A c \in Channels : rows'[TaskOf(p, i, c)] = rows[TaskOf(p, i, c)]
    BY <1>1, <1>6, <2>3 DEF RemoveTarget, WithoutRows
  <2>5. QED
    BY <2>1, <2>2, <2>4
<1>7. ASSUME NEW d \in Channels, SetsChannel(d)
      PROVE  message[p] = i /\ since'[p] \subseteq since[p] /\ rows' = rows
  BY <1>7 DEF SetsChannel
<1>8. ASSUME NEW d \in Channels, RemoveChannel(d)
      PROVE  /\ message[p] = i
             /\ since'[p] \subseteq since[p]
             /\ \A c \in since'[p] :
                  rows[TaskOf(p, i, c)] = "live" => rows'[TaskOf(p, i, c)] = "live"
  <2>1. message[p] = i /\ since'[p] = since[p] \ {d}
    BY <1>8 DEF RemoveChannel
  <2>2. \A c \in since'[p] : TaskOf(p, i, c).channel # d
    BY <2>1 DEF TaskOf
  <2>3. \A c \in since'[p] : rows'[TaskOf(p, i, c)] = rows[TaskOf(p, i, c)]
    BY <1>1, <1>8, <2>1, <2>2 DEF RemoveChannel, WithoutRows
  <2>4. QED
    BY <2>1, <2>3
<1>9. since'[p] \subseteq since[p] => since'[p] \subseteq Channels
  OBVIOUS
<1>10. QED
  BY <1>1, <1>2, <1>3, <1>4, <1>5, <1>6, <1>7, <1>8, <1>9, TableSteps

LEMMA SinceEnabledStep ==
  ASSUME IngestTypeOK, \A p \in Posts : since[p] \subseteq Enabled,
         [IngestNext]_ingestVars
  PROVE  \A p \in Posts : since'[p] \subseteq Enabled'
<1> USE DEF Enabled, IngestTypeOK
<1>1. CASE TablesStand
  BY <1>1 DEF TablesStand
<1>2. ASSUME NEW k \in Calls, Inserts(k) \/ Creates(k)
      PROVE  \A p \in Posts : since'[p] \subseteq Enabled'
  BY <1>2 DEF Inserts, Creates
<1>3. ASSUME NEW i \in TargetIds, AddsTarget(i) \/ RemoveTarget(i)
      PROVE  \A p \in Posts : since'[p] \subseteq Enabled'
  BY <1>3 DEF AddsTarget, RemoveTarget
<1>4. ASSUME NEW c \in Channels, SetsChannel(c)
      PROVE  \A p \in Posts : since'[p] \subseteq Enabled'
  BY <1>4 DEF SetsChannel
<1>5. ASSUME NEW c \in Channels, RemoveChannel(c)
      PROVE  \A p \in Posts : since'[p] \subseteq Enabled'
  BY <1>5 DEF RemoveChannel
<1>6. QED
  BY <1>1, <1>2, <1>3, <1>4, <1>5, TableSteps

\* The call that takes a step routes well after it.
LEMMA StepRoutesWell ==
  ASSUME IngestTypeOK, MessagesHaveTargets, DeletedForAReason, TouchIsOwn,
         \A p \in Posts : since[p] \subseteq Enabled,
         NEW k \in Calls, RoutesWell(k), CallStep(k), SavedStays
  PROVE  RoutesWell(k)'
<1> USE DEF CallSteps, AwaitSteps, Answers
<1>1. call \in [Calls -> CallStates]
  BY DEF IngestTypeOK
<1>2. ASSUME call'[k].pc \notin RoutingSteps
      PROVE  RoutesWell(k)'
  BY <1>2 DEF RoutesWell, RoutingSteps
<1>3. ASSUME NEW answer \in Answers \ {"ok"}, GiveUp(k, answer)
      PROVE  RoutesWell(k)'
  BY <1>1, <1>2, <1>3, GiveUpCall DEF RoutingSteps
\* A call that begins to route has nothing to show yet.
<1>4. ASSUME call'[k].pc = "channels",
             call'[k].post \in Posts, call'[k].target \in TargetIds,
             SavedUnder(call'[k].post, call'[k].target)
      PROVE  RoutesWell(k)'
  BY <1>4 DEF RoutesWell, SavedStays
<1>5. CASE FindExisting(k) \/ Refind(k)
  <2>1. call[k].post \in Posts
    BY <1>5 DEF FindExisting, Refind, IngestTypeOK
  <2>2. CASE message[call[k].post] = NoTarget
    <3>1. GoTo(k, "insert") \/ GiveUp(k, "failed")
      BY <1>5, <2>2 DEF FindExisting, Refind
    <3>2. QED
      BY <1>1, <1>2, <1>3, <3>1, GoToCall DEF RoutingSteps
  <2>3. CASE message[call[k].post] # NoTarget
    <3>1. PICK i \in TargetIds : i = message[call[k].post]
      BY <2>1, <2>3 DEF IngestTypeOK
    <3>2. GoToWith(k, "channels", i)
      BY <1>5, <2>3, <3>1 DEF FindExisting, Refind
    <3>3. /\ call'[k].pc = "channels" /\ call'[k].post = call[k].post
          /\ call'[k].target = i
      BY <1>1, <3>2, GoToWithCall
    <3>4. SavedUnder(call'[k].post, call'[k].target)
      BY <3>1, <3>3 DEF SavedUnder
    <3>5. QED
      BY <1>4, <2>1, <3>3, <3>4
  <2>4. QED
    BY <2>2, <2>3
<1>6. CASE Touch(k)
  <2>1. CASE GiveUp(k, "failed")
    BY <1>3, <2>1
  <2>2. CASE GoTo(k, "channels")
    <3>1. /\ call[k].post \in Posts /\ call[k].target \in TargetIds
          /\ SavedUnder(call[k].post, call[k].target)
      BY <1>6 DEF Touch, IngestTypeOK, TouchIsOwn
    <3>2. /\ call'[k].pc = "channels" /\ call'[k].post = call[k].post
          /\ call'[k].target = call[k].target
      BY <1>1, <2>2, GoToCall
    <3>3. QED
      BY <1>4, <3>1, <3>2
  <2>3. QED
    BY <1>6, <2>1, <2>2 DEF Touch
<1>7. CASE ListChannels(k)
  <2>1. /\ call[k].post \in Posts /\ call[k].target \in TargetIds
        /\ SavedUnder(call[k].post, call[k].target)
        /\ UNCHANGED <<message, since, target, rows>>
    BY <1>7 DEF ListChannels, RoutesWell, RoutingSteps, tableVars
  <2>2. SavedUnder(call[k].post, call[k].target)'
        = (message'[call'[k].post] = call'[k].target \/ target'[call'[k].target].row = "deleted")
    BY DEF SavedUnder
  <2>3. CASE Enabled = {}
    <3>1. EnqueueNext(k, {})
      BY <1>7, <2>3 DEF ListChannels, EnqueueNext
    <3>2. /\ call'[k].pc = "ok" /\ call'[k].post = call[k].post
          /\ call'[k].target = call[k].target
      BY <1>1, <3>1, EnqueueNextCall
    <3>3. since'[call'[k].post] = {}
      BY <2>1, <2>3, <3>2
    <3>4. QED
      BY <2>1, <3>2, <3>3 DEF RoutesWell, SavedUnder
  <2>4. CASE Enabled # {}
    <3>1. Lists(k, Enabled) /\ Enabled \in SUBSET Channels
      BY <1>7, <2>4 DEF ListChannels, Lists, Enabled
    <3>2. /\ call'[k].pc = "create" /\ call'[k].post = call[k].post
          /\ call'[k].target = call[k].target /\ call'[k].chans = Enabled
      BY <1>1, <3>1, ListedCall
    <3>3. since'[call'[k].post] \subseteq call'[k].chans
      BY <2>1, <3>2
    <3>4. QED
      BY <2>1, <3>2, <3>3 DEF RoutesWell, SavedUnder
  <2>5. QED
    BY <2>3, <2>4
<1>8. CASE CreateTasks(k)
  <2>1. CASE GiveUp(k, "failed")
    BY <1>3, <2>1
  <2>2. CASE ~GiveUp(k, "failed")
    <3>1. Creates(k)
      BY <1>8, <2>2 DEF CreateTasks, Creates, tableVars
    <3>2. /\ call[k].post \in Posts /\ call[k].target \in TargetIds
          /\ SavedUnder(call[k].post, call[k].target)
          /\ since[call[k].post] \subseteq call[k].chans
          /\ UNCHANGED <<message, since, target>>
      BY <3>1 DEF Creates, RoutesWell, RoutingSteps
    <3>3. NewTasks(k) \in SUBSET Tasks
      BY <3>1, NewTasksType DEF Creates
    <3>4. /\ call'[k].pc \in {"enqueue", "ok"} /\ call'[k].post = call[k].post
          /\ call'[k].target = call[k].target
      BY <1>1, <3>1, <3>3, EnqueueNextCall DEF Creates
    <3>5. ASSUME NEW c \in since[call[k].post]
          PROVE  rows'[TaskFor(k, c)] = "live"
      <4>1. TaskFor(k, c) \in Tasks /\ c \in call[k].chans
        BY <3>1, <3>2, <3>5, NewTasksType DEF Creates, IngestTypeOK
      <4>2. rows[TaskFor(k, c)] = "live" \/ TaskFor(k, c) \in NewTasks(k)
        BY <4>1 DEF NewTasks
      <4>3. QED
        BY <3>1, <4>1, <4>2 DEF Creates, WithRows
    <3>6. \A c \in Channels : TaskFor(k, c)' = TaskFor(k, c)
      BY <3>4 DEF TaskFor
    <3>7. \A c \in since'[call'[k].post] : rows'[TaskFor(k, c)'] = "live"
      BY <3>2, <3>4, <3>5, <3>6 DEF IngestTypeOK
    <3>8. QED
      BY <3>2, <3>4, <3>7 DEF RoutesWell, SavedUnder
  <2>3. QED
    BY <2>1, <2>2
<1>9. CASE Enqueue(k)
  <2>1. PICK t \in call[k].todo : EnqueueNext(k, call[k].todo \ {t})
    BY <1>9 DEF Enqueue
  <2>2. call[k].todo \ {t} \in SUBSET Tasks
    BY <1>1 DEF CallStates
  <2>3. /\ call'[k].pc \in {"enqueue", "ok"} /\ call'[k].post = call[k].post
        /\ call'[k].target = call[k].target
    BY <1>1, <2>1, <2>2, EnqueueNextCall
  <2>4. call[k].pc = "enqueue" /\ UNCHANGED <<message, since, target, rows>>
    BY <1>9 DEF Enqueue, tableVars
  <2>5. QED
    BY <2>3, <2>4 DEF RoutesWell, RoutingSteps, SavedUnder, MessageExists, TaskFor
<1>10. CASE Answer(k)
  BY <1>1, <1>2, <1>10, IdleType DEF Answer, RoutingSteps
<1>11. CASE Lookup(k)
  <2>1. ASSUME NEW i \in Monitored(call[k].post), Finds(k, TypeOf[i])
        PROVE  RoutesWell(k)'
    BY <1>1, <1>2, <2>1, IngestAssumption, FoundCall DEF Monitored, RoutingSteps
  <2>2. QED
    BY <1>3, <1>11, <2>1 DEF Lookup, Finds
<1>12. CASE Resolve(k)
  <2>1. ASSUME NEW i \in Resolved(k), GoToWith(k, "find", i)
        PROVE  RoutesWell(k)'
    BY <1>1, <1>2, <2>1, GoToWithCall DEF Resolved, RoutingSteps
  <2>2. QED
    BY <1>3, <1>12, <2>1 DEF Resolve
<1>13. CASE Insert(k)
  <2>1. ASSUME NEW next \in {"refind", "touch"}, GoTo(k, next)
        PROVE  RoutesWell(k)'
    BY <1>1, <1>2, <2>1, GoToCall DEF RoutingSteps
  <2>2. QED
    BY <1>3, <1>13, <2>1 DEF Insert
<1>14. QED
  BY <1>5, <1>6, <1>7, <1>8, <1>9, <1>10, <1>11, <1>12, <1>13 DEF CallStep

LEMMA RoutesAllStep ==
  ASSUME IngestTypeOK, MessagesHaveTargets, DeletedForAReason, TouchIsOwn,
         RoutesAll, [IngestNext]_ingestVars
  PROVE  RoutesAll'
<1>1. \A p \in Posts : since'[p] \subseteq Enabled'
  BY SinceEnabledStep DEF RoutesAll
<1>2. ASSUME NEW l \in Calls, call'[l] = call[l]
      PROVE  RoutesWell(l)'
  <2>1. CASE call[l].pc \notin RoutingSteps
    BY <1>2, <2>1 DEF RoutesWell, RoutingSteps
  <2>2. CASE call[l].pc \in RoutingSteps
    <3>1. PICK p \in Posts, i \in TargetIds :
            p = call[l].post /\ i = call[l].target /\ SavedUnder(p, i)
      BY <2>2 DEF RoutesAll, RoutesWell
    <3>2. SavedUnder(p, i)'
      BY <3>1, SavedStep DEF SavedStays
    <3>3. ASSUME message'[p] = i
          PROVE  /\ message[p] = i
                 /\ since'[p] \subseteq since[p]
                 /\ \A c \in since'[p] :
                      rows[TaskOf(p, i, c)] = "live" => rows'[TaskOf(p, i, c)] = "live"
      BY <3>1, <3>3, RoutesHold
    <3>4. /\ MessageExists(l) <=> message[p] = i
          /\ MessageExists(l)' <=> message'[p] = i
      BY <1>2, <3>1, IngestAssumption DEF MessageExists
    <3>5. \A c : TaskFor(l, c) = TaskOf(p, i, c) /\ TaskFor(l, c)' = TaskOf(p, i, c)
      BY <1>2, <3>1 DEF TaskFor, TaskOf
    <3>6. /\ call'[l].pc = "create" /\ message'[p] = i
               => since'[p] \subseteq call'[l].chans
          /\ call'[l].pc \in {"enqueue", "ok"} /\ message'[p] = i
               => \A c \in since'[p] : rows'[TaskOf(p, i, c)] = "live"
      BY <1>2, <3>1, <3>3, <3>4, <3>5 DEF RoutesAll, RoutesWell
    <3>7. QED
      BY <1>2, <3>1, <3>2, <3>4, <3>5, <3>6 DEF RoutesWell
  <2>3. QED
    BY <2>1, <2>2
<1>3. ASSUME NEW k \in Calls, CallStep(k)
      PROVE  \A l \in Calls : RoutesWell(l)'
  <2>1. RoutesWell(k)'
    BY <1>3, SavedStep, StepRoutesWell DEF RoutesAll
  <2>2. \A l \in Calls \ {k} : call'[l] = call[l]
    BY <1>3, CallsStep DEF Others
  <2>3. QED
    BY <1>2, <2>1, <2>2
<1>4. ASSUME NEW k \in Calls, Others(k), call'[k].pc \notin RoutingSteps
      PROVE  \A l \in Calls : RoutesWell(l)'
  <2>1. RoutesWell(k)'
    BY <1>4 DEF RoutesWell, RoutingSteps
  <2>2. QED
    BY <1>2, <1>4, <2>1 DEF Others
<1>5. ASSUME NEW k \in Calls, Reject(k) \/ \E p \in Posts : Receive(k, p)
      PROVE  \A l \in Calls : RoutesWell(l)'
  <2>1. call \in [Calls -> CallStates] /\ "failed" \in CallSteps
    BY DEF IngestTypeOK, CallSteps, Answers
  <2>2. CASE Reject(k)
    BY <1>4, <2>1, <2>2, GiveUpCall DEF Reject, RoutingSteps
  <2>3. ASSUME NEW p \in Posts, Receive(k, p)
        PROVE  \A l \in Calls : RoutesWell(l)'
    BY <1>4, <2>1, <2>3, ReceivedCall DEF RoutingSteps
  <2>4. QED
    BY <1>5, <2>2, <2>3
<1>6. ASSUME IngestCrash
      PROVE  \A l \in Calls : RoutesWell(l)'
  <2>1. \A l \in Calls : call'[l].pc = "idle"
    BY <1>6, IdleType DEF IngestCrash
  <2>2. QED
    BY <2>1 DEF RoutesWell, RoutingSteps
<1>7. ASSUME AdminStep \/ UNCHANGED ingestVars
      PROVE  \A l \in Calls : RoutesWell(l)'
  <2>1. call' = call
    BY <1>7 DEF AdminStep, CreateTarget, UpdateTarget, RemoveTarget,
                CreateChannel, UpdateChannel, RemoveChannel, ingestVars
  <2>2. QED
    BY <1>2, <2>1
<1>8. \A l \in Calls : RoutesWell(l)'
  BY <1>3, <1>5, <1>6, <1>7 DEF IngestNext, IngestStep
<1>9. QED
  BY <1>1, <1>8 DEF RoutesAll

----------------------------------------------------------------------------
(***************************************************************************)
(* The theorems.                                                           *)
(***************************************************************************)
LEMMA IngestInvInit == IngestInit => IngestInv
<1> SUFFICES ASSUME IngestInit
             PROVE  IngestInv
  OBVIOUS
<1> USE DEF IngestInit, NoRows, NothingAdded
<1>1. IngestTypeOK
  BY IdleType DEF IngestTypeOK, RowsTypeOK, AddedTypeOK, RowStates,
         TargetRows, NoTargetRow, ChannelStates, AwaitSteps
<1>2. MessagesHaveTargets /\ DeletedForAReason
  BY DEF MessagesHaveTargets, DeletedForAReason
<1>3. TodoIsOwn /\ OneJobPerTask
  BY IdleType DEF TodoIsOwn, OneJobPerTask
<1>4. TouchIsOwn /\ AnnouncedOnce
  BY IdleType DEF TouchIsOwn, AnnouncedOnce
<1>5. RoutesAll
  BY IdleType DEF RoutesAll, RoutesWell, RoutingSteps
<1>6. QED
  BY <1>1, <1>2, <1>3, <1>4, <1>5 DEF IngestInv

\* IngestInv is an inductive invariant of Ingest.
THEOREM IngestInvariant == IngestSpec => []IngestInv
<1>1. IngestInv /\ [IngestNext]_ingestVars => IngestInv'
  BY IngestTypeStep, MessagesHaveTargetsStep, DeletedForAReasonStep,
     OneJobStep, AnnouncedOnceStep, RoutesAllStep DEF IngestInv
<1>2. QED
  BY <1>1, IngestInvInit, PTL DEF IngestSpec

\* No task is enqueued twice, or before its row was committed, however many
\* duplicates of a message are ingested at once and whatever fails.
THEOREM TasksAreEnqueuedOnce == IngestSpec => []OneJobPerTask
<1>1. IngestInv => OneJobPerTask
  BY DEF IngestInv
<1>2. QED
  BY <1>1, IngestInvariant, PTL

\* "message.created" is emitted at most once per saved message.
THEOREM MessagesAreAnnouncedOnce == IngestSpec => []AnnouncedOnce
<1>1. IngestInv => AnnouncedOnce
  BY DEF IngestInv
<1>2. QED
  BY <1>1, IngestInvariant, PTL

\* A call that answers that it ingested a message leaves it with a task for
\* every channel that was enabled all the time, be it the first or a duplicate.
THEOREM IngestedIsRouted == IngestSpec => []IngestedMeansRouted
<1>1. IngestInv => IngestedMeansRouted
  BY DEF IngestInv, RoutesAll, RoutesWell, IngestedMeansRouted
<1>2. QED
  BY <1>1, IngestInvariant, PTL

----------------------------------------------------------------------------
(***************************************************************************)
(* When nothing crashes or rejects: a call that has inserted tasks holds   *)
(* each of them until it has enqueued it.                                  *)
(***************************************************************************)
KeptInv ==
  /\ Faults = {}
  /\ \A k \in Calls : call[k].todo # {} => call[k].pc = "enqueue"
  /\ PersistedMeansEnqueued

LEMMA KeptStep ==
  ASSUME IngestInv, KeptInv, [IngestNext]_ingestVars
  PROVE  KeptInv'
<1>1. /\ IngestTypeOK
      /\ call \in [Calls -> CallStates] /\ added \in [Tasks -> Nat]
      /\ \A k \in Calls : call[k].todo \subseteq Tasks
  BY DEF IngestInv, IngestTypeOK, AddedTypeOK, CallStates
<1>2. ASSUME added' = added,
             \A t \in Tasks : rows'[t] = "live" => rows[t] = "live",
             \A k \in Calls :
               \/ call'[k] = call[k]
               \/ call[k].todo = {} /\ call'[k].todo = {}
      PROVE  KeptInv'
  BY <1>2 DEF KeptInv, PersistedMeansEnqueued
<1>3. ASSUME NEW k \in Calls, CallStep(k)
      PROVE  KeptInv'
  <2>1. Others(k)
    BY <1>1, <1>3, CallsStep
  <2>2. CASE Enqueue(k)
    <3>1. PICK t \in call[k].todo :
            /\ added' = [added EXCEPT ![t] = @ + 1]
            /\ EnqueueNext(k, call[k].todo \ {t})
            /\ rows' = rows
      BY <2>2 DEF Enqueue
    <3>2. call[k].todo \ {t} \in SUBSET Tasks /\ t \in Tasks
      BY <1>1
    <3>3. /\ call'[k].todo = call[k].todo \ {t}
          /\ call'[k].pc = IF call[k].todo \ {t} = {} THEN "ok" ELSE "enqueue"
      BY <1>1, <3>1, <3>2, EnqueueNextCall
    <3>4. added'[t] = 1 /\ \A u \in Tasks \ {t} : added'[u] = added[u]
      <4>1. added[t] = 0
        BY DEF IngestInv, TodoIsOwn
      <4>2. QED
        BY <1>1, <3>1, <3>2, <4>1
    <3>5. \A l \in Calls : call'[l].todo # {} => call'[l].pc = "enqueue"
      BY <2>1, <3>3 DEF Others, KeptInv
    <3>6. ASSUME NEW u \in Tasks, rows'[u] = "live"
          PROVE  \/ added'[u] = 1
                 \/ \E l \in Calls : call'[l].pc = "enqueue" /\ u \in call'[l].todo
      <4>1. CASE u = t
        BY <3>4, <4>1
      <4>2. CASE u # t /\ added[u] = 1
        BY <3>4, <4>2
      <4>3. ASSUME u # t, NEW l \in Calls, call[l].pc = "enqueue", u \in call[l].todo
            PROVE  call'[l].pc = "enqueue" /\ u \in call'[l].todo
        <5>1. CASE l = k
          BY <3>3, <4>3, <5>1
        <5>2. CASE l # k
          BY <2>1, <4>3, <5>2 DEF Others
        <5>3. QED
          BY <5>1, <5>2
      <4>4. QED
        BY <3>1, <3>6, <4>1, <4>2, <4>3 DEF KeptInv, PersistedMeansEnqueued
    <3>7. QED
      BY <3>5, <3>6 DEF KeptInv, PersistedMeansEnqueued
  <2>3. Enqueue(k) \/ call[k].todo = {}
    <3>1. CASE ~Enqueue(k)
      <4>1. call[k].pc # "enqueue"
        BY <1>3, <3>1
           DEF CallStep, Lookup, Resolve, FindExisting, Insert, Refind, Touch,
               ListChannels, CreateTasks, Answer, Answers
      <4>2. QED
        BY <4>1 DEF KeptInv
    <3>2. QED
      BY <3>1
  <2>4. CASE CreateTasks(k) /\ ~Enqueue(k)
    <3>1. CASE Creates(k)
      <4>1. NewTasks(k) \in SUBSET Tasks
        BY <1>1, <3>1, NewTasksType DEF Creates
      <4>2. /\ call'[k].todo = NewTasks(k)
            /\ call'[k].pc = IF NewTasks(k) = {} THEN "ok" ELSE "enqueue"
        BY <1>1, <3>1, <4>1, EnqueueNextCall DEF Creates
      <4>3. /\ added' = added
            /\ \A t \in Tasks : rows'[t] = "live" => rows[t] = "live" \/ t \in NewTasks(k)
        BY <3>1 DEF Creates, WithRows
      <4>4. \A l \in Calls : call'[l].todo # {} => call'[l].pc = "enqueue"
        BY <2>1, <4>2 DEF Others, KeptInv
      <4>5. ASSUME NEW t \in Tasks, rows'[t] = "live"
            PROVE  \/ added'[t] = 1
                   \/ \E l \in Calls : call'[l].pc = "enqueue" /\ t \in call'[l].todo
        <5>1. CASE t \in NewTasks(k)
          BY <4>2, <5>1
        <5>2. CASE rows[t] = "live" /\ added[t] = 1
          BY <4>3, <5>2
        <5>3. ASSUME NEW l \in Calls, call[l].pc = "enqueue", t \in call[l].todo
              PROVE  call'[l].pc = "enqueue" /\ t \in call'[l].todo
          BY <2>1, <2>3, <2>4, <5>3 DEF Others
        <5>4. QED
          BY <4>3, <4>5, <5>1, <5>2, <5>3 DEF KeptInv, PersistedMeansEnqueued
      <4>6. QED
        BY <4>4, <4>5 DEF KeptInv, PersistedMeansEnqueued
    <3>2. CASE ~Creates(k)
      <4>1. GiveUp(k, "failed") /\ UNCHANGED <<rows, added>>
        BY <2>4, <3>2 DEF CreateTasks, Creates, tableVars
      <4>2. call'[k].todo = {}
        BY <1>1, <4>1, GiveUpCall DEF CallSteps, Answers
      <4>3. QED
        BY <1>2, <2>1, <2>3, <2>4, <4>1, <4>2 DEF Others
    <3>3. QED
      BY <3>1, <3>2
  <2>5. CASE ~CreateTasks(k) /\ ~Enqueue(k)
    <3>1. call'[k].todo = {}
      BY <1>1, <1>3, <2>3, <2>5, TodoShrinks
    <3>2. UNCHANGED <<rows, added>>
      BY <1>3, <2>5
         DEF CallStep, Lookup, Resolve, FindExisting, Insert, Refind, Touch,
             ListChannels, Answer
    <3>3. QED
      BY <1>2, <2>1, <2>3, <2>5, <3>1, <3>2 DEF Others
  <2>6. QED
    BY <2>2, <2>4, <2>5
<1>4. ASSUME NEW k \in Calls, NEW p \in Posts, Receive(k, p)
      PROVE  KeptInv'
  <2>1. Others(k) /\ call'[k].todo = {} /\ UNCHANGED <<rows, added>>
    BY <1>1, <1>4, ReceivedCall DEF Receive
  <2>2. call[k].todo = {}
    BY <1>4 DEF Receive, KeptInv
  <2>3. QED
    BY <1>2, <2>1, <2>2 DEF Others
<1>5. CASE AdminStep
  <2>1. UNCHANGED <<added, call>>
    BY <1>5 DEF AdminStep, CreateTarget, UpdateTarget, RemoveTarget,
                CreateChannel, UpdateChannel, RemoveChannel
  <2>2. \A t \in Tasks : rows'[t] = "live" => rows[t] = "live"
    BY <1>5 DEF AdminStep, CreateTarget, UpdateTarget, RemoveTarget,
                CreateChannel, UpdateChannel, RemoveChannel, WithoutRows
  <2>3. QED
    BY <1>2, <2>1, <2>2
<1>6. ~IngestCrash /\ \A k \in Calls : ~Reject(k)
  BY DEF KeptInv, IngestCrash, Reject
<1>7. CASE UNCHANGED ingestVars
  BY <1>2, <1>7 DEF ingestVars
<1>8. QED
  BY <1>3, <1>4, <1>5, <1>6, <1>7 DEF IngestNext, IngestStep

\* Without failures of the infrastructure every task row was enqueued, or the
\* call that inserted it is about to: however many duplicates are under way
\* and whatever the administrator deletes in between.
THEOREM CleanTasksAreEnqueued ==
  Faults = {} /\ IngestSpec => []PersistedMeansEnqueued
<1>1. Faults = {} /\ IngestInit => KeptInv
  BY IdleType DEF IngestInit, KeptInv, PersistedMeansEnqueued, NoRows
<1>2. IngestInv /\ KeptInv /\ [IngestNext]_ingestVars => KeptInv'
  BY KeptStep
<1>3. KeptInv => PersistedMeansEnqueued
  BY DEF KeptInv
<1>4. QED
  BY <1>1, <1>2, <1>3, IngestInvariant, PTL DEF IngestSpec
============================================================================
