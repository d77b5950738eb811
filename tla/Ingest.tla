------------------------------- MODULE Ingest -------------------------------
(***************************************************************************)
(* The producer half of the pipeline: POST /internal/telegram/ingest       *)
(* (TelegramIngestController.ingest), MessageService.create and            *)
(* routeToEnabledChannels, run by several HTTP calls at once, against the  *)
(* tables MonitorTarget, Message, NotificationChannel, NotificationTask    *)
(* and the administrator's edits of targets and channels.                  *)
(*                                                                         *)
(* A call is one action per awaited database or queue operation: other     *)
(* calls, administrators and failures come between any two of them.        *)
(*                                                                         *)
(* Row identifiers are members of TargetIds and Channels and are never     *)
(* reused.  A Message row dies only with its target, so the pair of its    *)
(* external id and its targetId identifies it.                             *)
(***************************************************************************)
EXTENDS NotificationTasks

CONSTANTS
  Posts,      \* Message.externalId: one per Telegram message
  Chats,      \* MonitorTarget.externalId: Telegram chat ids
  TargetIds,  \* MonitorTarget.id
  TypeOf,     \* TypeOf[i]: the type target i is created with
  ChatOf,     \* ChatOf[p]: the chat that post p was written in
  Channels,   \* NotificationChannel.id
  Calls,      \* the ingest requests that may run at once
  NoPost, NoTarget, NoChat

Types == {"TG_CHANNEL", "TG_GROUP"}

ASSUME IngestAssumption ==
  /\ TypeOf \in [TargetIds -> Types]
  /\ ChatOf \in [Posts -> Chats]
  /\ NoPost \notin Posts
  /\ NoTarget \notin TargetIds
  /\ NoChat \notin Chats
  /\ Tasks = [post : Posts, target : TargetIds, channel : Channels]

VARIABLES
  target,     \* target[i]:  the MonitorTarget row i
  channel,    \* channel[c]: the NotificationChannel row c
  message,    \* message[p]: the targetId of the Message row of p, or NoTarget
  call,       \* call[k]:    the control state and locals of ingest request k
  since,      \* history: the channels enabled ever since message[p] was saved
  announced   \* history: "message.created" events emitted, by post and target

tableVars == <<target, channel, message>>
ingestVars == <<rows, added, target, channel, message, call, since, announced>>

----------------------------------------------------------------------------
(***************************************************************************)
(* Rows and calls.                                                         *)
(***************************************************************************)
TargetRows ==
  [row : RowStates, chat : Chats \cup {NoChat}, enabled : BOOLEAN,
   last : Posts \cup {NoPost}]

NoTargetRow ==
  [row |-> "none", chat |-> NoChat, enabled |-> FALSE, last |-> NoPost]

ChannelStates == {"none", "enabled", "disabled", "deleted"}

\* The steps of a call, named after what it awaits next.
AwaitSteps == {"lookup", "resolve", "find", "insert", "refind", "touch",
               "channels", "create", "enqueue"}
Answers == {"ok", "ignored", "failed"}
CallSteps == {"idle"} \cup AwaitSteps \cup Answers

CallStates ==
  [pc : CallSteps, post : Posts \cup {NoPost}, type : Types,
   target : TargetIds \cup {NoTarget}, chans : SUBSET Channels,
   todo : SUBSET Tasks]

Idle == [pc |-> "idle", post |-> NoPost, type |-> "TG_GROUP",
         target |-> NoTarget, chans |-> {}, todo |-> {}]

TargetLive(i) == target[i].row = "live"
ChannelLive(c) == channel[c] \in {"enabled", "disabled"}
Enabled == {c \in Channels : channel[c] = "enabled"}

\* The task row of the message that call k handles, for channel c.
TaskFor(k, c) ==
  [post |-> call[k].post, target |-> call[k].target, channel |-> c]

MessageExists(k) ==
  /\ call[k].target # NoTarget
  /\ message[call[k].post] = call[k].target

\* Call k goes on to step next; GoToWith: with target i from now on.
GoTo(k, next) == call' = [call EXCEPT ![k].pc = next]
GoToWith(k, next, i) == call' = [call EXCEPT ![k].pc = next, ![k].target = i]

\* Call k has its answer.  The locals it no longer reads are reset.
Succeed(k) ==
  call' = [call EXCEPT ![k].pc = "ok", ![k].chans = {}, ![k].todo = {}]
GiveUp(k, answer) == call' = [call EXCEPT ![k] = [Idle EXCEPT !.pc = answer]]

IngestInit ==
  /\ rows = NoRows
  /\ added = NothingAdded
  /\ target = [i \in TargetIds |-> NoTargetRow]
  /\ channel = [c \in Channels |-> "none"]
  /\ message = [p \in Posts |-> NoTarget]
  /\ call = [k \in Calls |-> Idle]
  /\ since = [p \in Posts |-> {}]
  /\ announced = [p \in Posts |-> [i \in TargetIds |-> 0]]

----------------------------------------------------------------------------
(***************************************************************************)
(* TelegramIngestController.ingest                                         *)
(***************************************************************************)

\* The sidecar posts a message.  It may post one twice, at the same time or
\* later: after a reconnect Telegram delivers updates again.
Receive(k, p) ==
  /\ call[k].pc = "idle"
  /\ call' = [call EXCEPT ![k] = [Idle EXCEPT !.pc = "lookup", !.post = p]]
  /\ UNCHANGED <<rows, added, tableVars, since, announced>>

Monitored(p) ==
  {i \in TargetIds :
     TargetLive(i) /\ target[i].enabled /\ target[i].chat = ChatOf[p]}

\* findTelegramTargetByExternalId: findFirst, in no stated order, over both
\* types.  The mapper copies type and chat id into the normalized message.
Lookup(k) ==
  /\ call[k].pc = "lookup"
  /\ \/ /\ Monitored(call[k].post) = {}
        /\ GiveUp(k, "ignored")
     \/ \E i \in Monitored(call[k].post) :
          call' = [call EXCEPT ![k].pc = "resolve", ![k].type = TypeOf[i]]
  /\ UNCHANGED <<rows, added, tableVars, since, announced>>

----------------------------------------------------------------------------
(***************************************************************************)
(* MessageService.create                                                   *)
(***************************************************************************)

\* The target by its unique key (type, externalId), enabled or not.  It is
\* not always the row that Lookup saw.
Resolved(k) ==
  {i \in TargetIds : TargetLive(i) /\ TypeOf[i] = call[k].type
                                   /\ target[i].chat = ChatOf[call[k].post]}

\* A plausible bug: a target that is not there is not an error.
ResolveUnchecked(k) ==
  /\ call[k].pc = "resolve"
  /\ \/ Resolved(k) = {} /\ GoTo(k, "find")
     \/ \E i \in Resolved(k) : GoToWith(k, "find", i)
  /\ UNCHANGED <<rows, added, tableVars, since, announced>>

Resolve(k) ==
  /\ call[k].pc = "resolve"
  /\ \/ Resolved(k) = {} /\ GiveUp(k, "failed")
     \/ \E i \in Resolved(k) : GoToWith(k, "find", i)
  /\ UNCHANGED <<rows, added, tableVars, since, announced>>

\* A plausible bug: a duplicate is answered without being routed.
FindExistingAndStop(k) ==
  /\ call[k].pc = "find"
  /\ LET saved == message[call[k].post] IN
       \/ saved = NoTarget /\ GoTo(k, "insert")
       \/ saved # NoTarget
            /\ call' = [call EXCEPT ![k].pc = "ok", ![k].target = saved]
  /\ UNCHANGED <<rows, added, tableVars, since, announced>>

\* The row of a duplicate keeps the target it was saved under.
FindExisting(k) ==
  /\ call[k].pc = "find"
  /\ LET saved == message[call[k].post] IN
       \/ saved = NoTarget /\ GoTo(k, "insert")
       \/ saved # NoTarget /\ GoToWith(k, "channels", saved)
  /\ UNCHANGED <<rows, added, tableVars, since, announced>>

\* INSERT of the Message row: the unique index on (source, externalId) and
\* the foreign key to the target decide.
Insert(k) ==
  LET p == call[k].post
      i == call[k].target
  IN
  /\ call[k].pc = "insert"
  /\ \/ /\ message[p] # NoTarget
        /\ GoTo(k, "refind")
        /\ UNCHANGED <<message, since>>
     \/ /\ message[p] = NoTarget /\ ~TargetLive(i)
        /\ GiveUp(k, "failed")
        /\ UNCHANGED <<message, since>>
     \/ /\ message[p] = NoTarget /\ TargetLive(i)
        /\ GoTo(k, "touch")
        /\ message' = [message EXCEPT ![p] = i]
        /\ since' = [since EXCEPT ![p] = Enabled]
  /\ UNCHANGED <<rows, added, target, channel, announced>>

\* A plausible bug: the loser of the insert race takes the row for its own.
RefindAsNew(k) ==
  /\ call[k].pc = "refind"
  /\ LET saved == message[call[k].post] IN
       \/ saved = NoTarget /\ GiveUp(k, "failed")
       \/ saved # NoTarget /\ GoToWith(k, "touch", saved)
  /\ UNCHANGED <<rows, added, tableVars, since, announced>>

\* Another call won the race: its row is looked up (it may be gone again).
Refind(k) ==
  /\ call[k].pc = "refind"
  /\ LET saved == message[call[k].post] IN
       \/ saved = NoTarget /\ GiveUp(k, "failed")
       \/ saved # NoTarget /\ GoToWith(k, "channels", saved)
  /\ UNCHANGED <<rows, added, tableVars, since, announced>>

\* updateTargetLastMessageAt, which fails if the target is gone, and then,
\* in the same turn of the event loop, the "message.created" event.
Touch(k) ==
  LET p == call[k].post
      i == call[k].target
  IN
  /\ call[k].pc = "touch"
  /\ \/ /\ TargetLive(i)
        /\ GoTo(k, "channels")
        /\ target' = [target EXCEPT ![i].last = p]
        /\ announced' = [announced EXCEPT ![p][i] = @ + 1]
     \/ /\ ~TargetLive(i)
        /\ GiveUp(k, "failed")
        /\ UNCHANGED <<target, announced>>
  /\ UNCHANGED <<rows, added, channel, message, since>>

----------------------------------------------------------------------------
(***************************************************************************)
(* MessageService.routeToEnabledChannels, for new messages and duplicates  *)
(***************************************************************************)
ListChannels(k) ==
  /\ call[k].pc = "channels"
  /\ \/ Enabled = {} /\ Succeed(k)
     \/ /\ Enabled # {}
        /\ call' = [call EXCEPT ![k].pc = "create", ![k].chans = Enabled]
  /\ UNCHANGED <<rows, added, tableVars, since, announced>>

\* The rows that the insert of call k would add: skipDuplicates leaves out
\* the (message, channel) pairs that have one.
NewTasks(k) ==
  {t \in {TaskFor(k, c) : c \in call[k].chans} : rows[t] # "live"}

\* Call k has the tasks of S left to enqueue.
EnqueueNext(k, S) ==
  \/ S = {} /\ Succeed(k)
  \/ /\ S # {}
     /\ call' = [call EXCEPT ![k].pc = "enqueue", ![k].chans = {}, ![k].todo = S]

\* A plausible bug: every task of the message is enqueued, not only the
\* ones this call created.
CreateTasksAndEnqueueAll(k) ==
  /\ call[k].pc = "create"
  /\ IF MessageExists(k) /\ \A c \in call[k].chans : ChannelLive(c)
     THEN /\ rows' = WithRows(NewTasks(k))
          /\ EnqueueNext(k, {TaskFor(k, c) : c \in call[k].chans})
     ELSE UNCHANGED rows /\ GiveUp(k, "failed")
  /\ UNCHANGED <<added, tableVars, since, announced>>

\* A plausible bug: the rows are left for somebody else to enqueue.
CreateTasksOnly(k) ==
  /\ call[k].pc = "create"
  /\ IF MessageExists(k) /\ \A c \in call[k].chans : ChannelLive(c)
     THEN rows' = WithRows(NewTasks(k)) /\ Succeed(k)
     ELSE UNCHANGED rows /\ GiveUp(k, "failed")
  /\ UNCHANGED <<added, tableVars, since, announced>>

\* One INSERT for all channels: a foreign key that no longer holds, of the
\* message or of any channel, rejects every row.
CreateTasks(k) ==
  /\ call[k].pc = "create"
  /\ IF MessageExists(k) /\ \A c \in call[k].chans : ChannelLive(c)
     THEN rows' = WithRows(NewTasks(k)) /\ EnqueueNext(k, NewTasks(k))
     ELSE UNCHANGED rows /\ GiveUp(k, "failed")
  /\ UNCHANGED <<added, tableVars, since, announced>>

\* One queue.add per created row, in the order the insert returned them.
Enqueue(k) ==
  /\ call[k].pc = "enqueue"
  /\ \E t \in call[k].todo :
       /\ added' = [added EXCEPT ![t] = @ + 1]
       /\ EnqueueNext(k, call[k].todo \ {t})
  /\ UNCHANGED <<rows, tableVars, since, announced>>

\* The HTTP answer.  A failure is answered 2xx too, and never retried.
Answer(k) ==
  /\ call[k].pc \in Answers
  /\ call' = [call EXCEPT ![k] = Idle]
  /\ UNCHANGED <<rows, added, tableVars, since, announced>>

----------------------------------------------------------------------------
(***************************************************************************)
(* Failures.                                                               *)
(***************************************************************************)

\* What the call awaits rejects with an error that create() does not handle.
\* It may have taken effect: for most steps that is the rejection of the
\* step after it; the last disjuncts are the steps for which it is not.
Reject(k) ==
  /\ "reject" \in Faults
  /\ call[k].pc \in AwaitSteps
  /\ GiveUp(k, "failed")
  /\ \/ UNCHANGED <<added, target>>
     \/ /\ call[k].pc = "touch" /\ TargetLive(call[k].target)
        /\ target' = [target EXCEPT ![call[k].target].last = call[k].post]
        /\ UNCHANGED added
     \/ /\ call[k].pc = "enqueue"
        /\ \E t \in call[k].todo : added' = [added EXCEPT ![t] = @ + 1]
        /\ UNCHANGED target
  /\ UNCHANGED <<rows, channel, message, since, announced>>

\* The API process dies: its calls are gone, the tables and queues stay.
IngestCrash ==
  /\ "crash" \in Faults
  /\ call' = [k \in Calls |-> Idle]
  /\ UNCHANGED <<rows, added, tableVars, since, announced>>

----------------------------------------------------------------------------
(***************************************************************************)
(* The administrator: MonitorService and the channel half of               *)
(* NotificationService.  Their checks and their single write are one       *)
(* step: what changes in between only turns the write into an error.       *)
(***************************************************************************)
KeyFree(i, x) ==
  \A j \in TargetIds \ {i} :
     TargetLive(j) => ~(TypeOf[j] = TypeOf[i] /\ target[j].chat = x)

CreateTarget(i, x) ==
  /\ target[i].row = "none"
  /\ KeyFree(i, x)
  /\ target' = [target EXCEPT ![i] =
       [row |-> "live", chat |-> x, enabled |-> TRUE, last |-> NoPost]]
  /\ UNCHANGED <<rows, added, channel, message, call, since, announced>>

\* PATCH and setEnabled: any of the fields; the unique key must stay free.
UpdateTarget(i, x, on) ==
  /\ TargetLive(i)
  /\ KeyFree(i, x)
  /\ target' = [target EXCEPT ![i].chat = x, ![i].enabled = on]
  /\ UNCHANGED <<rows, added, channel, message, call, since, announced>>

\* Postgres deletes the target's messages and their tasks with it.
RemoveTarget(i) ==
  /\ TargetLive(i)
  /\ target' = [target EXCEPT ![i] = [NoTargetRow EXCEPT !.row = "deleted"]]
  /\ message' = [p \in Posts |-> IF message[p] = i THEN NoTarget ELSE message[p]]
  /\ since' = [p \in Posts |-> IF message[p] = i THEN {} ELSE since[p]]
  /\ rows' = WithoutRows({t \in Tasks : t.target = i})
  /\ UNCHANGED <<added, channel, call, announced>>

CreateChannel(c) ==
  /\ channel[c] = "none"
  /\ channel' = [channel EXCEPT ![c] = "enabled"]
  /\ UNCHANGED <<rows, added, target, message, call, since, announced>>

\* PATCH of a channel: only "enabled" is read by this module.
UpdateChannel(c, on) ==
  /\ ChannelLive(c)
  /\ channel' = [channel EXCEPT ![c] = IF on THEN "enabled" ELSE "disabled"]
  /\ since' = IF on THEN since ELSE [p \in Posts |-> since[p] \ {c}]
  /\ UNCHANGED <<rows, added, target, message, call, announced>>

\* Postgres deletes the channel's tasks with it.
RemoveChannel(c) ==
  /\ ChannelLive(c)
  /\ channel' = [channel EXCEPT ![c] = "deleted"]
  /\ since' = [p \in Posts |-> since[p] \ {c}]
  /\ rows' = WithoutRows({t \in Tasks : t.channel = c})
  /\ UNCHANGED <<added, target, message, call, announced>>

----------------------------------------------------------------------------
\* A step that an ingest call takes by itself, once it was received.
CallStep(k) ==
  \/ Lookup(k) \/ Resolve(k) \/ FindExisting(k) \/ Insert(k) \/ Refind(k)
  \/ Touch(k) \/ ListChannels(k) \/ CreateTasks(k) \/ Enqueue(k) \/ Answer(k)

AdminStep ==
  \/ \E i \in TargetIds :
       \/ \E x \in Chats :
            \/ CreateTarget(i, x)
            \/ \E on \in BOOLEAN : UpdateTarget(i, x, on)
       \/ RemoveTarget(i)
  \/ \E c \in Channels :
       \/ CreateChannel(c)
       \/ \E on \in BOOLEAN : UpdateChannel(c, on)
       \/ RemoveChannel(c)

IngestStep ==
  \/ \E k \in Calls : CallStep(k) \/ Reject(k) \/ \E p \in Posts : Receive(k, p)
  \/ AdminStep

IngestNext == IngestStep \/ IngestCrash

IngestSpec == IngestInit /\ [][IngestNext]_ingestVars

----------------------------------------------------------------------------
(***************************************************************************)
(* Properties                                                              *)
(***************************************************************************)

\* Every variable stays within its type, and a call always has the locals
\* that the step it is about to take reads.
IngestTypeOK ==
  /\ RowsTypeOK
  /\ AddedTypeOK
  /\ target \in [TargetIds -> TargetRows]
  /\ channel \in [Channels -> ChannelStates]
  /\ message \in [Posts -> TargetIds \cup {NoTarget}]
  /\ call \in [Calls -> CallStates]
  /\ since \in [Posts -> SUBSET Channels]
  /\ announced \in [Posts -> [TargetIds -> Nat]]
  /\ \A k \in Calls :
       /\ call[k].pc \in AwaitSteps => call[k].post \in Posts
       /\ call[k].pc \in AwaitSteps \ {"lookup", "resolve"}
            => call[k].target \in TargetIds

\* A task is handed to the queue at most once, and only after its row was
\* committed, whatever duplicates, races and failures the calls go through.
OneJobPerTask ==
  \A t \in Tasks : added[t] <= 1 /\ (added[t] > 0 => rows[t] # "none")

\* "message.created" is emitted at most once for a Message row, by whichever
\* of the concurrent duplicates inserted it, and never for a row that was
\* not saved.
AnnouncedOnce ==
  \A p \in Posts, i \in TargetIds :
     /\ announced[p][i] <= 1
     /\ announced[p][i] = 1 => message[p] = i \/ target[i].row = "deleted"

\* The answer {ingested: true} means that every channel enabled ever since
\* the message was saved has its task row: also for a duplicate, whose
\* original call may have died between saving and routing.
IngestedMeansRouted ==
  \A k \in Calls :
     call[k].pc = "ok" /\ MessageExists(k) =>
       \A c \in since[call[k].post] : rows[TaskFor(k, c)] = "live"

\* Agent.md:509 and docs/database.md:304: once a message is saved, a task is
\* created for every enabled channel.  Stated when no call is under way, for
\* the channels that were enabled all the time.
SavedMeansRouted ==
  (\A k \in Calls : call[k].pc = "idle") =>
    \A t \in Tasks :
       message[t.post] = t.target /\ t.channel \in since[t.post]
         => rows[t] = "live"

\* notification-queue.service.ts:20: a task is enqueued once, immediately
\* after it is persisted: a live row was enqueued, or the call that created
\* it is about to enqueue it.
PersistedMeansEnqueued ==
  \A t \in Tasks :
     rows[t] = "live" =>
       \/ added[t] = 1
       \/ \E k \in Calls : call[k].pc = "enqueue" /\ t \in call[k].todo
============================================================================
