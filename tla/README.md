# A TLA+ model of social-monitor

social-monitor watches Telegram chats: every text message of a monitored chat is saved once, and a notification of it is sent through every enabled channel (Telegram bot, WeChat, QQ).
This directory holds TLA+ modules of its notification pipeline, its Telegram login, its QQ gateway and its web console, the TLC runs that check them, and theorems that TLAPS proves about them.
Paths below are relative to the root of the repository; `api/` stands for `apps/api/src/`.

## 1. The system

```
Telegram ──> telegram-worker ──HTTP──> API: ingest ──> Postgres: Message, NotificationTask
 (updates)   (Python sidecar)               │
                                            └──queue.add──> Redis / BullMQ
 administrator ──HTTP──> API: monitors,                        │ jobs
 (web pages)             channels, login      API: workers <───┘──> providers ──> user
```

| component | state | operations | talks to |
|---|---|---|---|
| sidecar (`apps/telegram-worker/worker.py`) | one Telethon client per phone, pending login codes, the current phone | login, connect, disconnect; forwards each new message with one HTTP request, 10 s timeout, no retry | ingest endpoint; is called by the Telegram session |
| ingest endpoint (`api/telegram/telegram-ingest.controller.ts`, `telegram-mapper.ts`) | none | look up the enabled target of a chat, normalize, `MessageService.create`; a failure is answered 2xx | MessageService |
| messages (`api/messages/`) | rows `Message`, `NotificationTask`; `MonitorTarget.lastMessageAt` | `create` (find or insert, touch the target, emit), `routeToEnabledChannels` (list channels, insert tasks, enqueue) | Postgres, queue service, SSE |
| queue service (`api/queue/notification-queue.service.ts`) | three BullMQ queues in Redis | `enqueueTask`: `queue.add`, 5 attempts, exponential back-off | Redis |
| worker service (`api/queue/notification-worker.service.ts`) | three BullMQ workers of concurrency 5, in the API process | `process` | Redis, `processTask` |
| notifications (`api/notifications/`) | rows `NotificationChannel`, columns of `NotificationTask` | channel create, update, remove; `processTask` (load, mark PROCESSING, send, mark SENT or FAILED) | Postgres, providers, SSE |
| monitors (`api/monitors/`) | rows `MonitorTarget` | create, update, enable, disable, remove | Postgres |
| Telegram session (`api/telegram/`, the rest) | rows `TelegramAccount` | login in two or three requests, restore at start, reconnect, logout | sidecar, Postgres |
| QQ gateway (`api/qq/`) | socket, timers, session id, cached token | connect, heartbeat, reconnect, shutdown; send a group message | QQ platform |
| SSE and live list (`api/events/`, `apps/web/app/dashboard/latest-messages.tsx`) | subscribers; the last 20 messages in the page | emit, subscribe, prepend | every service, the browser |
| web pages (`apps/web/`) | component state, a token in `localStorage` | list, filter, edit, log in and out | API |
| auth (`api/auth/`) | none; the token carries its expiry | login, verify on every request | web pages |
| crypto, health, dashboard | none | pure functions and read-only queries | |

What is hard here, and where:

- Every `await` in a handler is a point where another request, an administrator or a failure comes in between. There are no transactions: `create` is up to seven separate queries followed by one Redis call per task.
- Postgres and Redis are written one after the other. Whatever dies in between leaves a row without a job.
- Foreign keys cascade: deleting a target or a channel deletes rows that a request or a worker is about to use.
- BullMQ runs a job at least once. A lock that expires gives a second run of `processTask` for the same task while the first one goes on.
- A provider's answer can be late: what counts as a failed attempt was delivered.
- The API process holds both the HTTP handlers and the workers; a crash takes both and keeps tables and queues.
- A login spans a browser, the API, a table and the sidecar, in up to five requests. The sidecar is one asyncio process without locks: handlers for one phone interleave at each `await`. The API gives up on a request after 35 s; the sidecar does not.
- A WebSocket that was replaced still closes, later, and its handler acts on the fields of the one that replaced it.
- The pages start requests whenever something changes; answers come in any order, after the page was left, and after the session ended.

`PROJECT.json` lists these hazards with their lines, and for each the properties that would catch it going wrong.

What makes each component correct:

- ingest and messages: a message is saved, announced and enqueued at most once whatever is duplicated; a success answer means that the message is routed.
- queues and workers: every enqueued task is closed in the end; the number of sends is bounded and accounted for; SENT is the truth, except for the WECHAT provider, a mock.
- both together: a persisted task is enqueued; without infrastructure failures it ends SENT or FAILED and is sent once.
- Telegram session: the sidecar loses sight of no client; at most one account per phone; what a connected account stores has signed in, if this implementation stored it; an account that is listened to is known to the table. All of this as long as two requests for a phone are not under way at once, which nothing prevents.
- QQ gateway: no request carries a token that has run out, if the platform says how long its tokens live; the socket in use is identified and has a heartbeat; it never gives up and always comes back, until it is shut down; from then on it starts no connection.
- web console: a page at rest shows what was asked for, or an error; no failure leaves it busy; the live list has no duplicates and shows what it received, unless its first page failed; a session ends by expiring, by a logout or a mistyped password in any tab, or by the 401 of an older session, and by nothing else.

## 2. The modules

| module | models | state |
|---|---|---|
| `NotificationTasks` | what producer and consumer share about a task | `rows` (none, live, deleted), `added` (number of `queue.add` calls), the constant `Faults` |
| `Ingest` | the producer: ingest endpoint, `MessageService.create`, `routeToEnabledChannels`, administrator's edits | `target`, `channel`, `message` are tables; `call[k]` is the control state and the locals of HTTP request `k`; `since` and `announced` are history |
| `Delivery` | the consumer: worker service, `processTask`, BullMQ | `task` (status, attempts, sentAt, lastError, and whether the provider is the mock), `job` (BullMQ state, attempts made, stalls), `run[w]` (an execution of `processTask`), `delivered` is history |
| `TaskPromise` | abstract: what delivery promises | `due`, `mocked`, `sends`, `verdict` |
| `Pipeline` | `Ingest` and `Delivery` over the same rows, queues and process | the union |
| `TelegramWorker` | the sidecar, under any caller | `clients`, `code_hashes`, `current_phone` of the class; `client[c]` a Telethon client object, wherever it is referenced; `work[h]` a handler execution; `auth[k]` what Telegram knows of a key; `overlap` is history |
| `TelegramSession` | the wizard, the API and the table on top of it | `account` is the table; `api[r]` the API's side of a request; `tab[r]` the wizard's step; `contended`, `missed` are history |
| `QqClient` | the token cache | `cachedToken`; `call[x]` a call and the token it carries; `dependable`, what the platform is like |
| `QqGateway` | the gateway on top of it | `ws`, `heartbeatTimer`, `reconnectTimer`, `shuttingDown` of the class; `socket[s]` the WebSocket objects |
| `LiveList` | the dashboard's list, with the event stream | `list`, `stream`, `events`, `fetching`, `first`; `saved`, `announced` are the API's side |
| `SearchPage` | the pages for messages and notification tasks | `wanted` (page and applied filter), `shown`, `loading`, `error`, `load[t]` the requests |
| `ManagePage` | the monitors page and the bots' sections, with their part of the API | `rows`, `busy`, `table`, `run[t]` the executions of handlers |
| `Console` | one browser tab beside others: session, login page, navigation, one of the three pages | `page`, `token`, `issued`, `expired`, and the requests' tokens `carried`, `late` |
| `IngestProofs`, `DeliveryProofs`, `PipelineProofs`, `WorkerProofs`, `TelegramProofs`, `SignInProofs`, `QqProofs`, `ConsoleProofs` | theorems | |
| `MCIngest`, `MCDelivery`, `MCPipeline`, `MCTelegram`, `MCQq`, `MCConsole` | instances for TLC | |

One action is one awaited operation together with the synchronous code up to the next `await`; the control state (`pc`) of a request, a run or a handler is named after what is awaited next. So every interleaving that the event loop of Node, asyncio or the browser allows is a behaviour, and no other.

`Ingest`, in the order of the code: `Receive`, `Lookup` (controller), `Resolve`, `FindExisting`, `Insert`, `Refind`, `Touch` (`create`), `ListChannels`, `CreateTasks`, `Enqueue` (`routeToEnabledChannels`), `Answer`. The unique indexes and foreign keys of `prisma/schema.prisma` are the branches of `Insert`, `Touch` and `CreateTasks` and the guard `KeyFree`; the cascades are in `RemoveTarget` and `RemoveChannel`. `Reject` is any awaited call that rejects, with or without having taken effect; `IngestCrash` is the death of the process.

`Delivery`: `Fetch`, `Load`, `Mark`, `Send`, `RecordSent`, `RecordFailed`, then `Complete` or `Retry` when BullMQ hears the outcome. `Promote` is the back-off timer and `Stall` the stalled-job check. `RejectQuery`, `RejectSettle` and `DeliveryCrash` are the failures. `Send` is the provider of the task's channel: `Notify` for TELEGRAM and QQ delivers, refuses, or delivers with an answer that comes too late; `Mock` is `wechat.provider.ts` lines 13-19, which logs and resolves, so that a WECHAT task becomes SENT and its job completed with nothing delivered. Whether a task is `mocked` is open at the start and never changes; in `Pipeline` the tasks of one channel agree on it (`OneProvider`). `InsertRows`, `AddJob` and `DeleteRows` are the environment: what any producer may do, as long as it enqueues a task at most once and after its row. That `Ingest` is such a producer is a theorem (`PipelineImplementsDelivery`), not an assumption.

`TaskPromise` has neither rows nor jobs nor workers: a task that was handed over is sent at most `Limit` times and closed once, as done only if it was sent; mocked tasks are never sent and may be closed as done all the same. `Delivery!Promise` is the refinement mapping (`due`: the tasks with a job; `mocked`: the column; `sends`: `delivered`; `verdict`: from the job's state; `Limit`: `MaxAttempts + MaxStalled`).

Abstractions: identifiers, chats and posts are model values. Content, authors and the text of a notification are left out. The three queues are one, because a task has one channel and so one queue. A `Message` row dies only with its target, so (external id, target) identifies it; source is always TELEGRAM, as it is in the code. `Types` has the two Telegram types; X_USER targets are never found by the ingest endpoint. A target's `lastMessageAt` is the post written last. The unbounded `attempts`, `made` and `stalls` need no cap of their own: they are bounded by `MaxAttempts` and `MaxStalled`, which is one of the things proved. A check followed by a single write in the administrator's handlers is one action: what changes in between turns the write into an error and nothing else.

Failures (`Faults`): "crash", "reject", "timeout" (a delivered notification reported as failed) and "stall" (a worker that is alive loses its lock). A run names those it admits. A provider that refuses is always possible, except for the mock. Not modelled: loss of data in Postgres or Redis (Redis runs with append-only persistence in `docker-compose.yml`).

`TelegramWorker`, in the order of `worker.py`: `InvalidSession`, `Replace`, `PreviousDropped`, `Connect`, `ConnectFails`, `Unwind`, `SendCode`, `SendFails`, `NoCodeSent` (`handle_login_start`, `handle_connect`, `connect_client`), `Require`, `SignIn`, `PasswordNeeded`, `Refuse` (the code and the password), `SaveSession`, `Disconnect`, `FinishDisconnect`; `LinkLost` and `WorkerStop` are what happens to clients and to the process. Telethon and Telegram are modelled from how this code uses them: a session is the authorization key of the client that created it, and Telegram remembers which keys have signed in. A key is identified with that client, so "two clients of one session" is two clients of one key.

`TelegramSession`: `StartLogin`, `SubmitCode`, `SubmitPassword`, `ReconnectOrLogout`, `Reload` are the page; `Ask` is `TelegramClientManager.request`; `AskForSession`, `FindAccount`, `WriteAccount` are `persistSession` and `upsert`; `Pick` is the unordered query of reconnect and logout; `ClearAccount` ends a logout; `RestoreNext` and `Restored` are `restoreAccounts`, a request of its own (`Boot`). `GiveUp` is the 35 s timeout, after which the handler in the sidecar goes on and `Discard` drops its answer. At the start the table may hold a connected row of the implementation before the sidecar (`OldRow`), whose session Telethon cannot parse: a reconnect or the restoration is answered with `TELEGRAM_SESSION_INVALID`. Failures: "crash" (the API; the sidecar stops at any time in any case) and "reject" (a query).

`QqGateway`: `TimerFires`, `UrlArrives`, `OpenSocket`, `PreparationFails` are `connect()`, which may run more than once at a time; `Opened`, `Hello`, `ToldToReconnect`, `HandleClose` are the events of any socket, also of one that was replaced; `OnModuleDestroy` may come at any time; a `connect()` under way then still opens a socket, whose Hello starts a heartbeat, in the model as in the code. Time is relative: a token carries how long it has left at the platform (from its issue) and in the cache (from the arrival of its answer), and `Tick` cannot pass a request's timeout. The answer may not say how long the token lives, or say 0; the code then takes two hours (`ExpiresIn`, line 164). How long a token really lives is up to the platform: `dependable` is chosen at the start and says that tokens live at least as long as the cache is told or assumes, and longer than two timeouts, which no code checks. `TokenIsAlive` speaks of such a platform only. Heartbeats, delays, session id and sequence number decide nothing and are left out.

`Console` composes the pages by disjoint variables: the page that is shown moves (`PageStep`), the others are at their initial values. `Visit` follows a link, which leaves the requests of the old page under way (`late`); `Load` loads a location, which aborts them; `/login` can be loaded with a token stored. `Login` and `LoginRefused` are the two ends of `handleSubmit`: the 401 of a wrong password removes the token that is stored, like any other. `LoginElsewhere` and `ClearedElsewhere` are the same `localStorage` changed by other tabs, after which the page shown goes on with another token, or with none. A request is served if its token verifies; otherwise it ends in a 401, which removes whatever token is stored by then (`Unauthorized`). `LiveList`, `SearchPage` and `ManagePage` are written without a specification of their own: their steps are split into those of the page and those that the API takes for a request that it has verified (`LiveServed`, `SearchServed`, `ManageServed`).

The variables called history are read by no action that models code; they say in a property exactly when it is not promised: `overlap` and `contended` (two handlers, or two requests, for one phone at once), `missed` (the API did not see a request through), `crossed` and `stale` (answers arrived out of order, or were lost), `early` (received before the first page). A first page that fails sets an error that is never cleared and shown instead of the list (`Displayed`).

## 3. The runs

Passing:

| run | instance | what it shows |
|---|---|---|
| `ingest_faults` | 2 concurrent requests, 1 post, 2 target ids, 2 channels; crash, reject; 1.8 million states | `OneJobPerTask`: never two jobs for a task. `AnnouncedOnce`: one event per row. `IngestedMeansRouted`: a success answer means that all channels enabled since the save have their task, for duplicates too. `IngestInv`: the invariant that the proofs need |
| `delivery_faults` | 1 task, 2 worker slots, 5 attempts, 1 stall; all faults, a provider or the mock; 142 thousand states | `AttemptsBounded`: at most 6. `DeliveriesCounted`: no delivery that the row does not account for. `SentWasDelivered`: no SENT without a delivery, the mock's apart. `DeliveryInv`. `KeepsPromise`: refinement of `TaskPromise`. `ClosesTasks`: every job is closed in the end, whatever fails |
| `pipeline_clean` | 2 requests, 1 post, 1 target, 1 channel, 2 slots, 3 attempts; no faults: providers deliver or refuse in time; 208 thousand states | `PersistedMeansEnqueued`, `NotifiedOnce`, `StatusFollowsJob`, `NoTaskForgotten`, `SentIsFinal`, `TasksSettle`: what the documents promise holds when the infrastructure works, with concurrent duplicates and with an administrator deleting rows under way. `NoTaskForgotten` is the safety under `TasksSettle`: at every moment a request, the queue or a run with the lock is to deal with a live task, until it is SENT or all its attempts have FAILED |
| `pipeline_faults` | 2 requests, 1 channel, 1 slot, 1 attempt; crash, reject; 593 thousand states | `ImplementsIngest`, `ImplementsDelivery`: the composition is a behaviour of each half |

Of the parts beside the pipeline:

| run | instance | what it shows |
|---|---|---|
| `telegram_session` | 1 phone, 2 tabs, 2 handlers, 3 clients, 2 account ids; crash, reject, a row of the former implementation or none; 1.1 million states | `NoStrayClient`: a connected client is the registered one. `OneAccountPerPhone`. `SessionsAreSignedIn`: what is stored was signed in, although `save-session` takes the client of the moment. `ListeningIsKnown`: when nothing is under way, who listens is in the table. `SessionLiveOnce`: what `double_client` refutes holds as long as no two handlers of the phone overlap |
| `qq_gateway` | 2 executions of `connect`, 1 send, 2 sockets, tokens that outlive the margin by one tick or die before it, and answers that do not say; 470 thousand states | `TokenIsAlive`, `HelloIsAnswered`, `NeverAbandoned`, `QuietAfterDestroy`, and `ComesBack`: online again and again until shutdown |
| `console` | 3 messages, a list of 2, 2 filters, 2 pages, 2 requests at once, 1 row, 2 tokens, other tabs; 905 thousand states | `NoDuplicates`, `ReceivedIsListed`, `ShownIsWanted`, `ShowsOwnChanges`, `BusyMeansWork`, `SessionEnds` |

Expected violations. Each is a sentence of the repository that the code does not keep:

| run | property | what happens |
|---|---|---|
| `stranded_task` | `PersistedMeansEnqueued` (queue service: "enqueued once, immediately after it is persisted") | the rows are committed, `queue.add` is rejected; the rows stay PENDING for ever, since a duplicate skips rows that exist |
| `missing_task` | `SavedMeansRouted` (`Agent.md` 16, `docs/database.md`: tasks for every enabled channel) | no failure at all: another channel is deleted between the query and the insert; the foreign key rejects the tasks of all channels |
| `duplicate_send` | `NotifiedOnce` (`README.md`, `Agent.md`: no duplicate notifications) | the message that completes the job does not reach Redis; the job runs again, and `processTask` sends a task that is already SENT |
| `double_client` | `OneLiveClient` (`docs/telegram-gramjs-to-python-migration.md` 157: an account is not live twice; `worker.py` 105) | no failure at all, and a phone that is logged in (`LoggedInSpec`): two reconnects interleave at the awaited disconnect, the second registers its client over that of the first, and both are connected |
| `stuck_task` | `ClosedIsNotProcessing` (`README.md`: PROCESSING to SENT or FAILED) | the process dies after the row was marked PROCESSING; the job stalls, runs again and dies again, before or after another mark: BullMQ fails the job, nobody writes FAILED, the row stays PROCESSING |

Why the bounds are enough. Two requests give every race of `create`: a third one finds the row that the first two left. Two channels are needed for a partial enqueue and for an insert that one of several channels spoils. Two target ids are needed for a target that is deleted and created again while a request holds the old id. In `delivery_faults` two slots are enough for any overlap, because a job that lost its lock twice is never fetched again, and tasks do not interact in `processTask`; the limits are the code's (5 attempts, BullMQ's default of 1 stall). `pipeline_clean` uses 3 attempts (first, middle, last) and no stall can occur in it. `pipeline_faults` is about the steps of the interface, not about how often a task is retried. Both targets of `MCIngest` have the same type, so two targets of one chat are never live at once there; the theorems hold for any assignment of types. Symmetry sets are used only in runs without liveness, and only for values that no definition tells apart.

`telegram_session`: two tabs give every pair of requests for a phone, and a restart of the API gives a third party, the restoration. Three clients are one that is registered, one that replaces it and one more; a phone needs a second one after a failed login. `MCBound` of `MCTelegram` does not follow states after an overlap of two handlers, of which `NoStrayClient` and `SessionLiveOnce` say nothing, nor states in which requests were both contended and missed; the theorems have no such bound. `qq_gateway`: two sockets are the one in use and one that is going away; two executions of `connect` are the one of the timer and the one that the close of an older socket brought about; a lifetime of 3 is one tick more than two timeouts, one of 1 is what no margin helps against. `console`: three messages overflow a list of two; two requests are enough for answers in the wrong order; two tokens for a 401 of an older session. `MCBound` of `MCConsole` follows the first session with everything the pages can do, and later ones only while the tables are empty and the requests under way carry at most two different tokens.

`CHECK_DEADLOCK` is off in `telegram_session` and `console`, where the clients or tokens of the instance run out, and on everywhere else: the administrator, the sidecar and the timers can nearly always act.

Fairness (`DeliveryFairness`, `PipelineFairSpec`). Weak fairness of each step of a run or of a call: Node runs every continuation, and everything awaited settles, because the providers that use the network have a timeout (`telegram.provider.ts` line 48, `qq-client.service.ts` lines 72, 109, 142) and the Postgres and Redis clients report a lost connection. Weak fairness of `Promote` and of `Stall` for a job whose lock nobody holds: BullMQ's timers run as long as a worker does. Strong fairness of `Fetch`: waiting jobs are handed out in order, so a job that is waiting again and again is not passed over for ever; under crashes this includes the assumption that the process is restarted and stays up long enough to fetch a job. Nothing is assumed of the sidecar, of an administrator, or of failures.

`GatewayFairSpec`: weak fairness of `TimerFires` and of `OpenSocket` (Node fires a timer and runs a continuation); strong fairness of the success of each kind of request and of the opening of the socket in use: the platform is reachable again and again; weak fairness of the close of a socket that is not in use, since it gets no heartbeats and the platform closes it. Nothing is assumed of how long a connection holds. The Telegram session and the console have safety properties only: nothing there runs unless a user acts, and no code brings back a client that the sidecar has lost.

Each property of a passing run has a mutant in `PROJECT.json`: a definition next to the real one, marked "A plausible bug", that TLC shows to violate it.

## 4. The proofs

The theorems hold for every number of requests, posts, chats, targets, channels, workers and attempts. The assumptions are those the modules declare: the kinds of `Faults`, that `TypeOf` and `ChatOf` are functions of the right type, that the `No...` values are not members of the sets they stand beside, that `Tasks` is the set of (post, target, channel) triples, that `Workers` is finite with `MaxAttempts` positive, that the restoration is not a tab, that a token's refresh margin is at least two request timeouts (60 s and 10 s in the code), and that there is at least one request a page can send. TLC evaluates them in every run.

`IngestProofs`. None of the safety properties is inductive alone. That a task is enqueued once depends on which request still holds it, and that depends on who inserted its row. `IngestInv` adds to the type invariant:

- `MessagesHaveTargets` and `DeletedForAReason`: a saved message has a live target; a deleted task row was deleted with its target or its channel, and so cannot be inserted again;
- `TodoIsOwn`: the tasks that a request has left to enqueue were never enqueued, and no other request has them; with `OneJobPerTask` this rules out a second job;
- `TouchIsOwn`: at most one request is about to announce a given row, which has not been announced; with `AnnouncedOnce` this rules out a second event;
- `RoutesAll`: a request that is past the query for channels holds all channels enabled since the save, and one that is past the insert has a row for each of them. `IngestedMeansRouted` is the last case.

Each action is shown to preserve each conjunct it can disturb; `OneJobPerTask`, `AnnouncedOnce` and `IngestedMeansRouted` follow.

`DeliveryProofs`. `AttemptsBounded` is not inductive: a run about to count an attempt says nothing of the job that granted it. `DeliveryInv` consists of the type invariant and

- `Locks`: a run that holds a lock has its job active, and no other run holds the lock of that task; so only one run settles a job, and only while the job is active;
- `Budget`: a job that is not failed has made fewer than `MaxAttempts` attempts and stalled at most `MaxStalled` times; for a failed one the sum is within both limits;
- `Attempts`: the attempts column plus the runs about to count an attempt are at most what BullMQ granted: the attempts made, the stalls, and one if the job is active or completed. A run that lost its lock was paid for by the stall that took it, which is why crashes and overlapping runs cannot push the column past `MaxAttempts + MaxStalled`;
- `Deliveries`: the deliveries plus the runs about to send are at most the attempts column;
- `Evidence`: a run that has sent, or has resolved, has delivered, unless its task is mocked; with `SentWasDelivered`.

The runs about to count or send are counted as the cardinality of a set, with the lemmas of `FiniteSetTheorems`; hence the assumption that `Workers` is finite.

The rest is for `Faults = {}`, where a task can be followed through its job. `Follows(t)`: a job is active as long as it has a run, and that run has its lock, so neither a stall nor a second run comes in between; at each await of the run the status, the attempts and the deliveries are those that the attempts of the job make them (`AtStep`), and between two runs those of `Settled`; a row that was deleted keeps its columns, and its job gets no further than the next query. `NotifiedOnce`, `StatusFollowsJob` and `SentIsFinal` follow. The corresponding invariant of the producer, `KeptInv` in `IngestProofs`, says that a request which holds tasks is at the loop that enqueues them; `PersistedMeansEnqueued` is inductive with it.

`DeliveryKeepsPromise` is the refinement: each step of `Delivery` is a step of `TaskPromise` or leaves its variables alone, under the invariant.

`PipelineProofs`. `PipelineImplementsIngest` is by cases on the step. `PipelineImplementsDelivery` needs `Ingest`'s invariant: a row is inserted only where none was, and a job only where none is. With both, `PipelineIsSafe` and, for `Faults = {}`, `CleanPipelineIsSafe` carry the results of the two halves over to the composition. `CleanTasksAreInHand` (`NoTaskForgotten`) joins them: until `queue.add` a row is in the hands of the request that inserted it (`PersistedMeansEnqueued`), from then on of its job, which waits or has a run with the lock (`Follows`), and what a job leaves when it is closed is `Settled`. It says where a task can be; that it moves on is `TasksSettle`. With `IngestedMeansRouted` it gives `CleanAnswersAreFollowedUp`, from the answer of the ingest endpoint to the end of the notification.

`WorkerProofs`. `NoStrayClient` for the sidecar under any caller. The invariant `StrayInv` adds what a handler holds at each of its awaits and that a connecting client has a handler that awaits it (`WorkInv`), and, for a phone whose handlers never overlapped, that the handler midway is alone, that the client it brings up is the registered one, and that nothing is live while it drops or unwinds one (`AloneInv`). `connect_client` removes whatever client is registered when its own connect fails; that this is its own is the last of these.

`TelegramProofs`. `TelegramImplementsWorker` is a refinement: the API and the tabs are one of the callers that `WorkerSpec` allows, so what is shown of the sidecar alone holds of the whole. It needs to know that the API calls with a phone and a session that exist, and hears each answer on a handler, which are parts of `SessionInv`. `SessionInv` says that a request which awaits the sidecar has a handler of its own, with its phone, and the locals that its next step reads; that nothing else is under way during the restoration; and that connected rows have a phone. For `OneAccountPerPhone`: of a phone that was never contended there is one request and one handler, and during a login that handler is the one the request awaits (`SingleInv`); so the row that `FindAccount` found, or did not find, is still right when it is written (`WriteOK`).

`SignInProofs`. A key that has signed in stays so and a client keeps its key (`KeysStable`). From the answer of the sign-in to the end of `save-session` the client registered for the phone, if any, has signed in (`AskedOK`), because nobody else works on the phone; what the request holds then, and what it writes, is the key of that client.

The rest of `SignInProofs` is `ListeningIsKnown`, which says something only when nothing is under way; `KnownInv` fills in what holds meanwhile:

- `BindInv`: a client, its key, a row's session and what a request or a handler holds of them stay with one phone, whatever requests and failures come in between;
- `RequestFits`: the handler that a request awaits does what the request needs, and a logout has a row of its phone;
- `SignedIsKnown`: a client of the phone that is live with a signed-in key has a connected row, or a request that is between the sign-in and the store (`Saving`);
- `RequestKnows`: the row that a client is brought up for is still connected, and no client of the phone is live by the time a logout clears its row. This is why the sidecar must have dropped the client before it answers, and why the statement excludes `missed` phones: a logout whose request timed out clears the row all the same.

The last two are for phones that were never contended nor missed. `SessionLiveOnce` follows from `BindInv` and `NoStrayClient`: two clients of one key have the phone of that key, and each is the registered one.

`QqProofs`. `TokenIsAlive` alone is not inductive: a token from the cache is only as good as the cache's idea of it. `ClientInv` says that the cache overestimates a token by at most one timeout, and that a request under way has more life in its token, counted with what it has waited, than a request may take; the margin of two timeouts is what makes the first give the second. `WsInv` says that `ws` is a socket nobody has closed and that only an open socket has said Hello; `HelloIsAnswered` and `NeverAbandoned` are inductive with it.

`ConsoleProofs`. `SearchInv`: the request that was sent last asks for what is wanted, and once it is over its answer is shown, unless an error or an older answer came after it. `FlagInv`: the busy flag belongs to exactly one handler, which is why `finally` may simply clear it. `ShownInv`: what is shown, and what the newest read holds, is the table, or there is a handler that has still to read it. `SessionEnds` is an action property by cases on what removes a token: a 401 removes the one that is stored, and if that one would still be accepted the request carried another, or none. `LiveInv`: the first page is sorted by the rank of its messages and so has none twice (`FirstPageProperties`), and nothing counts as early before it has arrived; once it has failed nothing is displayed, and nothing is claimed; `NoDuplicates` and `ReceivedIsListed` are inductive with it, because a message is put in front only if the list does not hold it, and only a full list drops one. `PagesInv` puts the invariants of the pages together: whichever is shown moves, the others stand still, and leaving one resets it.

Every invariant and action property that a passing run checks, and each refinement, is stated by a theorem. Only model-checked are `ClosesTasks`, `TasksSettle` and `ComesBack`: liveness under fairness is out of the prover's reach. Nothing in the modules is recursive: what a recursive operator computes could not be proved here, and so `FirstPage`, for one, is defined by the rank of the messages.

## 5. Not modelled, and what remains

Left out for good: encryption (stateless functions of a library), health and dashboard counters (read-only), the lists of dialogs for the monitors form (read-only), rendering of pages, texts and HTTP details of the providers. Two creations of the same monitor at once are one insert and one error in the model as in the code; only the error's wording differs.

Not promised by the code, and so not stated: that a sidecar that restarts alone gets its sessions back (only the start of the API restores them); that events of a closed stream reach the page; what becomes of queued tasks of a channel that is disabled.

Remaining, most important first:

1. An order of publication in `Ingest`, for `lastMessageAt`, which concurrent requests may set back.
2. A graceful shutdown of the workers (`onModuleDestroy` waits for the runs under way), beside the crash.
3. A sidecar and an ingest endpoint in one composition, for messages that arrive while an account is replaced.
