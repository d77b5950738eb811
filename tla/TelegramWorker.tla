--------------------------- MODULE TelegramWorker ---------------------------
(***************************************************************************)
(* The Python sidecar apps/telegram-worker/worker.py: the Telethon clients *)
(* it holds and the HTTP handlers that create, sign in and drop them.      *)
(*                                                                         *)
(* asyncio runs one handler at a time and switches at an await, so an      *)
(* action is the code from one await to the next.  A handler that its      *)
(* caller has given up on runs to its end (aiohttp does not cancel it).    *)
(*                                                                         *)
(* Telethon (a library, modelled from how the code uses it): disconnecting *)
(* a client drops its link at once; a client that is still connecting may  *)
(* come up or fail all the same.  A session is the authorization key of    *)
(* the client that created it, here that client; Telegram remembers which  *)
(* keys have signed in, and signing in again succeeds.  NoClient, passed   *)
(* to connect, is a string that Telethon cannot parse.                     *)
(***************************************************************************)
EXTENDS Naturals, FiniteSets

CONSTANTS
  Phones,
  Clients,   \* the TelegramClient objects a process may create; also the keys
  Handlers,  \* the handler executions that may be under way at once
  NoPhone, NoClient

ASSUME WorkerAssumption ==
  /\ NoPhone \notin Phones
  /\ NoClient \notin Clients

VARIABLES
  clients,        \* self.clients[p]
  code_hashes,    \* the phones with a pending login code
  current_phone,
  client,         \* client[c]: the object c, wherever it is referenced
  auth,           \* auth[k]: what Telegram knows of key k
  work,           \* work[h]: a handler execution and the answer it gives
  overlap         \* history: phones with two handlers of Lifecycle midway

workerVars ==
  <<clients, code_hashes, current_phone, client, auth, work, overlap>>

----------------------------------------------------------------------------
Links == {"unused", "connecting", "up", "down"}

ClientStates ==
  [link : Links, phone : Phones \cup {NoPhone}, key : Clients \cup {NoClient}]

Unused == [link |-> "unused", phone |-> NoPhone, key |-> NoClient]

\* The handlers that replace or drop the client of a phone, and the others.
Lifecycle == {"start", "connect", "disconnect"}
Ops == Lifecycle \cup {"code", "password", "save"}

\* Named after what the handler awaits: "dropping" the disconnect of the previous
\* client, "dropped" that of a client it has forgotten, "unwinding" that of one
\* that failed to connect.
WorkSteps == {"idle", "called", "dropping", "connecting", "unwinding",
              "sending", "signing", "dropped", "replied"}

Replies == {"none", "ok", "password", "error"}

Works == [pc : WorkSteps, op : Ops \cup {"none"}, phone : Phones \cup {NoPhone},
          session : Clients \cup {NoClient}, client : Clients \cup {NoClient},
          reply : Replies]

NoWork == [pc |-> "idle", op |-> "none", phone |-> NoPhone,
           session |-> NoClient, client |-> NoClient, reply |-> "none"]

WorkerInit ==
  /\ clients = [p \in Phones |-> NoClient]
  /\ code_hashes = {}
  /\ current_phone = NoPhone
  /\ client = [c \in Clients |-> Unused]
  /\ auth = [c \in Clients |-> "out"]
  /\ work = [h \in Handlers |-> NoWork]
  /\ overlap = {}

Held(h) == clients[work[h].phone]

Hold(h, c) == clients' = [clients EXCEPT ![work[h].phone] = c]

GoOn(h, pc) == work' = [work EXCEPT ![h].pc = pc]

\* Only the answer is left of the handler.
Reply(h, r) ==
  work' = [work EXCEPT ![h] = [NoWork EXCEPT !.pc = "replied", !.reply = r,
             !.op = work[h].op, !.phone = work[h].phone]]

\* await client.disconnect()
Disconnected(c) ==
  IF client[c].link = "up" THEN [client EXCEPT ![c].link = "down"] ELSE client

Midway(p) == {h \in Handlers : /\ work[h].op \in Lifecycle /\ work[h].phone = p
                               /\ work[h].pc \notin {"idle", "called", "replied"}}

\* A handler of Lifecycle gets under way.
Enter(h) ==
  overlap' = IF Midway(work[h].phone) # {}
             THEN overlap \cup {work[h].phone} ELSE overlap

----------------------------------------------------------------------------
(***************************************************************************)
(* Requests and answers.                                                   *)
(***************************************************************************)
\* A request for which h is free, or whose caller has just heard its answer.
Call(h, op, p, session) ==
  /\ work[h].pc \in {"idle", "replied"}
  /\ work' = [work EXCEPT ![h] = [NoWork EXCEPT
                !.pc = "called", !.op = op, !.phone = p, !.session = session]]
  /\ UNCHANGED <<clients, code_hashes, current_phone, client, auth, overlap>>

Answer(h) ==
  /\ work[h].pc = "replied"
  /\ work' = [work EXCEPT ![h] = NoWork]
  /\ UNCHANGED <<clients, code_hashes, current_phone, client, auth, overlap>>

----------------------------------------------------------------------------
(***************************************************************************)
(* handle_login_start and handle_connect.                                  *)
(***************************************************************************)
\* Drop what is registered, then register a new client with its listener:
\* of a new session (start), or of the one that was passed (connect).
Register(h) ==
  \E c \in Clients :
     /\ client[c] = Unused
     /\ client' = [client EXCEPT ![c] =
          [link |-> "connecting", phone |-> work[h].phone,
           key |-> IF work[h].op = "start" THEN c ELSE work[h].session]]
     /\ Hold(h, c)
     /\ work' = [work EXCEPT ![h].pc = "connecting", ![h].client = c]

\* Before anything else: TELEGRAM_SESSION_INVALID.
InvalidSession(h) ==
  /\ work[h].pc = "called" /\ work[h].op = "connect"
  /\ work[h].session = NoClient
  /\ Reply(h, "error")
  /\ UNCHANGED <<clients, code_hashes, current_phone, client, auth, overlap>>

\* A plausible bug: a reconnect registers its client over the one that is live.
ReplaceOver(h) ==
  /\ work[h].pc = "called" /\ work[h].op \in {"start", "connect"}
  /\ work[h].op = "connect" => work[h].session # NoClient
  /\ Enter(h)
  /\ IF Held(h) = NoClient \/ work[h].op = "connect"
     THEN Register(h)
     ELSE /\ client' = Disconnected(Held(h))
          /\ work' = [work EXCEPT ![h].pc = "dropping", ![h].client = Held(h)]
          /\ UNCHANGED clients
  /\ UNCHANGED <<code_hashes, current_phone, auth>>

Replace(h) ==
  /\ work[h].pc = "called" /\ work[h].op \in {"start", "connect"}
  /\ work[h].op = "connect" => work[h].session # NoClient
  /\ Enter(h)
  /\ IF Held(h) = NoClient
     THEN Register(h)
     ELSE /\ client' = Disconnected(Held(h))
          /\ work' = [work EXCEPT ![h].pc = "dropping", ![h].client = Held(h)]
          /\ UNCHANGED clients
  /\ UNCHANGED <<code_hashes, current_phone, auth>>

PreviousDropped(h) ==
  /\ work[h].pc = "dropping"
  /\ Register(h)
  /\ UNCHANGED <<code_hashes, current_phone, auth, overlap>>

\* connect_client
Connect(h) ==
  /\ work[h].pc = "connecting"
  /\ client' = [client EXCEPT ![work[h].client].link = "up"]
  /\ IF work[h].op = "start"
     THEN GoOn(h, "sending") /\ UNCHANGED current_phone
     ELSE Reply(h, "ok") /\ current_phone' = work[h].phone
  /\ UNCHANGED <<clients, code_hashes, auth, overlap>>

ConnectFails(h) ==
  /\ work[h].pc = "connecting"
  /\ client' = [client EXCEPT ![work[h].client].link = "down"]
  /\ GoOn(h, "unwinding")
  /\ UNCHANGED <<clients, code_hashes, current_phone, auth, overlap>>

\* Whatever client is registered by now is removed.
Unwind(h) ==
  /\ work[h].pc = "unwinding"
  /\ Hold(h, NoClient)
  /\ Reply(h, "error")
  /\ UNCHANGED <<code_hashes, current_phone, client, auth, overlap>>

SendCode(h) ==
  /\ work[h].pc = "sending"
  /\ client[work[h].client].link = "up"
  /\ code_hashes' = code_hashes \cup {work[h].phone}
  /\ Reply(h, "ok")
  /\ UNCHANGED <<clients, current_phone, client, auth, overlap>>

\* A plausible bug: the client that got no code is forgotten, not disconnected.
SendFailsAndForgets(h) ==
  /\ work[h].pc = "sending"
  /\ Hold(h, NoClient)
  /\ Reply(h, "error")
  /\ UNCHANGED <<code_hashes, current_phone, client, auth, overlap>>

SendFails(h) ==
  /\ work[h].pc = "sending"
  /\ Hold(h, NoClient)
  /\ client' = Disconnected(work[h].client)
  /\ GoOn(h, "dropped")
  /\ UNCHANGED <<code_hashes, current_phone, auth, overlap>>

NoCodeSent(h) ==
  /\ work[h].pc = "dropped" /\ work[h].op = "start"
  /\ Reply(h, "error")
  /\ UNCHANGED <<clients, code_hashes, current_phone, client, auth, overlap>>

----------------------------------------------------------------------------
(***************************************************************************)
(* handle_login_code, handle_login_password, handle_save_session.          *)
(***************************************************************************)
\* require_client, and for a code its pending hash.
Require(h) ==
  /\ work[h].pc = "called" /\ work[h].op \in {"code", "password"}
  /\ IF \/ Held(h) = NoClient
        \/ work[h].op = "code" /\ work[h].phone \notin code_hashes
     THEN Reply(h, "error")
     ELSE work' = [work EXCEPT ![h].pc = "signing", ![h].client = Held(h)]
  /\ UNCHANGED <<clients, code_hashes, current_phone, client, auth, overlap>>

Signing(h) == work[h].pc = "signing" /\ client[work[h].client].link = "up"

SigningKey(h) == client[work[h].client].key

\* A password counts once the code was accepted.
SignIn(h) ==
  /\ Signing(h)
  /\ work[h].op = "password" => auth[SigningKey(h)] # "out"
  /\ auth' = [auth EXCEPT ![SigningKey(h)] = "in"]
  /\ code_hashes' = IF work[h].op = "code"
                    THEN code_hashes \ {work[h].phone} ELSE code_hashes
  /\ current_phone' = work[h].phone
  /\ Reply(h, "ok")
  /\ UNCHANGED <<clients, client, overlap>>

PasswordNeeded(h) ==
  /\ Signing(h) /\ work[h].op = "code"
  /\ auth[SigningKey(h)] # "in"
  /\ auth' = [auth EXCEPT ![SigningKey(h)] = "password"]
  /\ Reply(h, "password")
  /\ UNCHANGED <<clients, code_hashes, current_phone, client, overlap>>

Refuse(h) ==
  /\ work[h].pc = "signing"
  /\ Reply(h, "error")
  /\ UNCHANGED <<clients, code_hashes, current_phone, client, auth, overlap>>

\* The session of the client that is registered now.
SaveSession(h) ==
  /\ work[h].pc = "called" /\ work[h].op = "save"
  /\ IF Held(h) = NoClient
     THEN Reply(h, "error")
     ELSE work' = [work EXCEPT ![h].pc = "replied", ![h].reply = "ok",
                               ![h].session = client[Held(h)].key]
  /\ UNCHANGED <<clients, code_hashes, current_phone, client, auth, overlap>>

----------------------------------------------------------------------------
(***************************************************************************)
(* handle_disconnect; what happens to clients and to the process.          *)
(***************************************************************************)
Forgotten(h) ==
  current_phone' =
    IF current_phone = work[h].phone THEN NoPhone ELSE current_phone

\* A plausible bug: the client is taken out of the map and left connected.
DisconnectForgets(h) ==
  /\ work[h].pc = "called" /\ work[h].op = "disconnect"
  /\ Enter(h)
  /\ Hold(h, NoClient)
  /\ code_hashes' = code_hashes \ {work[h].phone}
  /\ Reply(h, "ok") /\ Forgotten(h)
  /\ UNCHANGED <<client, auth>>

Disconnect(h) ==
  /\ work[h].pc = "called" /\ work[h].op = "disconnect"
  /\ Enter(h)
  /\ Hold(h, NoClient)
  /\ code_hashes' = code_hashes \ {work[h].phone}
  /\ IF Held(h) = NoClient
     THEN Reply(h, "ok") /\ Forgotten(h) /\ UNCHANGED client
     ELSE /\ client' = Disconnected(Held(h))
          /\ GoOn(h, "dropped") /\ UNCHANGED current_phone
  /\ UNCHANGED auth

FinishDisconnect(h) ==
  /\ work[h].pc = "dropped" /\ work[h].op = "disconnect"
  /\ Forgotten(h)
  /\ Reply(h, "ok")
  /\ UNCHANGED <<clients, code_hashes, client, auth, overlap>>

\* Telethon gave up reconnecting; nothing in the sidecar notices.
LinkLost(c) ==
  /\ client[c].link = "up"
  /\ client' = [client EXCEPT ![c].link = "down"]
  /\ UNCHANGED <<clients, code_hashes, current_phone, auth, work, overlap>>

\* The process stops (shutdown) or dies: everything but Telegram's memory of
\* the keys is gone, and whoever waits for an answer gets an error.
WorkerStop ==
  /\ clients' = [p \in Phones |-> NoClient]
  /\ code_hashes' = {}
  /\ current_phone' = NoPhone
  /\ client' = [c \in Clients |-> IF client[c].link = "unused" THEN Unused
                                  ELSE [client[c] EXCEPT !.link = "down"]]
  /\ work' = [h \in Handlers |-> IF work[h].pc \in {"idle", "replied"} THEN work[h]
                ELSE [NoWork EXCEPT !.pc = "replied", !.reply = "error",
                        !.op = work[h].op, !.phone = work[h].phone]]
  /\ overlap' = {}
  /\ UNCHANGED auth

HandlerStep(h) ==
  \/ InvalidSession(h) \/ Replace(h) \/ PreviousDropped(h)
  \/ Connect(h) \/ ConnectFails(h) \/ Unwind(h)
  \/ SendCode(h) \/ SendFails(h) \/ NoCodeSent(h)
  \/ Require(h) \/ SignIn(h) \/ PasswordNeeded(h) \/ Refuse(h) \/ SaveSession(h)
  \/ Disconnect(h) \/ FinishDisconnect(h)

WorkerStep ==
  \/ \E h \in Handlers : HandlerStep(h)
  \/ \E c \in Clients : LinkLost(c)
  \/ WorkerStop

\* The sidecar under any caller.
WorkerNext ==
  \/ WorkerStep
  \/ \E h \in Handlers : Answer(h)
  \/ \E h \in Handlers, op \in Ops, p \in Phones, k \in Clients \cup {NoClient} :
        Call(h, op, p, k)

WorkerSpec == WorkerInit /\ [][WorkerNext]_workerVars

----------------------------------------------------------------------------
(***************************************************************************)
(* Properties.                                                             *)
(***************************************************************************)
\* Every variable stays within its type.
WorkerTypeOK ==
  /\ clients \in [Phones -> Clients \cup {NoClient}]
  /\ code_hashes \subseteq Phones
  /\ current_phone \in Phones \cup {NoPhone}
  /\ client \in [Clients -> ClientStates]
  /\ auth \in [Clients -> {"out", "password", "in"}]
  /\ work \in [Handlers -> Works]
  /\ overlap \subseteq Phones

Live(c) == client[c].link \in {"connecting", "up"}

\* No client listens that the sidecar has lost sight of: one that is connected,
\* or about to be, is the one in clients, whatever connects, codes and sign-ins
\* fail, as long as no two handlers of its phone replaced it at once.
NoStrayClient ==
  \A c \in Clients :
     Live(c) => client[c].phone \in overlap \/ clients[client[c].phone] = c

\* docs/telegram-gramjs-to-python-migration.md:157 and worker.py:105: an account
\* is never live in two clients, which would evict each other.
OneLiveClient ==
  \A c, d \in Clients :
     client[c].link = "up" /\ client[d].link = "up"
     /\ client[c].key = client[d].key => c = d
============================================================================
