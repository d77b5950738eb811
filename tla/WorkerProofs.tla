---------------------------- MODULE WorkerProofs ----------------------------
(***************************************************************************)
(* The sidecar keeps sight of its clients, for any number of phones,       *)
(* clients and handlers, and for any caller.                               *)
(***************************************************************************)
EXTENDS TelegramWorker, TLAPS

----------------------------------------------------------------------------
\* What handler h holds at each of its awaits.
WorkOK(h) ==
  /\ work[h] \in Works
  /\ work[h].pc # "idle" => work[h].phone \in Phones /\ work[h].op \in Ops
  /\ work[h].pc \in {"dropping", "connecting", "unwinding", "sending"}
       => work[h].op \in {"start", "connect"}
  /\ work[h].pc = "sending" => work[h].op = "start"
  /\ work[h].pc = "dropped" => work[h].op \in {"start", "disconnect"}
  /\ work[h].pc \in {"connecting", "sending"}
       => /\ work[h].client \in Clients
          /\ client[work[h].client].phone = work[h].phone

\* A client that is connecting has a handler that awaits it.
Awaited(c) ==
  \E g \in Handlers : /\ work[g].pc = "connecting" /\ work[g].client = c
                      /\ work[g].phone = client[c].phone

WorkInv ==
  /\ WorkerTypeOK
  /\ \A h \in Handlers : WorkOK(h)
  /\ \A c \in Clients : /\ client[c].link = "connecting" => Awaited(c)
                        /\ client[c].link # "unused" => client[c].phone \in Phones

\* Of a phone that one handler at a time replaced: who is midway is alone, the
\* client it brings up is the one registered, and while it drops or unwinds one
\* there is no live client.
AloneOn(p) ==
  /\ \A g, h \in Midway(p) : g = h
  /\ \A h \in Midway(p) :
       /\ work[h].pc \in {"connecting", "sending"} => clients[p] = work[h].client
       /\ work[h].pc \in {"dropping", "unwinding", "dropped"}
            => \A c \in Clients : client[c].phone = p => ~Live(c)

AloneInv == \A p \in Phones \ overlap : AloneOn(p)

StrayInv == WorkInv /\ AloneInv /\ NoStrayClient

LEMMA NoWorkType ==
  /\ NoWork \in Works
  /\ NoWork.pc = "idle" /\ NoWork.op = "none" /\ NoWork.phone = NoPhone
  /\ NoWork.session = NoClient /\ NoWork.client = NoClient /\ NoWork.reply = "none"
  BY DEF NoWork, Works, WorkSteps, Replies

LEMMA UnusedType ==
  /\ Unused \in ClientStates
  /\ Unused.link = "unused" /\ Unused.phone = NoPhone /\ Unused.key = NoClient
  BY DEF Unused, ClientStates, Links

LEMMA WorkerInitInv == WorkerInit => StrayInv
<1>1. SUFFICES ASSUME WorkerInit
               PROVE  StrayInv
  OBVIOUS
<1>2. WorkerTypeOK
  BY <1>1, NoWorkType, UnusedType DEF WorkerInit, WorkerTypeOK
<1>3. \A h \in Handlers : WorkOK(h)
  BY <1>1, NoWorkType DEF WorkerInit, WorkOK
<1>4. \A c \in Clients : client[c].link = "unused"
  BY <1>1, UnusedType DEF WorkerInit
<1>5. \A p \in Phones : Midway(p) = {}
  BY <1>1, NoWorkType DEF WorkerInit, Midway
<1>6. QED
  BY <1>2, <1>3, <1>4, <1>5 DEF StrayInv, WorkInv, AloneInv, AloneOn, NoStrayClient, Live

----------------------------------------------------------------------------
(***************************************************************************)
(* What the parts of a step do.                                            *)
(***************************************************************************)
\* Every step of a handler changes the record of that handler only.
Others(h) == \A g \in Handlers \ {h} : work'[g] = work[g]

LEMMA ReplyFacts ==
  ASSUME WorkInv, NEW h \in Handlers, NEW r \in Replies, Reply(h, r)
  PROVE  /\ work' \in [Handlers -> Works] /\ Others(h)
         /\ work'[h].pc = "replied" /\ work'[h].reply = r
         /\ work'[h].op = work[h].op /\ work'[h].phone = work[h].phone
         /\ work'[h].session = NoClient
<1> DEFINE w == [NoWork EXCEPT !.pc = "replied", !.reply = r,
                   !.op = work[h].op, !.phone = work[h].phone]
<1>1. work' = [work EXCEPT ![h] = w]
  BY DEF Reply
<1>2. work[h] \in Works
  BY DEF WorkInv, WorkerTypeOK
<1>3. /\ w \in Works
      /\ w.pc = "replied" /\ w.reply = r /\ w.op = work[h].op /\ w.phone = work[h].phone
      /\ w.session = NoClient
  BY <1>2, NoWorkType DEF Works, WorkSteps
<1>4. QED
  BY <1>1, <1>3 DEF WorkInv, WorkerTypeOK, Others

LEMMA GoOnFacts ==
  ASSUME WorkInv, NEW h \in Handlers, NEW pc \in WorkSteps, GoOn(h, pc)
  PROVE  /\ work' \in [Handlers -> Works] /\ Others(h)
         /\ work'[h].pc = pc /\ work'[h].client = work[h].client
         /\ work'[h].op = work[h].op /\ work'[h].phone = work[h].phone
  BY DEF GoOn, WorkInv, WorkerTypeOK, Others, Works

LEMMA HoldFacts ==
  ASSUME WorkInv, NEW h \in Handlers, work[h].phone \in Phones,
         NEW c \in Clients \cup {NoClient}, Hold(h, c)
  PROVE  /\ clients' \in [Phones -> Clients \cup {NoClient}]
         /\ clients'[work[h].phone] = c
         /\ \A p \in Phones \ {work[h].phone} : clients'[p] = clients[p]
  BY DEF Hold, WorkInv, WorkerTypeOK

LEMMA DisconnectedFacts ==
  ASSUME WorkInv, NEW c \in Clients
  PROVE  /\ Disconnected(c) \in [Clients -> ClientStates]
         /\ Disconnected(c)[c].link # "up"
         /\ Disconnected(c)[c].link = "connecting" => client[c].link = "connecting"
         /\ \A d \in Clients : /\ Disconnected(c)[d].phone = client[d].phone
                               /\ d # c => Disconnected(c)[d] = client[d]
  BY DEF Disconnected, WorkInv, WorkerTypeOK, ClientStates, Links

LEMMA RegisterFacts ==
  ASSUME WorkInv, NEW h \in Handlers, work[h].phone \in Phones, Register(h)
  PROVE  \E c \in Clients :
           /\ client[c] = Unused
           /\ client' \in [Clients -> ClientStates]
           /\ client'[c].link = "connecting" /\ client'[c].phone = work[h].phone
           /\ \A d \in Clients \ {c} : client'[d] = client[d]
           /\ clients' \in [Phones -> Clients \cup {NoClient}]
           /\ clients'[work[h].phone] = c
           /\ \A p \in Phones \ {work[h].phone} : clients'[p] = clients[p]
           /\ work' \in [Handlers -> Works] /\ Others(h)
           /\ work'[h].pc = "connecting" /\ work'[h].client = c
           /\ work'[h].op = work[h].op /\ work'[h].phone = work[h].phone
<1>1. PICK c \in Clients :
     /\ client[c] = Unused
     /\ client' = [client EXCEPT ![c] =
          [link |-> "connecting", phone |-> work[h].phone,
           key |-> IF work[h].op = "start" THEN c ELSE work[h].session]]
     /\ Hold(h, c)
     /\ work' = [work EXCEPT ![h].pc = "connecting", ![h].client = c]
  BY DEF Register
<1>2. work[h] \in Works /\ work[h].session \in Clients \cup {NoClient}
  BY DEF WorkInv, WorkerTypeOK, Works
<1> DEFINE new == [link |-> "connecting", phone |-> work[h].phone,
                   key |-> IF work[h].op = "start" THEN c ELSE work[h].session]
<1>3. new \in ClientStates /\ new.link = "connecting" /\ new.phone = work[h].phone
  BY <1>2 DEF ClientStates, Links
<1>4. /\ client' \in [Clients -> ClientStates] /\ client'[c] = new
      /\ \A d \in Clients \ {c} : client'[d] = client[d]
  BY <1>1, <1>3 DEF WorkInv, WorkerTypeOK
<1>5. /\ work' \in [Handlers -> Works] /\ Others(h)
      /\ work'[h].pc = "connecting" /\ work'[h].client = c
      /\ work'[h].op = work[h].op /\ work'[h].phone = work[h].phone
  BY <1>1, <1>2 DEF WorkInv, WorkerTypeOK, Others, Works, WorkSteps
<1>6. QED
  BY <1>1, <1>3, <1>4, <1>5, HoldFacts

----------------------------------------------------------------------------
(***************************************************************************)
(* The parts of the invariant that every step of a handler keeps.          *)
(***************************************************************************)
LEMMA WorkStepInv ==
  ASSUME WorkInv, NEW h \in Handlers, Others(h), WorkOK(h)', WorkerTypeOK',
         \A d \in Clients : client[d] # Unused => client'[d].phone = client[d].phone,
         \A d \in Clients : client'[d].link = "connecting" =>
           \/ /\ client[d].link = "connecting"
              /\ ~(work[h].pc = "connecting" /\ work[h].client = d)
           \/ /\ work'[h].pc = "connecting" /\ work'[h].client = d
              /\ work'[h].phone = client'[d].phone,
         \A d \in Clients : client'[d].link # "unused" => client'[d].phone \in Phones
  PROVE  WorkInv'
<1>1. ASSUME NEW g \in Handlers \ {h}
      PROVE  WorkOK(g)'
  <2>1. work'[g] = work[g] /\ WorkOK(g)
    BY DEF Others, WorkInv
  <2>2. work[g].pc \in {"connecting", "sending"}
          => client'[work[g].client].phone = client[work[g].client].phone
    BY <2>1, UnusedType, WorkerAssumption DEF WorkOK
  <2>3. QED
    BY <2>1, <2>2 DEF WorkOK
<1>2. ASSUME NEW d \in Clients, client'[d].link = "connecting"
      PROVE  Awaited(d)'
  <2>1. CASE /\ work'[h].pc = "connecting" /\ work'[h].client = d
             /\ work'[h].phone = client'[d].phone
    BY <2>1 DEF Awaited
  <2>2. CASE /\ client[d].link = "connecting"
             /\ ~(work[h].pc = "connecting" /\ work[h].client = d)
    <3>1. PICK g \in Handlers : /\ work[g].pc = "connecting" /\ work[g].client = d
                                /\ work[g].phone = client[d].phone
      BY <2>2 DEF WorkInv, Awaited
    <3>2. g # h /\ work'[g] = work[g]
      BY <2>2, <3>1 DEF Others
    <3>3. client'[d].phone = client[d].phone
      BY <2>2, UnusedType
    <3>4. QED
      BY <3>1, <3>2, <3>3 DEF Awaited
  <2>3. QED
    BY <1>2, <2>1, <2>2
<1>3. QED
  BY <1>1, <1>2 DEF WorkInv

\* A step after which the handler is not midway, and that leaves the clients.
LEMMA PlainInv ==
  ASSUME StrayInv, NEW h \in Handlers, Others(h), WorkOK(h)', WorkerTypeOK',
         UNCHANGED <<clients, client, overlap>>,
         work[h].pc # "connecting", \A p \in Phones : h \notin Midway(p)'
  PROVE  StrayInv'
<1>1. WorkInv'
  BY WorkStepInv DEF StrayInv, WorkInv
<1>2. \A p \in Phones : \A g \in Midway(p)' : g \in Midway(p) /\ work'[g] = work[g]
  BY DEF Midway, Others
<1>3. \A c \in Clients : Live(c)' = Live(c) /\ client'[c] = client[c]
  BY DEF Live
<1>4. AloneInv'
  BY <1>2, <1>3 DEF StrayInv, AloneInv, AloneOn
<1>5. NoStrayClient'
  BY <1>3 DEF StrayInv, NoStrayClient
<1>6. QED
  BY <1>1, <1>4, <1>5 DEF StrayInv

\* Two handlers midway for one phone make it overlap.
LEMMA AloneMidway ==
  ASSUME StrayInv, NEW h \in Handlers, NEW p \in Phones \ overlap, h \in Midway(p)
  PROVE  /\ \A g \in Midway(p) : g = h
         /\ \A g \in Handlers \ {h} : g \notin Midway(p)
  BY DEF StrayInv, AloneInv, AloneOn

\* A client that is connecting belongs to a handler midway.
LEMMA ConnectingIsMidway ==
  ASSUME WorkInv, NEW c \in Clients, client[c].link = "connecting"
  PROVE  \E g \in Midway(client[c].phone) : work[g].pc = "connecting" /\ work[g].client = c
<1>1. PICK g \in Handlers : /\ work[g].pc = "connecting" /\ work[g].client = c
                            /\ work[g].phone = client[c].phone
  BY DEF WorkInv, Awaited
<1>2. work[g].op \in Lifecycle
  BY <1>1 DEF WorkInv, WorkOK, Lifecycle
<1>3. QED
  BY <1>1, <1>2 DEF Midway

\* The steps that end, or begin, a handler without touching a client.
LEMMA PlainSteps ==
  ASSUME StrayInv, NEW h \in Handlers,
         \/ SendCode(h) \/ Require(h) \/ SignIn(h) \/ PasswordNeeded(h) \/ Refuse(h)
         \/ InvalidSession(h) \/ NoCodeSent(h) \/ SaveSession(h) \/ FinishDisconnect(h) \/ Answer(h)
         \/ \E op \in Ops, p \in Phones, k \in Clients \cup {NoClient} : Call(h, op, p, k)
  PROVE  StrayInv'
<1>0. WorkInv /\ work[h] \in Works /\ WorkOK(h)
  BY DEF StrayInv, WorkInv, WorkerTypeOK
<1> DEFINE Facts == /\ work' \in [Handlers -> Works] /\ Others(h)
                    /\ WorkOK(h)' /\ \A p \in Phones : h \notin Midway(p)'
<1>1. ASSUME NEW r \in Replies, Reply(h, r), work[h].pc # "idle"
      PROVE  Facts
  BY <1>0, <1>1, ReplyFacts DEF WorkOK, Midway
<1>2. ASSUME \E op \in Ops, p \in Phones, k \in Clients \cup {NoClient} : Call(h, op, p, k)
      PROVE  Facts
  <2>1. PICK op \in Ops, p \in Phones, k \in Clients \cup {NoClient} : Call(h, op, p, k)
    BY <1>2
  <2> DEFINE w == [NoWork EXCEPT !.pc = "called", !.op = op, !.phone = p, !.session = k]
  <2>2. work' = [work EXCEPT ![h] = w]
    BY <2>1 DEF Call
  <2>3. w \in Works /\ w.pc = "called" /\ w.op = op /\ w.phone = p
    BY NoWorkType DEF Works, WorkSteps
  <2>4. work' \in [Handlers -> Works] /\ Others(h) /\ work'[h] = w
    BY <1>0, <2>2, <2>3 DEF WorkInv, WorkerTypeOK, Others
  <2>5. QED
    BY <2>3, <2>4 DEF WorkOK, Midway
<1>3. ASSUME Answer(h)
      PROVE  Facts
  <2>1. work' \in [Handlers -> Works] /\ Others(h) /\ work'[h] = NoWork
    BY <1>0, <1>3, NoWorkType DEF Answer, WorkInv, WorkerTypeOK, Others
  <2>2. QED
    BY <2>1, NoWorkType DEF WorkOK, Midway
<1>4. ASSUME Require(h)
      PROVE  Facts
  <2>1. "error" \in Replies /\ work[h].pc = "called" /\ work[h].op \in {"code", "password"}
    BY <1>4 DEF Require, Replies
  <2>2. CASE Reply(h, "error")
    BY <1>1, <2>1, <2>2
  <2>3. CASE work' = [work EXCEPT ![h].pc = "signing", ![h].client = Held(h)]
    <3>1. Held(h) \in Clients \cup {NoClient}
      BY <1>0, <2>1 DEF WorkOK, WorkInv, WorkerTypeOK, Held
    <3>2. /\ work' \in [Handlers -> Works] /\ Others(h)
          /\ work'[h].pc = "signing" /\ work'[h].op = work[h].op
          /\ work'[h].phone = work[h].phone
      BY <1>0, <2>3, <3>1 DEF WorkInv, WorkerTypeOK, Others, Works, WorkSteps
    <3>3. QED
      BY <1>0, <2>1, <3>2 DEF WorkOK, Midway, Lifecycle
  <2>4. QED
    BY <1>4, <2>2, <2>3 DEF Require
<1>5. ASSUME SaveSession(h)
      PROVE  Facts
  <2>1. "error" \in Replies /\ work[h].pc = "called"
    BY <1>5 DEF SaveSession, Replies
  <2>2. CASE Reply(h, "error")
    BY <1>1, <2>1, <2>2
  <2>3. CASE /\ Held(h) # NoClient
             /\ work' = [work EXCEPT ![h].pc = "replied", ![h].reply = "ok",
                                    ![h].session = client[Held(h)].key]
    <3>1. Held(h) \in Clients
      BY <1>0, <2>1, <2>3 DEF WorkOK, WorkInv, WorkerTypeOK, Held
    <3>2. client[Held(h)].key \in Clients \cup {NoClient}
      BY <1>0, <3>1 DEF WorkInv, WorkerTypeOK, ClientStates
    <3>3. /\ work' \in [Handlers -> Works] /\ Others(h)
          /\ work'[h].pc = "replied" /\ work'[h].op = work[h].op
          /\ work'[h].phone = work[h].phone
      BY <1>0, <2>3, <3>2 DEF WorkInv, WorkerTypeOK, Others, Works, WorkSteps, Replies
    <3>4. QED
      BY <1>0, <2>1, <3>3 DEF WorkOK, Midway
  <2>4. QED
    BY <1>5, <2>2, <2>3 DEF SaveSession
<1>6. ASSUME \/ SendCode(h) \/ SignIn(h) \/ PasswordNeeded(h) \/ Refuse(h)
             \/ InvalidSession(h) \/ NoCodeSent(h) \/ FinishDisconnect(h)
      PROVE  Facts
  <2>1. \E r \in Replies : Reply(h, r)
    BY <1>6 DEF SendCode, SignIn, PasswordNeeded, Refuse, InvalidSession, NoCodeSent,
        FinishDisconnect, Replies
  <2>2. work[h].pc # "idle"
    BY <1>6 DEF SendCode, SignIn, PasswordNeeded, Signing, Refuse, InvalidSession, NoCodeSent,
        FinishDisconnect
  <2>3. QED
    BY <1>1, <2>1, <2>2
<1>7. Facts
  BY <1>2, <1>3, <1>4, <1>5, <1>6
<1>8. /\ UNCHANGED <<clients, client, overlap>>
      /\ work[h].pc # "connecting"
  BY DEF SendCode, Require, SignIn, PasswordNeeded, Signing, Refuse, InvalidSession,
         NoCodeSent, SaveSession,
         FinishDisconnect, Answer, Call
<1>9. code_hashes' \subseteq Phones /\ current_phone' \in Phones \cup {NoPhone}
  BY <1>0
  DEF SendCode, Require, SignIn, PasswordNeeded, Signing, Refuse, InvalidSession,
         NoCodeSent, SaveSession,
      FinishDisconnect, Forgotten, Answer, Call, WorkOK, WorkInv, WorkerTypeOK
<1>10. auth' \in [Clients -> {"out", "password", "in"}]
  BY <1>0
  DEF SendCode, Require, SignIn, PasswordNeeded, Refuse, InvalidSession,
         NoCodeSent, SaveSession,
      FinishDisconnect, Answer, Call, WorkInv, WorkerTypeOK
<1>11. WorkerTypeOK'
  BY <1>0, <1>7, <1>8, <1>9, <1>10 DEF WorkInv, WorkerTypeOK
<1>12. QED
  BY <1>7, <1>8, <1>11, PlainInv

----------------------------------------------------------------------------
(***************************************************************************)
(* The steps that change the clients of a phone.                           *)
(***************************************************************************)
\* What a handler does for its phone leaves the other phones as they are.
LEMMA PhoneStepInv ==
  ASSUME StrayInv, WorkInv', NEW h \in Handlers, NEW p \in Phones,
         work[h].phone = p, work'[h].phone = p, Others(h),
         overlap \subseteq overlap', overlap' \subseteq overlap \cup {p},
         \A q \in Phones \ {p} : clients'[q] = clients[q],
         \A d \in Clients : client'[d].phone # p /\ Live(d)'
           => Live(d) /\ client'[d].phone = client[d].phone,
         p \notin overlap' => /\ AloneOn(p)'
                            /\ \A d \in Clients : client'[d].phone = p /\ Live(d)'
                                 => clients'[p] = d
  PROVE  StrayInv'
<1>1. ASSUME NEW q \in Phones \ overlap', q # p
      PROVE  AloneOn(q)'
  <2>1. Midway(q)' = Midway(q) /\ \A g \in Midway(q) : work'[g] = work[g]
    BY <1>1 DEF Midway, Others
  <2>2. AloneOn(q)
    BY <1>1 DEF StrayInv, AloneInv
  <2>3. \A d \in Clients : client'[d].phone = q /\ Live(d)' => client[d].phone = q /\ Live(d)
    BY <1>1
  <2>4. clients'[q] = clients[q]
    BY <1>1
  <2>5. QED
    BY <2>1, <2>2, <2>3, <2>4 DEF AloneOn
<1>2. ASSUME NEW d \in Clients, Live(d)', client'[d].phone \notin overlap'
      PROVE  clients'[client'[d].phone] = d
  <2>1. CASE client'[d].phone = p
    BY <1>2, <2>1
  <2>2. CASE client'[d].phone # p
    <3>1. Live(d) /\ client'[d].phone = client[d].phone
      BY <1>2, <2>2
    <3>2. client[d].phone \in Phones \ {p} /\ client[d].phone \notin overlap
      BY <1>2, <2>2, <3>1 DEF Live, StrayInv, WorkInv
    <3>3. clients[client[d].phone] = d
      BY <3>1, <3>2 DEF StrayInv, NoStrayClient
    <3>4. QED
      BY <3>1, <3>2, <3>3
  <2>3. QED
    BY <2>1, <2>2
<1>3. AloneInv'
  BY <1>1 DEF AloneInv
<1>4. NoStrayClient'
  BY <1>2 DEF NoStrayClient
<1>5. QED
  BY <1>3, <1>4 DEF StrayInv

\* A handler that enters a phone alone finds no client but the registered one.
LEMMA EnterFacts ==
  ASSUME StrayInv, NEW h \in Handlers, work[h].phone \in Phones, Enter(h)
  PROVE  LET p == work[h].phone IN
         /\ overlap \subseteq overlap' /\ overlap' \subseteq overlap \cup {p}
         /\ overlap' \subseteq Phones
         /\ p \notin overlap' =>
              /\ p \notin overlap
              /\ \A g \in Handlers : g \notin Midway(p)
              /\ \A d \in Clients : client[d].phone = p
                   => /\ client[d].link # "connecting"
                      /\ Live(d) => clients[p] = d
<1> DEFINE p == work[h].phone
<1>1. overlap \subseteq overlap' /\ overlap' \subseteq overlap \cup {p}
  BY DEF Enter
<1>2. overlap' \subseteq Phones
  BY <1>1 DEF StrayInv, WorkInv, WorkerTypeOK
<1>3. ASSUME p \notin overlap'
      PROVE  /\ p \notin overlap
             /\ \A g \in Handlers : g \notin Midway(p)
             /\ \A d \in Clients : client[d].phone = p
                  => client[d].link # "connecting" /\ (Live(d) => clients[p] = d)
  <2>1. Midway(p) = {} /\ p \notin overlap
    BY <1>3 DEF Enter
  <2>2. \A d \in Clients : client[d].phone = p => client[d].link # "connecting"
    BY <2>1, ConnectingIsMidway DEF StrayInv
  <2>3. \A d \in Clients : client[d].phone = p /\ Live(d) => clients[p] = d
    BY <2>1 DEF StrayInv, NoStrayClient
  <2>4. QED
    BY <2>1, <2>2, <2>3
<1>4. QED
  BY <1>1, <1>2, <1>3

\* Registering a client while there is no live one.
LEMMA RegisterInv ==
  ASSUME StrayInv, NEW h \in Handlers, NEW p \in Phones, work[h].phone = p,
         work[h].op \in {"start", "connect"}, work[h].pc # "connecting", Register(h),
         overlap \subseteq overlap', overlap' \subseteq overlap \cup {p}, overlap' \subseteq Phones,
         UNCHANGED <<code_hashes, current_phone, auth>>,
         p \notin overlap' => /\ \A g \in Handlers \ {h} : g \notin Midway(p)
                            /\ \A d \in Clients : client[d].phone = p => ~Live(d)
  PROVE  StrayInv'
<1>1. PICK c \in Clients :
           /\ client[c] = Unused
           /\ client' \in [Clients -> ClientStates]
           /\ client'[c].link = "connecting" /\ client'[c].phone = p
           /\ \A d \in Clients \ {c} : client'[d] = client[d]
           /\ clients' \in [Phones -> Clients \cup {NoClient}]
           /\ clients'[p] = c
           /\ \A q \in Phones \ {p} : clients'[q] = clients[q]
           /\ work' \in [Handlers -> Works] /\ Others(h)
           /\ work'[h].pc = "connecting" /\ work'[h].client = c
           /\ work'[h].op = work[h].op /\ work'[h].phone = p
  BY RegisterFacts DEF StrayInv
<1>2. WorkerTypeOK'
  BY <1>1 DEF StrayInv, WorkInv, WorkerTypeOK
<1>3. WorkOK(h)'
  BY <1>1 DEF WorkOK, Ops, Lifecycle
<1>4. WorkInv'
  <2>1. \A d \in Clients : client[d] # Unused => client'[d].phone = client[d].phone
    BY <1>1
  <2>2. \A d \in Clients : client'[d].link # "unused" => client'[d].phone \in Phones
    BY <1>1 DEF StrayInv, WorkInv
  <2>3. \A d \in Clients : client'[d].link = "connecting" =>
           \/ /\ client[d].link = "connecting"
              /\ ~(work[h].pc = "connecting" /\ work[h].client = d)
           \/ /\ work'[h].pc = "connecting" /\ work'[h].client = d
              /\ work'[h].phone = client'[d].phone
    BY <1>1
  <2>4. WorkInv
    BY DEF StrayInv
  <2>5. QED
    BY <1>1, <1>2, <1>3, <2>1, <2>2, <2>3, <2>4, WorkStepInv
<1>5. \A d \in Clients : client'[d].phone # p /\ Live(d)'
           => Live(d) /\ client'[d].phone = client[d].phone
  BY <1>1 DEF Live
<1>6. ASSUME p \notin overlap'
      PROVE  AloneOn(p)' /\ \A d \in Clients : client'[d].phone = p /\ Live(d)' => clients'[p] = d
  <2>1. \A g \in Midway(p)' : g = h
    BY <1>1, <1>6 DEF Midway, Others
  <2>2. AloneOn(p)'
    BY <1>1, <2>1 DEF AloneOn
  <2>3. \A d \in Clients \ {c} : client'[d].phone = p => ~Live(d)'
    BY <1>1, <1>6 DEF Live
  <2>4. QED
    BY <1>1, <2>2, <2>3
<1>7. QED
  BY <1>1, <1>4, <1>5, <1>6, PhoneStepInv

LEMMA ReplaceInv ==
  ASSUME StrayInv, NEW h \in Handlers, Replace(h)
  PROVE  StrayInv'
<1> DEFINE p == work[h].phone
           e == Held(h)
<1>1. /\ WorkInv /\ WorkOK(h) /\ p \in Phones
      /\ work[h].pc = "called" /\ work[h].op \in {"start", "connect"} /\ Enter(h)
  BY DEF StrayInv, WorkInv, WorkOK, Replace
<1>2. /\ overlap \subseteq overlap' /\ overlap' \subseteq overlap \cup {p}
      /\ overlap' \subseteq Phones
      /\ p \notin overlap' =>
           /\ p \notin overlap
           /\ \A g \in Handlers : g \notin Midway(p)
           /\ \A d \in Clients : client[d].phone = p
                => client[d].link # "connecting" /\ (Live(d) => clients[p] = d)
  BY <1>1, EnterFacts
<1>3. e \in Clients \cup {NoClient} /\ e = clients[p]
  BY <1>1 DEF WorkInv, WorkerTypeOK, Held
<1>4. CASE e = NoClient
  <2>1. p \notin overlap' => \A d \in Clients : client[d].phone = p => ~Live(d)
    BY <1>2, <1>3, <1>4, WorkerAssumption
  <2>2. Register(h)
    BY <1>4 DEF Replace
  <2>3. UNCHANGED <<code_hashes, current_phone, auth>>
    BY DEF Replace
  <2>4. QED
    BY <1>1, <1>2, <2>1, <2>2, <2>3, RegisterInv
<1>5. CASE e # NoClient
  <2>1. /\ client' = Disconnected(e) /\ e \in Clients
        /\ work' = [work EXCEPT ![h].pc = "dropping", ![h].client = e]
        /\ UNCHANGED <<clients, code_hashes, current_phone, auth>>
    BY <1>3, <1>5 DEF Replace
  <2>2. /\ client' \in [Clients -> ClientStates]
        /\ client'[e].link # "up"
        /\ client'[e].link = "connecting" => client[e].link = "connecting"
        /\ \A d \in Clients : /\ client'[d].phone = client[d].phone
                              /\ d # e => client'[d] = client[d]
    BY <1>1, <2>1, DisconnectedFacts
  <2>3. /\ work' \in [Handlers -> Works] /\ Others(h)
        /\ work'[h].pc = "dropping" /\ work'[h].op = work[h].op /\ work'[h].phone = p
    BY <1>1, <2>1 DEF WorkInv, WorkerTypeOK, Others, Works, WorkSteps
  <2>4. WorkerTypeOK'
    BY <1>1, <1>2, <2>1, <2>2, <2>3 DEF WorkInv, WorkerTypeOK
  <2>5. WorkOK(h)'
    BY <1>1, <2>3 DEF WorkOK, Ops, Lifecycle
  <2>6. \A d \in Clients : client'[d].link # "unused" => client[d].link # "unused"
    BY <2>1, <2>2 DEF Disconnected
  <2>7. WorkInv'
    BY <1>1, <2>2, <2>3, <2>4, <2>5, <2>6, WorkStepInv DEF WorkInv
  <2>8. \A d \in Clients : Live(d)' => Live(d) /\ (d = e => client[d].link = "connecting")
    BY <2>2 DEF Live
  <2>9. ASSUME p \notin overlap'
        PROVE  AloneOn(p)' /\ \A d \in Clients : client'[d].phone = p /\ Live(d)' => clients'[p] = d
    <3>1. \A d \in Clients : client'[d].phone = p => ~Live(d)'
      BY <1>2, <1>3, <2>2, <2>8, <2>9
    <3>2. \A g \in Midway(p)' : g = h
      BY <1>2, <2>3, <2>9 DEF Midway, Others
    <3>3. AloneOn(p)'
      BY <2>3, <3>1, <3>2 DEF AloneOn
    <3>4. QED
      BY <3>1, <3>3
  <2>10. \A q \in Phones : clients'[q] = clients[q]
    BY <2>1
  <2>11. QED
    BY <1>1, <1>2, <2>2, <2>3, <2>7, <2>8, <2>9, <2>10, PhoneStepInv
<1>6. QED
  BY <1>4, <1>5

LEMMA PreviousDroppedInv ==
  ASSUME StrayInv, NEW h \in Handlers, PreviousDropped(h)
  PROVE  StrayInv'
<1> DEFINE p == work[h].phone
<1>1. /\ work[h].pc = "dropping" /\ work[h].op \in {"start", "connect"} /\ p \in Phones
      /\ Register(h) /\ UNCHANGED <<code_hashes, current_phone, auth, overlap>>
  BY DEF StrayInv, WorkInv, WorkOK, PreviousDropped
<1>2. h \in Midway(p)
  BY <1>1 DEF Midway, Lifecycle
<1>3. p \notin overlap => /\ \A g \in Handlers \ {h} : g \notin Midway(p)
                         /\ \A d \in Clients : client[d].phone = p => ~Live(d)
  BY <1>1, <1>2, AloneMidway DEF StrayInv, AloneInv, AloneOn
<1>4. overlap \subseteq Phones
  BY DEF StrayInv, WorkInv, WorkerTypeOK
<1>5. QED
  BY <1>1, <1>3, <1>4, RegisterInv

\* The link of the client that a handler awaits comes up or fails.
LEMMA ConnectInv ==
  ASSUME StrayInv, NEW h \in Handlers, Connect(h) \/ ConnectFails(h)
  PROVE  StrayInv'
<1>a. PICK p \in Phones, c \in Clients : p = work[h].phone /\ c = work[h].client
  BY DEF StrayInv, WorkInv, WorkOK, Connect, ConnectFails
<1>1. /\ WorkInv /\ WorkOK(h)
      /\ work[h].pc = "connecting" /\ work[h].op \in {"start", "connect"}
      /\ client[c].phone = p
      /\ UNCHANGED <<clients, code_hashes, auth, overlap>>
      /\ current_phone' \in Phones \cup {NoPhone}
  BY <1>a DEF StrayInv, WorkInv, WorkOK, WorkerTypeOK, Connect, ConnectFails
<1>2. h \in Midway(p)
  BY <1>a, <1>1 DEF Midway, Lifecycle
<1>3. /\ client' \in [Clients -> ClientStates]
      /\ client'[c].link = (IF Connect(h) THEN "up" ELSE "down")
      /\ \A d \in Clients : /\ client'[d].phone = client[d].phone
                            /\ d # c => client'[d] = client[d]
  BY <1>a, <1>1 DEF Connect, ConnectFails, WorkInv, WorkerTypeOK, ClientStates, Links
<1>4. /\ work' \in [Handlers -> Works] /\ Others(h)
      /\ work'[h].op = work[h].op /\ work'[h].phone = p
      /\ \/ work'[h].pc = "sending" /\ work'[h].client = c /\ Connect(h) /\ work[h].op = "start"
         \/ work'[h].pc = "replied"
         \/ work'[h].pc = "unwinding" /\ client'[c].link = "down"
  <2>1. "sending" \in WorkSteps /\ "unwinding" \in WorkSteps /\ "ok" \in Replies
    BY DEF WorkSteps, Replies
  <2>2. \/ GoOn(h, "sending") /\ Connect(h) /\ work[h].op = "start"
        \/ Reply(h, "ok")
        \/ GoOn(h, "unwinding") /\ client'[c].link = "down"
    BY <1>a, <1>1 DEF Connect, ConnectFails, WorkInv, WorkerTypeOK, ClientStates
  <2>3. QED
    BY <1>a, <1>1, <2>1, <2>2, GoOnFacts, ReplyFacts
<1>5. WorkerTypeOK'
  BY <1>a, <1>1, <1>3, <1>4 DEF WorkInv, WorkerTypeOK
<1>6. WorkOK(h)'
  BY <1>a, <1>1, <1>3, <1>4 DEF WorkOK, Ops, Lifecycle
<1>7. WorkInv'
  <2>1. \A d \in Clients : client'[d].link # "unused" => client'[d].phone \in Phones
    BY <1>a, <1>1, <1>3 DEF WorkInv
  <2>2. \A d \in Clients : client'[d].link = "connecting" => client[d].link = "connecting" /\ d # c
    BY <1>3
  <2>3. QED
    BY <1>a, <1>1, <1>3, <1>4, <1>5, <1>6, <2>1, <2>2, WorkStepInv
<1>8. \A d \in Clients : client'[d].phone # p /\ Live(d)'
           => Live(d) /\ client'[d].phone = client[d].phone
  BY <1>a, <1>1, <1>3 DEF Live
<1>9. ASSUME p \notin overlap'
      PROVE  AloneOn(p)' /\ \A d \in Clients : client'[d].phone = p /\ Live(d)' => clients'[p] = d
  <2>1. clients'[p] = c /\ p \notin overlap
    BY <1>a, <1>1, <1>2, <1>9 DEF StrayInv, AloneInv, AloneOn
  <2>2. \A g \in Handlers \ {h} : g \notin Midway(p)
    BY <1>2, <2>1, AloneMidway
  <2>3. \A g \in Midway(p)' : g = h
    BY <1>4, <2>2 DEF Midway, Others
  <2>4. \A d \in Clients : client'[d].phone = p /\ Live(d)' => d = c
    <3>1. \A d \in Clients \ {c} : client'[d].phone = p /\ Live(d)' => clients[p] = d
      BY <1>3, <2>1 DEF Live, StrayInv, NoStrayClient
    <3>2. QED
      BY <1>a, <1>1, <2>1, <3>1
  <2>5. work'[h].pc = "unwinding" => ~Live(c)'
    BY <1>1, <1>3, <1>4 DEF Live
  <2>6. AloneOn(p)'
    BY <1>4, <2>1, <2>3, <2>4, <2>5 DEF AloneOn
  <2>7. QED
    BY <2>1, <2>4, <2>6
<1>10. QED
  BY <1>a, <1>1, <1>4, <1>7, <1>8, <1>9, PhoneStepInv

\* A handler forgets the client of its phone when none is live, or drops the
\* registered one; it ends, or has only its answer to give.
LEMMA ForgetInv ==
  ASSUME StrayInv, NEW h \in Handlers, NEW p \in Phones, NEW e \in Clients \cup {NoClient},
         work[h].phone = p, work[h].pc \notin {"idle", "connecting"},
         Hold(h, NoClient),
         client' = (IF e = NoClient THEN client ELSE Disconnected(e)),
         work' \in [Handlers -> Works], Others(h), work'[h].phone = p,
         work'[h].op = work[h].op,
         \/ work'[h].pc = "replied"
         \/ work'[h].pc = "dropped" /\ work[h].op \in {"start", "disconnect"},
         overlap \subseteq overlap', overlap' \subseteq overlap \cup {p}, overlap' \subseteq Phones,
         code_hashes' \subseteq Phones, current_phone' \in Phones \cup {NoPhone}, auth' = auth,
         p \notin overlap' =>
           /\ \A g \in Handlers \ {h} : g \notin Midway(p)
           /\ \A d \in Clients : client[d].phone = p /\ Live(d)
                => d = e /\ client[d].link # "connecting"
  PROVE  StrayInv'
<1>1. WorkInv /\ WorkOK(h)
  BY DEF StrayInv, WorkInv
<1>2. /\ client' \in [Clients -> ClientStates]
      /\ e \in Clients => /\ client'[e].link # "up"
                          /\ client'[e].link = "connecting" => client[e].link = "connecting"
      /\ \A d \in Clients : /\ client'[d].phone = client[d].phone
                            /\ d # e => client'[d] = client[d]
  <2>1. CASE e = NoClient
    BY <1>1, <2>1, WorkerAssumption DEF WorkInv, WorkerTypeOK
  <2>2. CASE e # NoClient
    BY <1>1, <2>2, DisconnectedFacts
  <2>3. QED
    BY <2>1, <2>2
<1>3. /\ clients' \in [Phones -> Clients \cup {NoClient}]
      /\ \A q \in Phones \ {p} : clients'[q] = clients[q]
  BY <1>1, HoldFacts
<1>4. WorkerTypeOK'
  BY <1>1, <1>2, <1>3 DEF WorkInv, WorkerTypeOK
<1>5. WorkOK(h)'
  BY <1>1 DEF WorkOK
<1>6. \A d \in Clients : Live(d)' => Live(d) /\ (d = e => client[d].link = "connecting")
  BY <1>2 DEF Live
<1>7. \A d \in Clients : client'[d].link = "connecting" => client[d].link = "connecting"
  BY <1>2
<1>8. \A d \in Clients : client'[d].link # "unused" => client[d].link # "unused"
  BY <1>1, <1>2 DEF Disconnected
<1>9. WorkInv'
  BY <1>1, <1>2, <1>4, <1>5, <1>7, <1>8, WorkStepInv DEF WorkInv
<1>10. ASSUME p \notin overlap'
       PROVE  AloneOn(p)' /\ \A d \in Clients : client'[d].phone = p /\ Live(d)' => clients'[p] = d
  <2>1. \A d \in Clients : client'[d].phone = p => ~Live(d)'
    BY <1>2, <1>6, <1>10
  <2>2. \A g \in Midway(p)' : g = h
    BY <1>10 DEF Midway, Others
  <2>3. AloneOn(p)'
    BY <2>1, <2>2 DEF AloneOn
  <2>4. QED
    BY <2>1, <2>3
<1>11. QED
  BY <1>2, <1>3, <1>6, <1>9, <1>10, PhoneStepInv

LEMMA UnwindInv ==
  ASSUME StrayInv, NEW h \in Handlers, Unwind(h)
  PROVE  StrayInv'
<1>1. PICK p \in Phones : p = work[h].phone
  BY DEF StrayInv, WorkInv, WorkOK, Unwind
<1>2. /\ WorkInv /\ work[h].pc = "unwinding" /\ h \in Midway(p)
      /\ "error" \in Replies
  BY <1>1 DEF StrayInv, WorkInv, WorkOK, Unwind, Midway, Lifecycle, Replies
<1>3. p \notin overlap => /\ \A g \in Handlers \ {h} : g \notin Midway(p)
                         /\ \A d \in Clients : client[d].phone = p => ~Live(d)
  BY <1>2, AloneMidway DEF StrayInv, AloneInv, AloneOn
<1>4. /\ work' \in [Handlers -> Works] /\ Others(h)
      /\ work'[h].pc = "replied" /\ work'[h].op = work[h].op /\ work'[h].phone = p
  BY <1>1, <1>2, ReplyFacts DEF Unwind
<1>5. /\ code_hashes' \subseteq Phones /\ current_phone' \in Phones \cup {NoPhone}
      /\ overlap' \subseteq Phones /\ overlap' = overlap /\ auth' = auth /\ client' = client
      /\ Hold(h, NoClient)
  BY <1>2 DEF Unwind, WorkInv, WorkerTypeOK
<1>6. QED
  BY <1>1, <1>2, <1>3, <1>4, <1>5, ForgetInv

LEMMA SendFailsInv ==
  ASSUME StrayInv, NEW h \in Handlers, SendFails(h)
  PROVE  StrayInv'
<1>1. PICK p \in Phones, c \in Clients : p = work[h].phone /\ c = work[h].client
  BY DEF StrayInv, WorkInv, WorkOK, SendFails
<1>2. /\ WorkInv /\ work[h].pc = "sending" /\ h \in Midway(p)
      /\ client[c].phone = p /\ "dropped" \in WorkSteps
  BY <1>1 DEF StrayInv, WorkInv, WorkOK, SendFails, Midway, Lifecycle, WorkSteps
<1>3. ASSUME p \notin overlap
      PROVE  /\ \A g \in Handlers \ {h} : g \notin Midway(p)
             /\ \A d \in Clients : client[d].phone = p /\ Live(d)
                  => d = c /\ client[d].link # "connecting"
  <2>1. \A g \in Handlers \ {h} : g \notin Midway(p)
    BY <1>2, <1>3, AloneMidway
  <2>2. clients[p] = c
    BY <1>1, <1>2, <1>3 DEF StrayInv, AloneInv, AloneOn
  <2>3. \A d \in Clients : client[d].phone = p => client[d].link # "connecting"
    <3>1. SUFFICES ASSUME NEW d \in Clients, client[d].phone = p,
                          client[d].link = "connecting"
                   PROVE  FALSE
      OBVIOUS
    <3>2. PICK g \in Midway(p) : work[g].pc = "connecting"
      BY <1>2, <3>1, ConnectingIsMidway
    <3>3. QED
      BY <1>2, <2>1, <3>2 DEF Midway
  <2>4. QED
    BY <1>3, <2>1, <2>2, <2>3 DEF StrayInv, NoStrayClient
<1>4. /\ work' \in [Handlers -> Works] /\ Others(h)
      /\ work'[h].pc = "dropped" /\ work'[h].op = work[h].op /\ work'[h].phone = p
      /\ work[h].op = "start"
  BY <1>1, <1>2, GoOnFacts DEF SendFails, WorkInv, WorkOK
<1>5. /\ code_hashes' \subseteq Phones /\ current_phone' \in Phones \cup {NoPhone}
      /\ overlap' \subseteq Phones /\ overlap' = overlap /\ auth' = auth
      /\ client' = Disconnected(c) /\ c # NoClient /\ Hold(h, NoClient)
  BY <1>1, <1>2, WorkerAssumption DEF SendFails, WorkInv, WorkerTypeOK
<1>6. QED
  BY <1>1, <1>2, <1>3, <1>4, <1>5, ForgetInv

LEMMA DisconnectInv ==
  ASSUME StrayInv, NEW h \in Handlers, Disconnect(h)
  PROVE  StrayInv'
<1>1. /\ WorkInv /\ WorkOK(h) /\ work[h].pc = "called" /\ work[h].op = "disconnect"
      /\ Enter(h) /\ Hold(h, NoClient) /\ auth' = auth
      /\ "ok" \in Replies /\ "dropped" \in WorkSteps
  BY DEF StrayInv, WorkInv, Disconnect, Replies, WorkSteps
<1>2. PICK p \in Phones, e \in Clients \cup {NoClient} : p = work[h].phone /\ e = Held(h)
  BY <1>1 DEF WorkOK, WorkInv, WorkerTypeOK, Held
<1>3. /\ overlap \subseteq overlap' /\ overlap' \subseteq overlap \cup {p}
      /\ overlap' \subseteq Phones
      /\ p \notin overlap' =>
           /\ \A g \in Handlers \ {h} : g \notin Midway(p)
           /\ \A d \in Clients : client[d].phone = p /\ Live(d)
                => d = e /\ client[d].link # "connecting"
  BY <1>1, <1>2, EnterFacts DEF Held
<1>4. client' = (IF e = NoClient THEN client ELSE Disconnected(e))
  BY <1>2 DEF Disconnect
<1>5. /\ code_hashes' \subseteq Phones /\ current_phone' \in Phones \cup {NoPhone}
  BY <1>1 DEF Disconnect, Forgotten, WorkInv, WorkerTypeOK
<1>6. /\ work' \in [Handlers -> Works] /\ Others(h) /\ work'[h].phone = p
      /\ work'[h].op = work[h].op
      /\ \/ work'[h].pc = "replied"
         \/ work'[h].pc = "dropped" /\ work[h].op \in {"start", "disconnect"}
  <2>1. Reply(h, "ok") \/ GoOn(h, "dropped")
    BY DEF Disconnect
  <2>2. QED
    BY <1>1, <1>2, <2>1, ReplyFacts, GoOnFacts
<1>7. QED
  BY <1>1, <1>2, <1>3, <1>4, <1>5, <1>6, ForgetInv

----------------------------------------------------------------------------
(***************************************************************************)
(* Steps of no handler.                                                    *)
(***************************************************************************)
LEMMA LinkLostInv ==
  ASSUME StrayInv, NEW c \in Clients, LinkLost(c)
  PROVE  StrayInv'
<1>1. /\ client' \in [Clients -> ClientStates] /\ client'[c].link = "down"
      /\ client[c].link = "up"
      /\ \A d \in Clients : /\ client'[d].phone = client[d].phone
                            /\ d # c => client'[d] = client[d]
  BY DEF LinkLost, StrayInv, WorkInv, WorkerTypeOK, ClientStates, Links
<1>2. UNCHANGED <<clients, code_hashes, current_phone, auth, work, overlap>>
  BY DEF LinkLost
<1>3. WorkerTypeOK'
  BY <1>1, <1>2 DEF StrayInv, WorkInv, WorkerTypeOK
<1>4. \A h \in Handlers : WorkOK(h)'
  BY <1>1, <1>2 DEF StrayInv, WorkInv, WorkOK
<1>5. \A d \in Clients : /\ client'[d].link = "connecting" => Awaited(d)'
                         /\ client'[d].link # "unused" => client'[d].phone \in Phones
  BY <1>1, <1>2 DEF StrayInv, WorkInv, Awaited
<1>6. \A d \in Clients : Live(d)' => Live(d)
  BY <1>1 DEF Live
<1>7. \A p \in Phones : Midway(p)' = Midway(p)
  BY <1>2 DEF Midway
<1>8. \A p \in Phones : AloneOn(p) => AloneOn(p)'
  BY <1>1, <1>2, <1>6, <1>7 DEF AloneOn
<1>9. AloneInv'
  BY <1>2, <1>8 DEF StrayInv, AloneInv
<1>10. NoStrayClient'
  <2>1. SUFFICES ASSUME NEW d \in Clients, Live(d)'
                 PROVE  client'[d].phone \in overlap \/ clients[client'[d].phone] = d
    BY <1>2 DEF NoStrayClient
  <2>2. Live(d) /\ client'[d].phone = client[d].phone
    BY <1>1, <1>6, <2>1
  <2>3. QED
    BY <2>2 DEF StrayInv, NoStrayClient
<1>11. WorkInv'
  BY <1>3, <1>4, <1>5 DEF WorkInv
<1>12. QED
  BY <1>9, <1>10, <1>11 DEF StrayInv

LEMMA WorkerStopInv ==
  ASSUME StrayInv, WorkerStop
  PROVE  StrayInv'
<1>1. ASSUME NEW c \in Clients
      PROVE  /\ client'[c] \in ClientStates
             /\ client'[c].link \in {"unused", "down"}
             /\ client'[c].link # "unused" => client'[c].phone \in Phones
  <2>1. client[c] \in ClientStates
    BY DEF StrayInv, WorkInv, WorkerTypeOK
  <2>2. CASE client[c].link = "unused"
    BY <2>2, UnusedType DEF WorkerStop
  <2>3. CASE client[c].link # "unused"
    <3>1. client'[c] = [client[c] EXCEPT !.link = "down"]
      BY <2>3 DEF WorkerStop
    <3>2. client[c].phone \in Phones
      BY <2>3 DEF StrayInv, WorkInv
    <3>3. QED
      BY <2>1, <3>1, <3>2 DEF ClientStates, Links
  <2>4. QED
    BY <2>2, <2>3
<1>2. ASSUME NEW h \in Handlers
      PROVE  /\ work'[h] \in Works /\ work'[h].pc \in {"idle", "replied"}
             /\ work'[h].pc # "idle" => work'[h].phone \in Phones /\ work'[h].op \in Ops
  <2>1. work[h] \in Works /\ WorkOK(h)
    BY DEF StrayInv, WorkInv, WorkerTypeOK
  <2>2. CASE work[h].pc \in {"idle", "replied"}
    BY <2>1, <2>2 DEF WorkerStop, WorkOK
  <2>3. CASE work[h].pc \notin {"idle", "replied"}
    <3>1. work'[h] = [NoWork EXCEPT !.pc = "replied", !.reply = "error",
                        !.op = work[h].op, !.phone = work[h].phone]
      BY <2>3 DEF WorkerStop
    <3>2. QED
      BY <2>1, <2>3, <3>1, NoWorkType DEF WorkOK, Works, WorkSteps, Replies
  <2>4. QED
    BY <2>2, <2>3
<1>3. WorkerTypeOK'
  <2>1. client' \in [Clients -> ClientStates]
    BY <1>1 DEF WorkerStop
  <2>2. work' \in [Handlers -> Works]
    BY <1>2 DEF WorkerStop
  <2>3. QED
    BY <2>1, <2>2 DEF WorkerStop, StrayInv, WorkInv, WorkerTypeOK
<1>4. \A h \in Handlers : WorkOK(h)'
  BY <1>2 DEF WorkOK
<1>5. \A c \in Clients : ~Live(c)'
  BY <1>1 DEF Live
<1>6. WorkInv'
  BY <1>1, <1>3, <1>4 DEF WorkInv
<1>7. AloneInv'
  BY <1>2 DEF AloneInv, AloneOn, Midway
<1>8. QED
  BY <1>5, <1>6, <1>7 DEF StrayInv, NoStrayClient

----------------------------------------------------------------------------
(***************************************************************************)
(* The theorems.                                                           *)
(***************************************************************************)
LEMMA WorkerStepInv ==
  ASSUME StrayInv, [WorkerNext]_workerVars
  PROVE  StrayInv'
<1>1. CASE UNCHANGED workerVars
  BY <1>1 DEF workerVars, StrayInv, WorkInv, WorkerTypeOK, WorkOK, Awaited, AloneInv,
              AloneOn, Midway, NoStrayClient, Live
<1>2. ASSUME NEW h \in Handlers, HandlerStep(h)
      PROVE  StrayInv'
  BY <1>2, ReplaceInv, PreviousDroppedInv, ConnectInv, UnwindInv, SendFailsInv,
     DisconnectInv, PlainSteps DEF HandlerStep
<1>3. ASSUME NEW h \in Handlers, Answer(h)
      PROVE  StrayInv'
  BY <1>3, PlainSteps
<1>4. ASSUME NEW h \in Handlers, NEW op \in Ops, NEW p \in Phones,
             NEW k \in Clients \cup {NoClient}, Call(h, op, p, k)
      PROVE  StrayInv'
  BY <1>4, PlainSteps
<1>5. ASSUME NEW c \in Clients, LinkLost(c)
      PROVE  StrayInv'
  BY <1>5, LinkLostInv
<1>6. CASE WorkerStop
  BY <1>6, WorkerStopInv
<1>7. QED
  BY <1>1, <1>2, <1>3, <1>4, <1>5, <1>6 DEF WorkerNext, WorkerStep

\* The sidecar keeps its variables within their types.
THEOREM WorkerTypeCorrect == WorkerSpec => []WorkerTypeOK
<1>1. StrayInv => WorkerTypeOK
  BY DEF StrayInv, WorkInv
<1>2. QED
  BY <1>1, WorkerInitInv, WorkerStepInv, PTL DEF WorkerSpec

\* Under any caller, a live client of a phone whose handlers ran one at a time
\* is the one the sidecar has registered for it.
THEOREM WorkerNoStrayClient == WorkerSpec => []NoStrayClient
<1>1. StrayInv => NoStrayClient
  BY DEF StrayInv
<1>2. QED
  BY <1>1, WorkerInitInv, WorkerStepInv, PTL DEF WorkerSpec
=============================================================================
