---------------------------- MODULE SignInProofs ----------------------------
(***************************************************************************)
(* The session of a connected account has signed in, for any number of     *)
(* phones, tabs, accounts and clients: between the sign-in and the store   *)
(* there are three requests, and save-session takes whatever client is     *)
(* registered by then.  A phone that can be heard is known to be connected *)
(* once nothing is under way for it, and its session is live only once.    *)
(***************************************************************************)
EXTENDS TelegramProofs

----------------------------------------------------------------------------
SignedKey(k) == k \in Clients /\ auth[k] = "in"

\* What a handler holds is a key, or the client whose key it signs in.
WorkKeys(h) ==
  /\ work[h].op = "connect" /\ work[h].pc = "dropping"
       => work[h].session \in Clients
  /\ work[h].op = "save" /\ work[h].pc = "replied" /\ work[h].reply = "ok"
       => work[h].session \in Clients
  /\ work[h].pc = "signing" => /\ work[h].client \in Clients
                               /\ work[h].op \in {"code", "password"}

KeysInv ==
  /\ \A c \in Clients : IF client[c].link = "unused" THEN client[c].phone = NoPhone
                          ELSE client[c].key \in Clients
  /\ \A p \in Phones : clients[p] # NoClient => client[clients[p]].link # "unused"
  /\ \A h \in Handlers : WorkKeys(h)

\* Telegram does not forget a sign-in and a client does not change its key.
KeysStable ==
  /\ \A k \in Clients : auth[k] = "in" => auth'[k] = "in"
  /\ \A c \in Clients : client[c].link # "unused" =>
       client'[c].link # "unused" /\ client'[c].key = client[c].key

\* The client of the phone, if there still is one, has signed in.
HeldSigned(p) == clients[p] = NoClient \/ SignedKey(client[clients[p]].key)

\* h has signed the client of its phone in, or is asked for its session.
SignsIn(h) ==
  \/ work[h].op \in {"code", "password"} /\ work[h].pc = "replied" /\ work[h].reply = "ok"
  \/ work[h].op = "save" /\ work[h].pc = "called"

\* A handler that a login awaits, of a phone that nobody else works on.
AskedOK(h) ==
  /\ work[h].op \in {"code", "password", "save"}
  /\ work[h].pc = "signing" => clients[work[h].phone] = work[h].client
  /\ SignsIn(h) => HeldSigned(work[h].phone)
  /\ work[h].op = "save" /\ work[h].pc = "replied" /\ work[h].reply = "ok"
       => SignedKey(work[h].session)

SignOK(r) ==
  /\ api[r].pc \in {"find", "write"} => api[r].session \in Clients
  /\ api[r].op \in {"code", "password"} /\ api[r].phone \notin contended =>
       /\ api[r].pc \in {"find", "write"} => SignedKey(api[r].session)
       /\ api[r].pc = "asked" => AskedOK(api[r].via)

RowSigned(a) ==
  account[a].connected =>
    \/ account[a].session = NoClient
    \/ account[a].phone \in contended \/ SignedKey(account[a].session)

SignInv == (\A r \in Requests : SignOK(r)) /\ (\A a \in Accounts : RowSigned(a))

----------------------------------------------------------------------------
(***************************************************************************)
(* The keys in the sidecar.                                                *)
(***************************************************************************)
LEMMA KeysKept ==
  ASSUME KeysInv, NEW h \in Handlers, Others(h), WorkKeys(h)', KeysStable,
         \A c \in Clients : client[c].link = "unused" => client'[c] = client[c],
         \A p \in Phones : clients'[p] \in {clients[p], NoClient},
         \A p \in Phones : clients[p] \in Clients \cup {NoClient}
  PROVE  KeysInv'
<1>1. \A g \in Handlers : WorkKeys(g)'
  BY DEF KeysInv, WorkKeys, Others
<1>2. \A c \in Clients : IF client'[c].link = "unused" THEN client'[c].phone = NoPhone
                          ELSE client'[c].key \in Clients
  BY DEF KeysInv, KeysStable
<1>3. \A p \in Phones : clients'[p] # NoClient => client'[clients'[p]].link # "unused"
  BY DEF KeysInv, KeysStable
<1>4. QED
  BY <1>1, <1>2, <1>3 DEF KeysInv

LEMMA RegisterKeys ==
  ASSUME WorkInv, KeysInv, NEW h \in Handlers, work[h].phone \in Phones, Register(h),
         work[h].op \in {"start", "connect"}, auth' = auth,
         work[h].op = "connect" => work[h].session \in Clients
  PROVE  KeysInv' /\ KeysStable
<1>1. PICK c \in Clients :
        /\ client[c] = Unused
        /\ client' = [client EXCEPT ![c] =
             [link |-> "connecting", phone |-> work[h].phone,
              key |-> IF work[h].op = "start" THEN c ELSE work[h].session]]
        /\ Hold(h, c)
        /\ work' = [work EXCEPT ![h].pc = "connecting", ![h].client = c]
  BY DEF Register
<1>2. work[h] \in Works
  BY DEF WorkInv, WorkerTypeOK
<1>3. Others(h) /\ work'[h].pc = "connecting"
  BY <1>1, <1>2 DEF WorkInv, WorkerTypeOK, Others, Works
<1>4. /\ client'[c].link = "connecting" /\ client'[c].key \in Clients
      /\ \A d \in Clients \ {c} : client'[d] = client[d]
  BY <1>1 DEF WorkInv, WorkerTypeOK
<1>5. /\ clients'[work[h].phone] = c
      /\ \A p \in Phones \ {work[h].phone} : clients'[p] = clients[p]
  BY <1>1, HoldFacts
<1>6. KeysStable
  BY <1>1, <1>4, UnusedType DEF KeysStable
<1>7. \A g \in Handlers : WorkKeys(g)'
  BY <1>3 DEF KeysInv, WorkKeys, Others
<1>8. \A d \in Clients : IF client'[d].link = "unused" THEN client'[d].phone = NoPhone
                          ELSE client'[d].key \in Clients
  BY <1>4 DEF KeysInv
<1>9. ASSUME NEW p \in Phones, clients'[p] # NoClient
      PROVE  client'[clients'[p]].link # "unused"
  <2>1. CASE p = work[h].phone
    BY <1>4, <1>5, <2>1
  <2>2. CASE p # work[h].phone
    BY <1>5, <1>6, <1>9, <2>2 DEF KeysInv, KeysStable, WorkInv, WorkerTypeOK
  <2>3. QED
    BY <2>1, <2>2
<1>10. QED
  BY <1>6, <1>7, <1>8, <1>9 DEF KeysInv

LEMMA HandlerKeys ==
  ASSUME WorkInv, KeysInv, NEW h \in Handlers, HandlerStep(h)
  PROVE  /\ KeysInv' /\ KeysStable /\ Others(h)
         /\ \A p \in Phones \ {work[h].phone} : clients'[p] = clients[p]
<1>0. /\ work[h] \in Works /\ WorkOK(h) /\ WorkerTypeOK
      /\ \A p \in Phones : clients[p] \in Clients \cup {NoClient}
      /\ {"ok", "error", "password"} \subseteq Replies
      /\ {"sending", "unwinding", "dropped"} \subseteq WorkSteps
  BY DEF WorkInv, WorkerTypeOK, Replies, WorkSteps
<1>1. work[h].phone \in Phones /\ work[h].pc # "replied"
  BY <1>0 DEF HandlerStep, InvalidSession, NoCodeSent, Replace, PreviousDropped,
       Connect, ConnectFails, Unwind,
       SendCode, SendFails, Require, SignIn, PasswordNeeded, Signing, Refuse, SaveSession,
       Disconnect, FinishDisconnect, WorkOK
<1> DEFINE Ends == \E r \in Replies : Reply(h, r) /\ (work[h].op = "save" => r # "ok")
           Goes == \E pc \in {"sending", "unwinding", "dropped"} : GoOn(h, pc)
           Keeps == clients' = clients \/ Hold(h, NoClient)
<1>2. ASSUME Ends \/ Goes
      PROVE  Others(h) /\ WorkKeys(h)'
  <2>1. CASE Ends
    BY <1>0, <2>1, ReplyFacts DEF WorkKeys, WorkInv, WorkOK
  <2>2. CASE Goes
    BY <1>0, <2>2, GoOnFacts DEF WorkKeys
  <2>3. QED
    BY <1>2, <2>1, <2>2
<1>3. ASSUME Keeps
      PROVE  /\ \A p \in Phones : clients'[p] \in {clients[p], NoClient}
             /\ \A p \in Phones \ {work[h].phone} : clients'[p] = clients[p]
  BY <1>1, <1>3, HoldFacts
<1> DEFINE KeepsKeys == \A c \in Clients :
             /\ client[c].link = "unused" => client'[c] = client[c]
             /\ client[c].link # "unused" =>
                  client'[c].link # "unused" /\ client'[c].key = client[c].key
<1>4. ASSUME NEW c \in Clients, client' = Disconnected(c)
      PROVE  KeepsKeys
  BY <1>0, <1>4 DEF Disconnected, WorkerTypeOK, ClientStates
<1>5. ASSUME Others(h), WorkKeys(h)', Keeps, KeepsKeys,
             \A k \in Clients : auth[k] = "in" => auth'[k] = "in"
      PROVE  /\ KeysInv' /\ KeysStable /\ Others(h)
             /\ \A p \in Phones \ {work[h].phone} : clients'[p] = clients[p]
  <2>1. KeysStable
    BY <1>5 DEF KeysStable
  <2>2. QED
    BY <1>0, <1>3, <1>5, <2>1, KeysKept
<1>6. CASE Replace(h)
  <2>0. work[h].op = "connect" => work[h].session \in Clients
    BY <1>0, <1>6 DEF Replace, Works
  <2>1. CASE Register(h)
    <3>1. work[h].op \in {"start", "connect"} /\ auth' = auth /\ work[h].pc = "called"
      BY <1>6 DEF Replace
    <3>2. KeysInv' /\ KeysStable
      BY <1>1, <2>0, <2>1, <3>1, RegisterKeys
    <3>3. QED
      BY <1>0, <1>1, <2>1, <3>2, HoldFacts DEF Register, Others, WorkerTypeOK
  <2>2. CASE ~Register(h)
    <3>1. /\ client' = Disconnected(Held(h)) /\ Held(h) # NoClient
          /\ work' = [work EXCEPT ![h].pc = "dropping", ![h].client = Held(h)]
          /\ clients' = clients /\ auth' = auth /\ work[h].pc = "called"
      BY <1>6, <2>2 DEF Replace
    <3>2. KeepsKeys
      BY <1>0, <1>1, <1>4, <3>1 DEF Held
    <3>3. Others(h) /\ WorkKeys(h)'
      BY <1>0, <2>0, <3>1 DEF KeysInv, WorkKeys, Others, WorkerTypeOK, Works
    <3>4. QED
      BY <1>5, <3>1, <3>2, <3>3
  <2>3. QED
    BY <2>1, <2>2
<1>7. CASE PreviousDropped(h)
  <2>1. /\ work[h].op \in {"start", "connect"} /\ auth' = auth /\ work[h].pc = "dropping"
        /\ Register(h)
    BY <1>0, <1>7 DEF PreviousDropped, WorkOK
  <2>2. KeysInv' /\ KeysStable
    BY <1>1, <2>1, RegisterKeys DEF KeysInv, WorkKeys
  <2>3. QED
    BY <1>0, <1>1, <2>1, <2>2, HoldFacts DEF Register, Others, WorkerTypeOK
<1>8. CASE Connect(h) \/ ConnectFails(h)
  <2>1. PICK link \in {"up", "down"} : client' = [client EXCEPT ![work[h].client].link = link]
    BY <1>8 DEF Connect, ConnectFails
  <2>2. /\ work[h].pc = "connecting" /\ (Ends \/ Goes)
        /\ clients' = clients /\ auth' = auth
    BY <1>0, <1>8 DEF Connect, ConnectFails, WorkOK
  <2>3. work[h].client \in Clients /\ client[work[h].client].link # "unused"
    BY <1>0, <1>1, <2>2, WorkerAssumption DEF WorkOK, KeysInv
  <2>4. KeepsKeys
    BY <1>0, <2>1, <2>3 DEF WorkerTypeOK, ClientStates
  <2>5. QED
    BY <1>2, <1>5, <2>2, <2>4
<1>9. CASE \/ InvalidSession(h) \/ Unwind(h) \/ SendCode(h) \/ NoCodeSent(h)
           \/ PasswordNeeded(h) \/ Refuse(h) \/ FinishDisconnect(h)
  <2>1. /\ Ends /\ Keeps /\ client' = client
        /\ auth' = auth \/ (PasswordNeeded(h) /\ auth[SigningKey(h)] # "in"
                            /\ auth' = [auth EXCEPT ![SigningKey(h)] = "password"])
    BY <1>0, <1>9 DEF InvalidSession, Unwind, SendCode, NoCodeSent, PasswordNeeded, Refuse,
         FinishDisconnect, WorkOK, Ops, Lifecycle
  <2>2. \A k \in Clients : auth[k] = "in" => auth'[k] = "in"
    BY <1>0, <2>1 DEF WorkerTypeOK
  <2>3. QED
    BY <1>2, <1>5, <2>1, <2>2
<1>10. CASE SignIn(h)
  <2>1. Ends /\ Keeps /\ client' = client /\ auth' = [auth EXCEPT ![SigningKey(h)] = "in"]
    BY <1>0, <1>10 DEF SignIn, Signing, KeysInv, WorkKeys
  <2>2. \A k \in Clients : auth[k] = "in" => auth'[k] = "in"
    BY <1>0, <2>1 DEF WorkerTypeOK
  <2>3. QED
    BY <1>2, <1>5, <2>1, <2>2
<1>11. CASE SendFails(h)
  <2>1. Goes /\ Keeps /\ auth' = auth /\ work[h].client \in Clients
        /\ client' = Disconnected(work[h].client)
    BY <1>0, <1>11 DEF SendFails, WorkOK
  <2>2. QED
    BY <1>2, <1>4, <1>5, <2>1
<1>12. CASE Disconnect(h)
  <2>1. (Ends \/ Goes) /\ Keeps /\ auth' = auth
    BY <1>0, <1>12 DEF Disconnect
  <2>2. KeepsKeys
    BY <1>0, <1>1, <1>4, <1>12 DEF Disconnect, Held
  <2>3. QED
    BY <1>2, <1>5, <2>1, <2>2
<1>13. CASE Require(h) \/ SaveSession(h)
  <2>1. Keeps /\ auth' = auth /\ client' = client
    BY <1>13 DEF Require, SaveSession
  <2>2. Others(h) /\ WorkKeys(h)'
    <3>1. CASE Ends
      BY <1>2, <3>1
    <3>2. CASE /\ work' = [work EXCEPT ![h].pc = "signing", ![h].client = Held(h)]
               /\ Held(h) # NoClient /\ work[h].op \in {"code", "password"}
      BY <1>0, <1>1, <3>2 DEF WorkKeys, Others, WorkerTypeOK, Works, Held
    <3>3. CASE /\ work' = [work EXCEPT ![h].pc = "replied", ![h].reply = "ok",
                                       ![h].session = client[Held(h)].key]
               /\ Held(h) # NoClient
      BY <1>0, <1>1, <3>3 DEF WorkKeys, Others, WorkerTypeOK, Works, Held, KeysInv
    <3>4. QED
      BY <1>0, <1>13, <3>1, <3>2, <3>3 DEF Require, SaveSession
  <2>3. QED
    BY <1>5, <2>1, <2>2
<1>14. QED
  BY <1>6, <1>7, <1>8, <1>9, <1>10, <1>11, <1>12, <1>13 DEF HandlerStep

LEMMA CallKeys ==
  ASSUME WorkInv, KeysInv, NEW h \in Handlers, NEW op \in Ops, NEW p \in Phones,
         NEW k \in Clients \cup {NoClient},
         Call(h, op, p, k)
  PROVE  KeysInv'
<1>1. Others(h) /\ work'[h].pc = "called" /\ work'[h].op = op /\ work'[h].session = k
  BY CallFacts
<1>2. UNCHANGED <<clients, client, auth>>
  BY DEF Call
<1>3. \A g \in Handlers : WorkKeys(g)'
  BY <1>1 DEF KeysInv, WorkKeys, Others
<1>4. QED
  BY <1>2, <1>3 DEF KeysInv

LEMMA AnswerKeys ==
  ASSUME WorkInv, KeysInv, NEW h \in Handlers, Answer(h)
  PROVE  KeysInv'
<1>1. Others(h) /\ work'[h] = NoWork
  BY AnswerFacts
<1>2. UNCHANGED <<clients, client, auth>>
  BY DEF Answer
<1>3. \A g \in Handlers : WorkKeys(g)'
  BY <1>1, NoWorkType DEF KeysInv, WorkKeys, Others
<1>4. QED
  BY <1>2, <1>3 DEF KeysInv

LEMMA StopKeys ==
  ASSUME WorkInv, KeysInv, WorkerStop
  PROVE  KeysInv' /\ KeysStable
<1>0. WorkerTypeOK
  BY DEF WorkInv
<1>1. ASSUME NEW h \in Handlers
      PROVE  WorkKeys(h)'
  <2>1. work'[h] = work[h] \/ (work'[h].pc = "replied" /\ work'[h].reply = "error")
    BY NoWorkType DEF WorkerStop, NoWork
  <2>2. QED
    BY <2>1 DEF KeysInv, WorkKeys
<1>2. ASSUME NEW c \in Clients
      PROVE  IF client[c].link = "unused" THEN client'[c] = Unused
             ELSE client'[c].link = "down" /\ client'[c].key = client[c].key
  BY <1>0 DEF WorkerStop, WorkerTypeOK, ClientStates
<1>3. KeysStable
  BY <1>2 DEF KeysStable, WorkerStop
<1>4. QED
  BY <1>1, <1>2, <1>3, UnusedType DEF KeysInv, WorkerStop

LEMMA LinkLostKeys ==
  ASSUME WorkInv, KeysInv, NEW c \in Clients, LinkLost(c)
  PROVE  KeysInv' /\ KeysStable
<1>1. \A d \in Clients : /\ client[d].link = "unused" <=> client'[d].link = "unused"
                         /\ client'[d].key = client[d].key /\ client'[d].phone = client[d].phone
  BY DEF LinkLost, WorkInv, WorkerTypeOK, ClientStates
<1>2. KeysStable
  BY <1>1 DEF KeysStable, LinkLost
<1>3. QED
  BY <1>1, <1>2 DEF KeysInv, LinkLost, WorkKeys, WorkInv, WorkerTypeOK

----------------------------------------------------------------------------
(***************************************************************************)
(* The handler of a login, step by step.                                   *)
(***************************************************************************)
LEMMA HeldKept ==
  ASSUME WorkInv, KeysInv, KeysStable, NEW p \in Phones, HeldSigned(p),
         clients'[p] \in {clients[p], NoClient}
  PROVE  HeldSigned(p)'
<1>1. CASE clients'[p] = NoClient
  BY <1>1 DEF HeldSigned
<1>2. CASE clients'[p] = clients[p] /\ clients[p] # NoClient
  <2>1. clients[p] \in Clients /\ client[clients[p]].link # "unused"
    BY <1>2 DEF WorkInv, WorkerTypeOK, KeysInv
  <2>2. client'[clients[p]].key = client[clients[p]].key
    BY <2>1 DEF KeysStable
  <2>3. QED
    BY <1>2, <2>2 DEF HeldSigned, SignedKey, KeysStable
<1>3. QED
  BY <1>1, <1>2

\* A handler that does not move, and whose phone keeps its client or loses it
\* when the handler is done.
LEMMA AskedKept ==
  ASSUME WorkInv, KeysInv, KeysStable, NEW h \in Handlers, work[h].phone \in Phones,
         AskedOK(h), work'[h] = work[h],
         \/ clients'[work[h].phone] = clients[work[h].phone]
         \/ clients'[work[h].phone] = NoClient /\ work[h].pc # "signing"
  PROVE  AskedOK(h)'
<1>1. SignsIn(h) => HeldSigned(work[h].phone)'
  BY HeldKept DEF AskedOK
<1>2. QED
  BY <1>1 DEF AskedOK, SignsIn, SignedKey, KeysStable, HeldSigned

LEMMA AskedStep ==
  ASSUME WorkInv, KeysInv, NEW h \in Handlers, AskedOK(h), HandlerStep(h)
  PROVE  AskedOK(h)'
<1>0. /\ work[h] \in Works /\ WorkOK(h) /\ work[h].op \in {"code", "password", "save"}
      /\ {"ok", "error", "password"} \subseteq Replies
  BY DEF WorkInv, WorkerTypeOK, AskedOK, Replies
<1>1. CASE Require(h) \/ PasswordNeeded(h) \/ Refuse(h) \/ (SaveSession(h) /\ Held(h) = NoClient)
  <2>1. CASE Reply(h, "error") \/ Reply(h, "password")
    BY <1>0, <2>1, ReplyFacts DEF AskedOK, SignsIn
  <2>2. CASE Require(h) /\ work' = [work EXCEPT ![h].pc = "signing", ![h].client = Held(h)]
    BY <1>0, <2>2 DEF Require, AskedOK, SignsIn, WorkInv, WorkerTypeOK, Works, Held
  <2>3. QED
    BY <1>1, <2>1, <2>2 DEF Require, PasswordNeeded, Refuse, SaveSession
<1>2. CASE SignIn(h)
  <2>1. /\ work[h].client \in Clients /\ work[h].op # "save" /\ work[h].phone \in Phones
        /\ clients[work[h].phone] = work[h].client
    BY <1>0, <1>2 DEF SignIn, Signing, KeysInv, WorkKeys, AskedOK, WorkOK
  <2>2. SigningKey(h) \in Clients
    BY <1>2, <2>1 DEF SignIn, Signing, SigningKey, KeysInv
  <2>3. auth'[SigningKey(h)] = "in" /\ clients' = clients /\ client' = client
    BY <1>2, <2>2 DEF SignIn, WorkInv, WorkerTypeOK
  <2>4. work'[h].phone = work[h].phone /\ work'[h].op = work[h].op /\ work'[h].pc = "replied"
    BY <1>0, <1>2, ReplyFacts DEF SignIn
  <2>5. HeldSigned(work[h].phone)'
    BY <2>1, <2>2, <2>3, <2>4 DEF HeldSigned, SignedKey, SigningKey
  <2>6. QED
    BY <1>0, <2>1, <2>4, <2>5 DEF AskedOK
<1>3. CASE SaveSession(h) /\ Held(h) # NoClient
  <2>1. /\ work' = [work EXCEPT ![h].pc = "replied", ![h].reply = "ok",
                                ![h].session = client[Held(h)].key]
        /\ work[h].op = "save" /\ work[h].pc = "called" /\ auth' = auth
    BY <1>3 DEF SaveSession
  <2>2. SignedKey(client[Held(h)].key)
    BY <1>3, <2>1 DEF AskedOK, SignsIn, HeldSigned, Held
  <2>3. /\ work'[h].pc = "replied" /\ work'[h].op = "save"
        /\ work'[h].session = client[Held(h)].key
    BY <1>0, <2>1 DEF WorkInv, WorkerTypeOK, Works
  <2>4. QED
    BY <2>1, <2>2, <2>3 DEF AskedOK, SignsIn, SignedKey
<1>4. CASE \/ Replace(h) \/ PreviousDropped(h) \/ Connect(h) \/ ConnectFails(h) \/ Unwind(h)
           \/ SendCode(h) \/ SendFails(h) \/ Disconnect(h) \/ FinishDisconnect(h)
           \/ InvalidSession(h) \/ NoCodeSent(h)
  BY <1>0, <1>4 DEF InvalidSession, NoCodeSent, Replace, PreviousDropped, Connect, ConnectFails, Unwind, SendCode,
       SendFails, Disconnect, FinishDisconnect, WorkOK
<1>5. QED
  BY <1>1, <1>2, <1>3, <1>4 DEF HandlerStep

\* A step of the sidecar, when nobody else works on the phone of h.
LEMMA SidecarAsked ==
  ASSUME WorkInv, KeysInv, WorkerStep, NEW h \in Handlers, work[h].phone \in Phones,
         AskedOK(h), \A g \in Handlers \ {h} : work[g].phone # work[h].phone
  PROVE  AskedOK(h)'
<1>1. CASE HandlerStep(h)
  BY <1>1, AskedStep
<1>2. ASSUME NEW g \in Handlers \ {h}, HandlerStep(g)
      PROVE  AskedOK(h)'
  <2>1. /\ KeysStable /\ work'[h] = work[h]
        /\ clients'[work[h].phone] = clients[work[h].phone]
    BY <1>2, HandlerKeys DEF Others
  <2>2. QED
    BY <2>1, AskedKept
<1>3. ASSUME NEW c \in Clients, LinkLost(c)
      PROVE  AskedOK(h)'
  BY <1>3, LinkLostKeys, AskedKept DEF LinkLost
<1>4. CASE WorkerStop
  <2>1. CASE work[h].pc \in {"idle", "replied"}
    <3>1. work'[h] = work[h] /\ clients'[work[h].phone] = NoClient
      BY <1>4, <2>1 DEF WorkerStop
    <3>2. QED
      BY <1>4, <2>1, <3>1, StopKeys, AskedKept
  <2>2. CASE work[h].pc \notin {"idle", "replied"}
    <3>1. work'[h].pc = "replied" /\ work'[h].reply = "error" /\ work'[h].op = work[h].op
      BY <1>4, <2>2 DEF WorkerStop, NoWork
    <3>2. QED
      BY <3>1 DEF AskedOK, SignsIn
  <2>3. QED
    BY <2>1, <2>2
<1>5. QED
  BY <1>1, <1>2, <1>3, <1>4 DEF WorkerStep

----------------------------------------------------------------------------
(***************************************************************************)
(* The API.                                                                *)
(***************************************************************************)
\* A step of r: what the others hold, and what their handlers do, stays.
LEMMA SignStepOf ==
  ASSUME SessionInv, SignInv, contended \subseteq contended', KeysStable,
         UNCHANGED <<clients, client>>, NEW r \in Requests, OnlyApi(r), SignOK(r)',
         \A q \in Requests \ {r} : api[q].via # NoHandler => work'[api[q].via] = work[api[q].via],
         auth' = auth,
         \A a \in Accounts : account'[a] = account[a] \/ RowSigned(a)'
  PROVE  SignInv'
<1>1. ASSUME NEW q \in Requests \ {r}
      PROVE  SignOK(q)'
  <2>1. SignOK(q) /\ api'[q] = api[q]
    BY DEF SignInv, OnlyApi
  <2>2. api[q].pc = "asked" => work'[api[q].via] = work[api[q].via]
    BY DEF SessionInv, RequestsInv, RequestOK
  <2>3. QED
    BY <2>1, <2>2 DEF SignOK, AskedOK, SignsIn, HeldSigned, SignedKey
<1>2. \A a \in Accounts : RowSigned(a)'
  BY DEF SignInv, RowSigned, SignedKey
<1>3. QED
  BY <1>1, <1>2 DEF SignInv

\* A step of r that leaves the sidecar alone.
LEMMA SignQuiet ==
  ASSUME SessionInv, KeysInv, SignInv, contended \subseteq contended', UNCHANGED workerVars,
         NEW r \in Requests, OnlyApi(r), SignOK(r)',
         \A a \in Accounts : account'[a] = account[a] \/ RowSigned(a)'
  PROVE  KeysInv' /\ SignInv'
<1>1. UNCHANGED <<clients, client, auth, work>>
  BY DEF workerVars
<1>2. KeysStable
  BY <1>1 DEF KeysStable
<1>3. KeysInv'
  BY <1>1 DEF KeysInv, WorkKeys
<1>4. QED
  BY <1>1, <1>2, <1>3, SignStepOf

\* Of a request that ends, nothing is left to show.
LEMMA SignDone ==
  ASSUME NEW r \in Requests, api'[r].op \notin {"code", "password"},
         api'[r].pc \notin {"find", "write"}
  PROVE  SignOK(r)'
  BY DEF SignOK

\* A request to the sidecar: a login, or a key that a row holds.
LEMMA SignAsk ==
  ASSUME SessionInv, KeysInv, SignInv, contended \subseteq contended', account' = account,
         NEW r \in Requests, NEW req \in ApiStates, NEW op \in Ops, NEW p \in Phones,
         NEW k \in Clients \cup {NoClient}, Ask(r, req, op, p, k),
         req.op \in {"code", "password"} => op = req.op
  PROVE  KeysInv' /\ SignInv'
<1>1. PICK h \in Handlers :
        /\ work[h].pc = "idle" /\ Call(h, op, p, k) /\ Others(h)
        /\ work'[h].pc = "called" /\ work'[h].op = op /\ work'[h].reply = "none"
        /\ OnlyApi(r) /\ api'[r].pc = "asked" /\ api'[r].via = h /\ api'[r].op = req.op
  BY AskFacts
<1>2. KeysInv'
  BY <1>1, CallKeys DEF SessionInv, StrayInv
<1>3. UNCHANGED <<clients, client, auth>>
  BY <1>1 DEF Call
<1>4. SignOK(r)'
  BY <1>1 DEF SignOK, AskedOK, SignsIn
<1>5. \A q \in Requests \ {r} : api[q].via # NoHandler => work'[api[q].via] = work[api[q].via]
  <2>1. ASSUME NEW q \in Requests, api[q].via # NoHandler
        PROVE  api[q].via \in Handlers \ {h}
    BY <1>1, <2>1 DEF SessionInv, SessionTypeOK, ApiStates, RequestsInv, RequestOK
  <2>2. QED
    BY <1>1, <2>1 DEF Others
<1>6. KeysStable
  BY <1>3 DEF KeysStable
<1>7. QED
  BY <1>1, <1>2, <1>3, <1>4, <1>5, <1>6, SignStepOf

LEMMA SignTab ==
  ASSUME SessionInv, KeysInv, SignInv, contended \subseteq contended', NEW r \in Tabs, TabStep(r)
  PROVE  KeysInv' /\ SignInv'
<1>0. r \in Requests /\ SessionTypeOK
  BY DEF Requests, SessionInv
<1>1. ASSUME NEW op \in {"start", "code", "password"}, NEW p \in Phones, Login(r, op, p)
      PROVE  KeysInv' /\ SignInv'
  <2>1. /\ [NoRequest EXCEPT !.op = op] \in ApiStates
        /\ [NoRequest EXCEPT !.op = op].op = op
    BY NoRequestType DEF ApiStates, ApiOps
  <2>2. op \in Ops /\ NoClient \in Clients \cup {NoClient} /\ op # "connect"
    BY DEF Ops, Lifecycle
  <2>3. PICK req \in ApiStates : Ask(r, req, op, p, NoClient) /\ req.op = op /\ account' = account
    BY <1>1, <2>1 DEF Login
  <2>4. QED
    BY <1>0, <2>2, <2>3, SignAsk
<1>2. CASE \/ \E p \in Phones : StartLogin(r, p)
           \/ SubmitCode(r) \/ SubmitPassword(r)
  BY <1>1, <1>2 DEF StartLogin, SubmitCode, SubmitPassword, SessionInv, TabsInv, TabOK
<1>3. ASSUME NEW op \in {"reconnect", "logout"}, ReconnectOrLogout(r, op)
      PROVE  KeysInv' /\ SignInv'
  <2> DEFINE new == [NoRequest EXCEPT !.pc = "pick", !.op = op]
  <2>1. new \in ApiStates /\ new.pc = "pick" /\ new.op = op
    BY NoRequestType DEF ApiStates, ApiSteps, ApiOps
  <2>2. OnlyApi(r) /\ api'[r] = new /\ account' = account /\ UNCHANGED workerVars
    BY <1>0, <1>3, <2>1, ApiFacts DEF ReconnectOrLogout
  <2>3. SignOK(r)'
    BY <1>0, <2>1, <2>2, SignDone
  <2>4. QED
    BY <1>0, <2>2, <2>3, SignQuiet
<1>4. CASE Reload(r)
  <2>1. OnlyApi(r) /\ api' = api /\ account' = account /\ UNCHANGED workerVars
    BY <1>4 DEF Reload, OnlyApi
  <2>2. SignOK(r)'
    BY <1>0, <2>1 DEF SignInv, SignOK, AskedOK, SignsIn, HeldSigned, SignedKey, workerVars
  <2>3. QED
    BY <1>0, <2>1, <2>2, SignQuiet
<1>5. QED
  BY <1>2, <1>3, <1>4 DEF TabStep

LEMMA SignPick ==
  ASSUME SessionInv, KeysInv, SignInv, contended \subseteq contended',
         NEW r \in Requests, Pick(r)
  PROVE  KeysInv' /\ SignInv'
<1>1. /\ api[r] \in ApiStates /\ api[r].pc = "pick" /\ api[r].op \in {"reconnect", "logout"}
      /\ account' = account
  BY DEF Pick, SessionInv, SessionTypeOK, RequestsInv, RequestOK
<1>2. PICK a \in Accounts :
        /\ account[a].connected
        /\ Ask(r, [api[r] EXCEPT !.row = a],
               IF api[r].op = "logout" THEN "disconnect" ELSE "connect",
               account[a].phone, account[a].session)
  BY DEF Pick, Connected
<1>3. [api[r] EXCEPT !.row = a] \in ApiStates /\ [api[r] EXCEPT !.row = a].op = api[r].op
  BY <1>1 DEF ApiStates
<1>4. account[a].phone \in Phones /\ account[a].session \in Clients \cup {NoClient}
  BY <1>2 DEF SessionInv, SessionTypeOK, AccountRows, RowsInv
<1>5. "disconnect" \in Ops /\ "connect" \in Ops
  BY DEF Ops, Lifecycle
<1>6. PICK req \in ApiStates, op \in Ops, p \in Phones, k \in Clients \cup {NoClient} :
        Ask(r, req, op, p, k) /\ req.op \notin {"code", "password"}
  BY <1>1, <1>2, <1>3, <1>4, <1>5
<1>7. QED
  BY <1>1, <1>6, SignAsk

LEMMA SignRestore ==
  ASSUME SessionInv, KeysInv, SignInv, contended \subseteq contended', RestoreNext
  PROVE  KeysInv' /\ SignInv'
<1>1. /\ Boot \in Requests /\ api[Boot].pc = "next" /\ api[Boot] \in ApiStates
      /\ api[Boot].op = "restore" /\ account' = account
  BY DEF RestoreNext, Requests, SessionInv, SessionTypeOK, RequestsInv, BootOK
<1>2. PICK a \in api[Boot].todo :
        Ask(Boot, [api[Boot] EXCEPT !.todo = @ \ {a}],
            "connect", account[a].phone, account[a].session)
  BY DEF RestoreNext
<1>3. a \in Accounts /\ account[a].connected
  BY <1>1 DEF ApiStates, SessionInv, RequestsInv, BootOK
<1>4. /\ [api[Boot] EXCEPT !.todo = @ \ {a}] \in ApiStates
      /\ [api[Boot] EXCEPT !.todo = @ \ {a}].op = "restore"
  BY <1>1 DEF ApiStates
<1>5. /\ account[a].phone \in Phones /\ account[a].session \in Clients \cup {NoClient}
      /\ "connect" \in Ops
  BY <1>3 DEF SessionInv, SessionTypeOK, AccountRows, RowsInv, Ops, Lifecycle
<1>6. QED
  BY <1>1, <1>2, <1>4, <1>5, SignAsk

\* persistSession: after the sign-in, save-session.
LEMMA SignSave ==
  ASSUME SessionInv, KeysInv, SignInv, NEW r \in Requests, AskForSession(r)
  PROVE  KeysInv' /\ SignInv'
<1>1. PICK h \in Handlers :
        /\ h = api[r].via /\ work[h].phone = api[r].phone /\ api[r].phone \in Phones
        /\ \A q \in Requests \ {r} : api[q].via # h
        /\ api[r].pc = "asked" /\ work[h].pc = "replied"
  BY OwnHandler DEF AskForSession, Answered
<1>2. /\ Call(h, "save", api[r].phone, NoClient) /\ SignedIn(r) /\ work[h].op # "save"
      /\ WorkInv /\ "save" \in Ops /\ NoClient \in Clients \cup {NoClient}
      /\ UNCHANGED sessionVars
  BY <1>1 DEF AskForSession, ReplyTo, SessionInv, StrayInv, Ops
<1>3. /\ Others(h) /\ work'[h].pc = "called" /\ work'[h].op = "save"
      /\ work'[h].phone = work[h].phone /\ work'[h].reply = "none"
  BY <1>1, <1>2, CallFacts
<1>4. KeysInv'
  BY <1>1, <1>2, CallKeys
<1>5. UNCHANGED <<clients, client, auth, account, api, contended>>
  BY <1>2 DEF Call, sessionVars
<1>6. SignOK(r)'
  <2>1. ASSUME api[r].op \in {"code", "password"}, api[r].phone \notin contended
        PROVE  HeldSigned(work[h].phone)
    BY <1>1, <1>2, <2>1 DEF SignInv, SignOK, AskedOK, SignsIn, SignedIn, ReplyTo
  <2>2. ASSUME api[r].op \in {"code", "password"}, api[r].phone \notin contended
        PROVE  AskedOK(h)'
    BY <1>3, <1>5, <2>1, <2>2 DEF AskedOK, SignsIn, HeldSigned, SignedKey
  <2>3. QED
    BY <1>1, <1>5, <2>2 DEF SignOK
<1>7. \A q \in Requests \ {r} : api[q].via # NoHandler => work'[api[q].via] = work[api[q].via]
  BY <1>1, <1>3 DEF Others, SessionInv, SessionTypeOK, ApiStates
<1>8. KeysStable /\ OnlyApi(r)
  BY <1>5 DEF KeysStable, OnlyApi
<1>9. QED
  BY <1>4, <1>5, <1>6, <1>7, <1>8, SignStepOf

LEMMA SignHear ==
  ASSUME SessionInv, KeysInv, SignInv, NEW r \in Requests, Hear(r)
  PROVE  KeysInv' /\ SignInv'
<1>1. PICK h \in Handlers :
        /\ h = api[r].via /\ api[r].pc = "asked" /\ work[h].pc = "replied" /\ Answer(h)
        /\ \A q \in Requests \ {r} : api[q].via # h
  BY OwnHandler DEF Hear, Answered
<1>2. /\ WorkInv /\ work[h] \in Works /\ Resume(r)
      /\ account' = account /\ contended' = contended
  BY DEF Hear, SessionInv, StrayInv, WorkInv, WorkerTypeOK
<1>3. /\ OnlyApi(r) /\ api'[r].pc # "write" /\ api'[r].phone \in {api[r].phone, NoPhone}
      /\ api'[r].pc = "find" \/ api'[r].op \in {"code", "password"} =>
           /\ Resume(r) /\ SignedIn(r) /\ ReplyTo(r).op = "save"
           /\ api'[r].session = ReplyTo(r).session
           /\ api'[r].op = api[r].op /\ api'[r].phone = api[r].phone
      /\ api'[r].pc # "asked"
  BY <1>1, <1>2, ResumeFacts
<1>4. Others(h) /\ UNCHANGED <<clients, client, auth>>
  BY <1>1, <1>2, AnswerFacts DEF Answer
<1>5. KeysInv'
  BY <1>1, <1>2, AnswerKeys
<1>6. SignOK(r)'
  <2>1. CASE api'[r].pc = "find" \/ api'[r].op \in {"code", "password"}
    <3>1. /\ work[h].op = "save" /\ work[h].reply = "ok" /\ api'[r].session = work[h].session
          /\ api'[r].op = api[r].op /\ api'[r].phone = api[r].phone
      BY <1>1, <1>3, <2>1 DEF SignedIn, ReplyTo
    <3>2. work[h].session \in Clients
      BY <1>1, <3>1 DEF KeysInv, WorkKeys
    <3>3. api[r].op \in {"code", "password"} /\ api[r].phone \notin contended
            => SignedKey(work[h].session)
      BY <1>1, <3>1 DEF SignInv, SignOK, AskedOK
    <3>4. QED
      BY <1>2, <1>3, <1>4, <3>1, <3>2, <3>3 DEF SignOK, SignedKey
  <2>2. CASE ~(api'[r].pc = "find" \/ api'[r].op \in {"code", "password"})
    BY <1>3, <2>2, SignDone
  <2>3. QED
    BY <2>1, <2>2
<1>7. \A q \in Requests \ {r} : api[q].via # NoHandler => work'[api[q].via] = work[api[q].via]
  BY <1>1, <1>4 DEF Others, SessionInv, SessionTypeOK, ApiStates
<1>8. KeysStable
  BY <1>4 DEF KeysStable
<1>9. QED
  BY <1>2, <1>3, <1>4, <1>5, <1>6, <1>7, <1>8, SignStepOf

LEMMA SignFind ==
  ASSUME SessionInv, KeysInv, SignInv, NEW r \in Requests, FindAccount(r)
  PROVE  KeysInv' /\ SignInv'
<1>1. PICK a \in Accounts \cup {NoAccount} :
        api' = [api EXCEPT ![r].pc = "write", ![r].row = a]
  BY DEF FindAccount, RowsOf
<1>2. /\ OnlyApi(r) /\ api'[r].pc = "write" /\ api'[r].op = api[r].op
      /\ api'[r].phone = api[r].phone /\ api'[r].session = api[r].session
  BY <1>1 DEF SessionInv, SessionTypeOK, OnlyApi, ApiStates
<1>3. api[r].pc = "find" /\ UNCHANGED workerVars /\ account' = account /\ contended' = contended
  BY DEF FindAccount
<1>4. SignOK(r)'
  BY <1>2, <1>3 DEF SignInv, SignOK, SignedKey, workerVars
<1>5. QED
  BY <1>2, <1>3, <1>4, SignQuiet

LEMMA SignWrite ==
  ASSUME SessionInv, KeysInv, SignInv, NEW r \in Requests, WriteAccount(r)
  PROVE  KeysInv' /\ SignInv'
<1>1. PICK a : account' = [account EXCEPT ![a] = [phone |-> api[r].phone,
                             session |-> api[r].session, connected |-> TRUE]]
  BY DEF WriteAccount
<1>2. /\ api[r].pc = "write" /\ Done(r) /\ UNCHANGED workerVars /\ contended' = contended
      /\ api[r].op \in {"code", "password"} /\ SessionTypeOK
  BY DEF WriteAccount, SessionInv, RequestsInv, RequestOK
<1>3. OnlyApi(r) /\ api'[r] = NoRequest
  BY <1>2, DoneFacts
<1>4. ASSUME NEW b \in Accounts
      PROVE  account'[b] = account[b] \/ RowSigned(b)'
  <2>1. CASE a = b
    <3>1. account'[b].phone = api[r].phone /\ account'[b].session = api[r].session
      BY <1>1, <1>2, <2>1 DEF SessionTypeOK
    <3>2. api[r].session \in Clients /\ (api[r].phone \in contended \/ SignedKey(api[r].session))
      BY <1>2 DEF SignInv, SignOK
    <3>3. QED
      BY <1>2, <3>1, <3>2 DEF RowSigned, SignedKey, workerVars
  <2>2. CASE a # b
    BY <1>1, <1>2, <2>2 DEF SessionTypeOK
  <2>3. QED
    BY <2>1, <2>2
<1>5. SignOK(r)'
  BY <1>3, NoRequestType, SignDone
<1>6. QED
  BY <1>2, <1>3, <1>4, <1>5, SignQuiet

\* The steps after which the request is over or goes on without a sign-in.
LEMMA SignEnds ==
  ASSUME SessionInv, KeysInv, SignInv, NEW r \in Requests,
         PickNone(r) \/ GiveUp(r) \/ ClearAccount(r) \/ RejectQuery(r)
  PROVE  KeysInv' /\ SignInv'
<1>1. UNCHANGED workerVars /\ contended' = contended /\ SessionTypeOK /\ api[r] \in ApiStates
  BY DEF PickNone, GiveUp, ClearAccount, RejectQuery, SessionInv, SessionTypeOK
<1>2. OnlyApi(r) /\ api'[r].op \notin {"code", "password"} /\ api'[r].pc \notin {"find", "write"}
  <2>1. CASE Done(r) \/ NextAccount(r)
    BY <1>1, <2>1, DoneFacts, NextAccountFacts, NoRequestType
  <2>2. CASE api' = [api EXCEPT ![r].pc = "clear", ![r].via = NoHandler] /\ api[r].op = "logout"
    BY <1>1, <2>2 DEF SessionTypeOK, OnlyApi, ApiStates
  <2>3. QED
    BY <2>1, <2>2 DEF PickNone, GiveUp, ClearAccount, RejectQuery
<1>3. SignOK(r)'
  BY <1>2, SignDone
<1>4. CASE account' = account
  BY <1>1, <1>2, <1>3, <1>4, SignQuiet
<1>5. CASE ClearAccount(r)
  <2>1. api[r].row \in Accounts
    BY <1>5 DEF ClearAccount, SessionInv, RequestsInv, RequestOK
  <2>2. /\ ~account'[api[r].row].connected
        /\ \A b \in Accounts \ {api[r].row} : account'[b] = account[b]
    BY <1>1, <1>5, <2>1 DEF ClearAccount, SessionTypeOK, AccountRows
  <2>3. \A b \in Accounts : account'[b] = account[b] \/ RowSigned(b)'
    BY <2>2 DEF RowSigned
  <2>4. QED
    BY <1>1, <1>2, <1>3, <2>3, SignQuiet
<1>6. QED
  BY <1>4, <1>5 DEF PickNone, GiveUp, RejectQuery

LEMMA SignCrash ==
  ASSUME SessionInv, KeysInv, SignInv, ApiCrash
  PROVE  KeysInv' /\ SignInv'
<1>1. \A r \in Requests : api'[r].op \notin {"code", "password"} /\ api'[r].pc \in {"idle", "next"}
  BY NoRequestType DEF ApiCrash, NoRequest
<1>2. UNCHANGED workerVars /\ account' = account /\ contended' = contended
  BY DEF ApiCrash
<1>3. \A r \in Requests : SignOK(r)'
  BY <1>1, SignDone
<1>4. \A a \in Accounts : RowSigned(a)'
  BY <1>2 DEF SignInv, RowSigned, SignedKey, workerVars
<1>5. QED
  BY <1>2, <1>3, <1>4 DEF SignInv, KeysInv, WorkKeys, workerVars

\* The sidecar's own steps, which no request sees.
LEMMA SignSidecar ==
  ASSUME SessionInv, SingleInv, KeysInv, SignInv, WorkerStep, UNCHANGED sessionVars
  PROVE  KeysInv' /\ SignInv'
<1>1. WorkInv /\ UNCHANGED <<account, api, contended>>
  BY DEF SessionInv, StrayInv, sessionVars
<1>2. KeysInv' /\ KeysStable
  BY <1>1, HandlerKeys, LinkLostKeys, StopKeys DEF WorkerStep
<1>3. ASSUME NEW r \in Requests, api[r].op \in {"code", "password"}, api[r].phone \notin contended,
             api[r].pc = "asked"
      PROVE  AskedOK(api[r].via)'
  <2>1. PICK h \in Handlers : h = api[r].via /\ work[h].phone = api[r].phone
                              /\ api[r].phone \in Phones
    BY <1>3, OwnHandler
  <2>2. \A g \in Handlers \ {h} : work[g].phone # work[h].phone
    BY <1>3, <2>1 DEF SingleInv, AloneFor
  <2>3. AskedOK(h)
    BY <1>3, <2>1 DEF SignInv, SignOK
  <2>4. AskedOK(h)'
    BY <1>1, <2>1, <2>2, <2>3, SidecarAsked
  <2>5. QED
    BY <1>1, <2>1, <2>4
<1>4. \A r \in Requests : SignOK(r)'
  BY <1>1, <1>2, <1>3 DEF SignInv, SignOK, SignedKey, KeysStable
<1>5. \A a \in Accounts : RowSigned(a)'
  BY <1>1, <1>2 DEF SignInv, RowSigned, SignedKey, KeysStable
<1>6. QED
  BY <1>2, <1>4, <1>5 DEF SignInv

LEMMA SignDiscard ==
  ASSUME SessionInv, KeysInv, SignInv, NEW h \in Handlers, Discard(h)
  PROVE  KeysInv' /\ SignInv'
<1>1. /\ WorkInv /\ Answer(h) /\ UNCHANGED <<account, api, contended, clients, client, auth>>
      /\ \A r \in Requests : api[r].via # h
  BY DEF Discard, Answer, SessionInv, StrayInv, sessionVars
<1>2. KeysInv' /\ Others(h)
  BY <1>1, AnswerKeys, AnswerFacts
<1>3. \A r \in Requests : api[r].pc = "asked" => work'[api[r].via] = work[api[r].via]
  BY <1>1, <1>2, OwnHandler DEF Others
<1>4. \A r \in Requests : SignOK(r)'
  BY <1>1, <1>3 DEF SignInv, SignOK, AskedOK, SignsIn, HeldSigned, SignedKey
<1>5. \A a \in Accounts : RowSigned(a)'
  BY <1>1 DEF SignInv, RowSigned, SignedKey
<1>6. QED
  BY <1>2, <1>4, <1>5 DEF SignInv

LEMMA SignStep ==
  ASSUME SessionInv, SingleInv, KeysInv, SignInv, [TelegramNext]_telegramVars
  PROVE  KeysInv' /\ SignInv'
<1>1. contended \subseteq contended'
  BY SingleStep
<1>2. ASSUME NEW r \in Tabs, TabStep(r)
      PROVE  KeysInv' /\ SignInv'
  BY <1>1, <1>2, SignTab
<1>3. ASSUME NEW r \in Requests, ApiStep(r)
      PROVE  KeysInv' /\ SignInv'
  BY <1>1, <1>3, SignPick, SignSave, SignHear, SignFind, SignWrite, SignEnds DEF ApiStep
<1>4. CASE RestoreNext
  BY <1>1, <1>4, SignRestore
<1>5. CASE Restored
  <2>1. /\ Boot \in Requests /\ Done(Boot) /\ SessionTypeOK /\ UNCHANGED workerVars
        /\ account' = account
    BY <1>5 DEF Restored, Requests, SessionInv
  <2>2. OnlyApi(Boot) /\ SignOK(Boot)'
    BY <2>1, DoneFacts, NoRequestType, SignDone
  <2>3. QED
    BY <1>1, <2>1, <2>2, SignQuiet
<1>6. CASE ApiCrash
  BY <1>6, SignCrash
<1>7. CASE WorkerStep /\ UNCHANGED sessionVars
  BY <1>7, SignSidecar
<1>8. ASSUME NEW h \in Handlers, Discard(h)
      PROVE  KeysInv' /\ SignInv'
  BY <1>8, SignDiscard
<1>9. CASE UNCHANGED telegramVars
  BY <1>9 DEF telegramVars, workerVars, sessionVars, KeysInv, WorkKeys, SignInv, SignOK,
              RowSigned, AskedOK, SignsIn, HeldSigned, SignedKey
<1>10. QED
  BY <1>2, <1>3, <1>4, <1>5, <1>6, <1>7, <1>8, <1>9 DEF TelegramNext

\* Whatever the sidecar does between the sign-in and the store, and however
\* often either process stops, the session a row is connected with has signed
\* in: unless two requests for the phone were under way at once.
THEOREM TelegramSessionsSignedIn == TelegramSpec => []SessionsAreSignedIn
<1>1. TelegramInit => SingleInv /\ KeysInv /\ SignInv
  <2>1. SUFFICES ASSUME TelegramInit
                 PROVE  SingleInv /\ KeysInv /\ SignInv
    OBVIOUS
  <2>2. \A r \in Requests : api[r] = NoRequest
    BY <2>1 DEF TelegramInit, SessionInit
  <2>3. \A h \in Handlers : work[h] = NoWork
    BY <2>1 DEF TelegramInit, WorkerInit
  <2>4. SingleInv
    BY <2>2, <2>3, NoRequestType, NoWorkType, WorkerAssumption DEF SingleInv, AloneFor
  <2>5. \A c \in Clients : client[c] = Unused
    BY <2>1 DEF TelegramInit, WorkerInit
  <2>6. KeysInv
    BY <2>1, <2>3, <2>5, NoWorkType, UnusedType DEF TelegramInit, WorkerInit, KeysInv, WorkKeys
  <2>7. \A a \in Accounts : account[a].session = NoClient
    BY <2>1 DEF TelegramInit, SessionInit, NoRow, OldRow
  <2>8. SignInv
    BY <2>2, <2>7, NoRequestType DEF SignInv, SignOK, RowSigned
  <2>9. QED
    BY <2>4, <2>6, <2>8
<1>2. SessionInv /\ SingleInv /\ KeysInv /\ SignInv /\ [TelegramNext]_telegramVars
        => (SingleInv /\ KeysInv /\ SignInv)'
  BY SingleStep, SignStep
<1>3. SessionInv /\ SignInv => SessionsAreSignedIn
  BY DEF SessionInv, SessionTypeOK, AccountRows, SignInv, RowSigned, SessionsAreSignedIn,
         Connected, OldRow, SignedKey
<1>4. QED
  BY <1>1, <1>2, <1>3, TelegramInvariant, PTL DEF TelegramSpec

----------------------------------------------------------------------------
(***************************************************************************)
(* Keys and clients stay with their phone.                                 *)
(***************************************************************************)
\* A client, or the key that it created, belongs to the phone.
Bound(k, p) == k \in Clients /\ client[k].link # "unused" /\ client[k].phone = p

\* A client has a key of its phone, and a key that no client has is signed out.
ClientsBound ==
  /\ \A c \in Clients : IF client[c].link = "unused" THEN auth[c] = "out"
                        ELSE Bound(client[c].key, client[c].phone)
  /\ \A p \in Phones : clients[p] # NoClient => Bound(clients[p], p)

WorkBound(h) ==
  /\ work[h].session # NoClient => Bound(work[h].session, work[h].phone)
  /\ work[h].pc = "signing" => Bound(work[h].client, work[h].phone)
  /\ work[h].pc = "connecting" => client[work[h].client].link = "connecting"

RowBound(a) ==
  account[a].session # NoClient => Bound(account[a].session, account[a].phone)

RequestBound(r) ==
  api[r].session # NoClient =>
    api[r].pc \in {"find", "write"} /\ Bound(api[r].session, api[r].phone)

\* No two handlers await the connection of one client.
ConnectsAlone ==
  \A g, h \in Handlers :
     work[g].pc = "connecting" /\ work[h].pc = "connecting"
     /\ work[g].client = work[h].client => g = h

SidecarBound == ClientsBound /\ (\A h \in Handlers : WorkBound(h)) /\ ConnectsAlone

BindInv ==
  /\ SidecarBound
  /\ \A a \in Accounts : RowBound(a)
  /\ \A r \in Requests : RequestBound(r)

\* A client that was created stays one, of its phone and with its key.
BoundStable ==
  \A c \in Clients : client[c].link # "unused" =>
    /\ client'[c].link # "unused"
    /\ client'[c].phone = client[c].phone /\ client'[c].key = client[c].key

\* Bound after a step.
BoundNext(k, p) == k \in Clients /\ client'[k].link # "unused" /\ client'[k].phone = p

LEMMA BoundKept ==
  ASSUME BoundStable
  PROVE  \A k, p : Bound(k, p) => BoundNext(k, p)
  BY DEF BoundStable, Bound, BoundNext

LEMMA ClientsBoundKept ==
  ASSUME ClientsBound, BoundStable,
         \A c \in Clients : client[c].link = "unused" =>
           \/ client'[c] = client[c]
           \/ client'[c].link # "unused" /\ BoundNext(client'[c].key, client'[c].phone),
         \A k \in Clients : auth'[k] = auth[k] \/ client[k].link # "unused",
         \A p \in Phones : clients'[p] \in {clients[p], NoClient} \/ BoundNext(clients'[p], p)
  PROVE  ClientsBound'
<1>1. ASSUME NEW c \in Clients
      PROVE  IF client'[c].link = "unused" THEN auth'[c] = "out"
             ELSE BoundNext(client'[c].key, client'[c].phone)
  <2>1. CASE client[c].link = "unused"
    BY <2>1 DEF ClientsBound
  <2>2. CASE client[c].link # "unused"
    <3>1. Bound(client[c].key, client[c].phone)
      BY <2>2 DEF ClientsBound
    <3>2. BoundNext(client[c].key, client[c].phone)
      BY <3>1, BoundKept
    <3>3. QED
      BY <2>2, <3>2 DEF BoundStable
  <2>3. QED
    BY <2>1, <2>2
<1>2. ASSUME NEW p \in Phones, clients'[p] # NoClient
      PROVE  BoundNext(clients'[p], p)
  <2>1. CASE clients'[p] = clients[p]
    BY <1>2, <2>1, BoundKept DEF ClientsBound
  <2>2. CASE BoundNext(clients'[p], p)
    BY <2>2
  <2>3. QED
    BY <1>2, <2>1, <2>2
<1>3. QED
  BY <1>1, <1>2 DEF ClientsBound, Bound, BoundNext

\* A client that h has registered.
NewClient(h, c) ==
  /\ client[c].link = "unused" /\ client'[c].phone = work[h].phone /\ auth' = auth
  /\ \/ work[h].op = "start" /\ client'[c].key = c
     \/ work[h].op = "connect" /\ client'[c].key = work[h].session

SignedNow(h) ==
  /\ work[h].op \in {"code", "password"}
  /\ work'[h].pc = "replied" /\ work'[h].reply = "ok"

\* What a step of h may do to the clients, and to the keys of its phone.
Effects(h) ==
  /\ BoundStable
  /\ \A c \in Clients : Live(c)' => Live(c) \/ NewClient(h, c)
  /\ \A k \in Clients :
       \/ auth'[k] = auth[k]
       \/ Bound(k, work[h].phone) /\ (auth'[k] = "in" => SignedNow(h))

\* Registering a client.
LEMMA RegisterBound ==
  ASSUME WorkInv, KeysInv, SidecarBound, NEW h \in Handlers, work[h].phone \in Phones,
         Register(h), work[h].op \in {"start", "connect"}, auth' = auth,
         work[h].op = "connect" => work[h].session \in Clients
  PROVE  Effects(h) /\ SidecarBound'
<1>1. PICK c \in Clients :
        /\ client[c] = Unused
        /\ client' = [client EXCEPT ![c] =
             [link |-> "connecting", phone |-> work[h].phone,
              key |-> IF work[h].op = "start" THEN c ELSE work[h].session]]
        /\ Hold(h, c)
        /\ work' = [work EXCEPT ![h].pc = "connecting", ![h].client = c]
  BY DEF Register
<1>2. work[h] \in Works /\ client \in [Clients -> ClientStates] /\ NoClient \notin Clients
  BY WorkerAssumption DEF WorkInv, WorkerTypeOK
<1>3. /\ Others(h) /\ work'[h].pc = "connecting" /\ work'[h].client = c
      /\ work'[h].session = work[h].session /\ work'[h].phone = work[h].phone
  BY <1>1, <1>2 DEF WorkInv, WorkerTypeOK, Others, Works
<1>4. /\ client'[c].link = "connecting" /\ client'[c].phone = work[h].phone
      /\ client'[c].key = IF work[h].op = "start" THEN c ELSE work[h].session
      /\ \A d \in Clients \ {c} : client'[d] = client[d]
      /\ client[c].link = "unused"
  BY <1>1, <1>2, UnusedType
<1>5. /\ clients'[work[h].phone] = c
      /\ \A p \in Phones \ {work[h].phone} : clients'[p] = clients[p]
  BY <1>1, HoldFacts
<1>6. BoundStable
  BY <1>4 DEF BoundStable
<1>7. BoundNext(c, work[h].phone) /\ BoundNext(client'[c].key, client'[c].phone)
  <2>1. BoundNext(c, work[h].phone)
    BY <1>4 DEF BoundNext
  <2>2. CASE work[h].op = "start"
    BY <1>3, <1>4, <2>1, <2>2
  <2>3. CASE work[h].op = "connect"
    <3>1. Bound(work[h].session, work[h].phone)
      BY <1>2, <2>3 DEF SidecarBound, WorkBound
    <3>2. BoundNext(work[h].session, work[h].phone)
      BY <1>6, <3>1, BoundKept
    <3>3. QED
      BY <1>3, <1>4, <2>1, <2>3, <3>2
  <2>4. QED
    BY <2>2, <2>3
<1>8. ClientsBound'
  <2>1. \A d \in Clients : client[d].link = "unused" =>
           \/ client'[d] = client[d]
           \/ client'[d].link # "unused" /\ BoundNext(client'[d].key, client'[d].phone)
    BY <1>4, <1>7
  <2>2. \A p \in Phones : clients'[p] \in {clients[p], NoClient} \/ BoundNext(clients'[p], p)
    BY <1>3, <1>5, <1>7
  <2>3. QED
    BY <1>6, <2>1, <2>2, ClientsBoundKept DEF SidecarBound
<1>9. ASSUME NEW g \in Handlers \ {h}
      PROVE  /\ WorkBound(g)'
             /\ work'[g].pc = "connecting" => work'[g].client # c
  <2>1. work'[g] = work[g] /\ WorkBound(g) /\ WorkOK(g)
    BY <1>3 DEF Others, SidecarBound, WorkInv
  <2>2. work[g].pc = "connecting" => work[g].client \in Clients /\ work[g].client # c
    BY <1>4, <2>1 DEF WorkBound, WorkOK
  <2>3. QED
    BY <1>4, <1>6, <2>1, <2>2 DEF WorkBound, BoundStable, Bound
<1>10. WorkBound(h)'
  BY <1>3, <1>4, <1>6 DEF WorkBound, SidecarBound, BoundStable, Bound
<1>11. ConnectsAlone'
  BY <1>3, <1>9 DEF ConnectsAlone, SidecarBound, Others
<1>12. Effects(h)
  <2>1. NewClient(h, c)
    BY <1>4 DEF NewClient
  <2>2. \A d \in Clients \ {c} : Live(d)' => Live(d)
    BY <1>4 DEF Live
  <2>3. QED
    BY <1>6, <2>1, <2>2 DEF Effects
<1>13. QED
  BY <1>8, <1>9, <1>10, <1>11, <1>12 DEF SidecarBound

\* A step of h that registers no client.
LEMMA SidecarBoundKept ==
  ASSUME WorkInv, KeysInv, SidecarBound, NEW h \in Handlers, Others(h), BoundStable,
         \A c \in Clients : client[c].link = "unused" => client'[c] = client[c],
         \A k \in Clients : auth'[k] = auth[k] \/ client[k].link # "unused",
         \A p \in Phones : clients'[p] \in {clients[p], NoClient},
         \A g \in Handlers \ {h} : work[g].pc = "connecting"
           => client'[work[g].client].link = "connecting",
         work'[h].pc # "connecting",
         work'[h].phone = work[h].phone,
         \/ work'[h].session \in {work[h].session, NoClient}
         \/ BoundNext(work'[h].session, work[h].phone),
         work'[h].pc = "signing" => BoundNext(work'[h].client, work[h].phone)
  PROVE  SidecarBound'
<1>1. ClientsBound'
  BY ClientsBoundKept DEF SidecarBound
<1>2. ASSUME NEW g \in Handlers \ {h}
      PROVE  WorkBound(g)'
  BY <1>2, BoundKept DEF Others, SidecarBound, WorkBound, Bound, BoundNext
<1>3. WorkBound(h)'
  BY BoundKept DEF SidecarBound, WorkBound, Bound, BoundNext
<1>4. ConnectsAlone'
  BY DEF SidecarBound, ConnectsAlone, Others
<1>5. QED
  BY <1>1, <1>2, <1>3, <1>4 DEF SidecarBound

\* Disconnecting a client, or nothing.
LEMMA DropBound ==
  ASSUME WorkInv, client' = client \/ \E d \in Clients : client' = Disconnected(d)
  PROVE  /\ BoundStable
         /\ \A c \in Clients : /\ client[c].link = "unused" => client'[c] = client[c]
                               /\ client[c].link = "connecting" => client'[c] = client[c]
                               /\ Live(c)' => Live(c)
  BY DEF WorkInv, WorkerTypeOK, ClientStates, Disconnected, BoundStable, Live

LEMMA HandlerBound ==
  ASSUME WorkInv, KeysInv, SidecarBound, NEW h \in Handlers, HandlerStep(h)
  PROVE  Effects(h) /\ SidecarBound'
<1>0. /\ work[h] \in Works /\ WorkOK(h) /\ WorkerTypeOK /\ WorkBound(h) /\ WorkKeys(h)
      /\ \A p \in Phones : clients[p] \in Clients \cup {NoClient}
      /\ {"ok", "error", "password"} \subseteq Replies
      /\ NoClient \notin Clients
  BY WorkerAssumption DEF WorkInv, WorkerTypeOK, Replies, SidecarBound, KeysInv
<1>1. work[h].phone \in Phones /\ work[h].pc # "replied"
  BY <1>0 DEF HandlerStep, InvalidSession, NoCodeSent, Replace, PreviousDropped,
       Connect, ConnectFails, Unwind,
       SendCode, SendFails, Require, SignIn, PasswordNeeded, Signing, Refuse, SaveSession,
       Disconnect, FinishDisconnect, WorkOK
<1> DEFINE Ends == \E r \in Replies : Reply(h, r)
           Goes == \E pc \in {"dropping", "sending", "unwinding", "dropped"} :
                     /\ Others(h) /\ work'[h].pc = pc /\ work'[h].phone = work[h].phone
                     /\ work'[h].session = work[h].session
           Keeps == clients' = clients \/ Hold(h, NoClient)
           Drops == client' = client \/ \E d \in Clients : client' = Disconnected(d)
<1>2. ASSUME Ends \/ Goes
      PROVE  /\ Others(h) /\ work'[h].phone = work[h].phone
             /\ work'[h].session \in {work[h].session, NoClient}
             /\ work'[h].pc \notin {"connecting", "signing"}
  BY <1>0, <1>2, ReplyFacts
<1>3. ASSUME NEW pc \in {"sending", "unwinding", "dropped"}, GoOn(h, pc)
      PROVE  Goes
  BY <1>0, <1>3 DEF GoOn, Others, WorkerTypeOK, Works
<1>4. ASSUME Keeps
      PROVE  \A p \in Phones : clients'[p] \in {clients[p], NoClient}
  BY <1>1, <1>4, HoldFacts
<1>5. ASSUME NEW g \in Handlers, work[g].pc = "connecting"
      PROVE  work[g].client \in Clients /\ client[work[g].client].link = "connecting"
  BY <1>5 DEF WorkInv, WorkOK, SidecarBound, WorkBound
\* Most steps: clients are dropped at most, and no key changes.
<1>6. ASSUME Ends \/ Goes, Keeps, Drops, auth' = auth
      PROVE  Effects(h) /\ SidecarBound'
  <2>1. /\ BoundStable
        /\ \A c \in Clients : /\ client[c].link = "unused" => client'[c] = client[c]
                              /\ client[c].link = "connecting" => client'[c] = client[c]
                              /\ Live(c)' => Live(c)
    BY <1>6, DropBound
  <2>2. \A g \in Handlers \ {h} : work[g].pc = "connecting"
           => client'[work[g].client].link = "connecting"
    BY <1>5, <2>1
  <2>3. SidecarBound'
    BY <1>2, <1>4, <1>6, <2>1, <2>2, SidecarBoundKept
  <2>4. QED
    BY <1>6, <2>1, <2>3 DEF Effects
<1>7. CASE Replace(h)
  <2>1. work[h].op \in {"start", "connect"} /\ auth' = auth /\ work[h].pc = "called"
    BY <1>7 DEF Replace
  <2>2. CASE Register(h)
    BY <1>0, <1>1, <1>7, <2>1, <2>2, RegisterBound DEF Replace, Works
  <2>3. CASE ~Register(h)
    <3>1. /\ client' = Disconnected(Held(h)) /\ Held(h) # NoClient
          /\ work' = [work EXCEPT ![h].pc = "dropping", ![h].client = Held(h)]
          /\ clients' = clients
      BY <1>7, <2>3 DEF Replace
    <3>2. Goes
      BY <1>0, <3>1 DEF Others, WorkerTypeOK, Works
    <3>3. Drops
      BY <1>0, <1>1, <3>1 DEF Held
    <3>4. QED
      BY <1>6, <2>1, <3>1, <3>2, <3>3
  <2>4. QED
    BY <2>2, <2>3
<1>8. CASE PreviousDropped(h)
  <2>1. /\ work[h].op \in {"start", "connect"} /\ auth' = auth /\ work[h].pc = "dropping"
        /\ Register(h)
    BY <1>0, <1>8 DEF PreviousDropped, WorkOK
  <2>2. QED
    BY <1>0, <1>1, <2>1, RegisterBound DEF WorkKeys
<1>9. CASE Connect(h) \/ ConnectFails(h)
  <2>1. PICK link \in {"up", "down"} : client' = [client EXCEPT ![work[h].client].link = link]
    BY <1>9 DEF Connect, ConnectFails
  <2>2. work[h].pc = "connecting" /\ (Ends \/ Goes) /\ clients' = clients /\ auth' = auth
    BY <1>0, <1>3, <1>9 DEF Connect, ConnectFails
  <2>3. work[h].client \in Clients /\ client[work[h].client].link = "connecting"
    BY <1>5, <2>2
  <2>4. /\ client'[work[h].client].link = link
        /\ client'[work[h].client].phone = client[work[h].client].phone
        /\ client'[work[h].client].key = client[work[h].client].key
        /\ \A c \in Clients \ {work[h].client} : client'[c] = client[c]
    BY <1>0, <2>1, <2>3 DEF WorkerTypeOK, ClientStates
  <2>5. BoundStable
    BY <2>1, <2>4 DEF BoundStable
  <2>6. \A c \in Clients : /\ client[c].link = "unused" => client'[c] = client[c]
                           /\ Live(c)' => Live(c)
    BY <2>3, <2>4 DEF Live
  <2>7. \A g \in Handlers \ {h} : work[g].pc = "connecting"
           => client'[work[g].client].link = "connecting"
    BY <1>5, <2>2, <2>4 DEF SidecarBound, ConnectsAlone
  <2>8. SidecarBound'
    BY <1>2, <2>2, <2>5, <2>6, <2>7, SidecarBoundKept
  <2>9. QED
    BY <2>2, <2>5, <2>6, <2>8 DEF Effects
<1>10. CASE \/ Unwind(h) \/ SendCode(h) \/ SendFails(h) \/ Refuse(h)
            \/ Disconnect(h) \/ FinishDisconnect(h)
            \/ InvalidSession(h) \/ NoCodeSent(h)
  <2>1. (Ends \/ Goes) /\ Keeps /\ auth' = auth
    BY <1>0, <1>3, <1>10 DEF InvalidSession, NoCodeSent, Unwind, SendCode, SendFails, Refuse, Disconnect, FinishDisconnect
  <2>2. Drops
    BY <1>0, <1>1, <1>10
    DEF InvalidSession, NoCodeSent, Unwind, SendCode, SendFails, Refuse, Disconnect,
        FinishDisconnect, WorkOK, Held
  <2>3. QED
    BY <1>6, <2>1, <2>2
<1>11. CASE SignIn(h) \/ PasswordNeeded(h)
  <2>1. /\ work[h].pc = "signing" /\ Ends /\ clients' = clients /\ client' = client
        /\ \E state \in {"in", "password"} :
             /\ auth' = [auth EXCEPT ![SigningKey(h)] = state]
             /\ state = "in" => Reply(h, "ok")
    BY <1>0, <1>11 DEF SignIn, PasswordNeeded, Signing
  <2>2. Bound(SigningKey(h), work[h].phone)
    BY <1>0, <2>1 DEF WorkBound, SidecarBound, ClientsBound, Bound, SigningKey
  <2>3. work[h].op \in {"code", "password"}
    BY <1>0, <2>1 DEF WorkKeys
  <2>4. \A k \in Clients :
          \/ auth'[k] = auth[k]
          \/ Bound(k, work[h].phone) /\ (auth'[k] = "in" => SignedNow(h))
    BY <1>0, <2>1, <2>2, <2>3, ReplyFacts DEF WorkerTypeOK, SignedNow
  <2>5. /\ BoundStable
        /\ \A c \in Clients : /\ client[c].link = "unused" => client'[c] = client[c]
                              /\ client[c].link = "connecting" => client'[c] = client[c]
                              /\ Live(c)' => Live(c)
    BY <2>1, DropBound
  <2>6. \A g \in Handlers \ {h} : work[g].pc = "connecting"
           => client'[work[g].client].link = "connecting"
    BY <1>5, <2>5
  <2>7. \A k \in Clients : auth'[k] = auth[k] \/ client[k].link # "unused"
    BY <2>4 DEF Bound
  <2>8. SidecarBound'
    BY <1>2, <2>1, <2>5, <2>6, <2>7, SidecarBoundKept
  <2>9. QED
    BY <2>4, <2>5, <2>8 DEF Effects
<1>12. CASE Require(h) \/ SaveSession(h)
  <2>1. clients' = clients /\ auth' = auth /\ client' = client
    BY <1>12 DEF Require, SaveSession
  <2>2. CASE Ends
    BY <1>6, <2>1, <2>2
  <2>3. CASE ~Ends
    <3>1. /\ Held(h) # NoClient /\ Held(h) \in Clients
          /\ \/ work' = [work EXCEPT ![h].pc = "signing", ![h].client = Held(h)]
             \/ work' = [work EXCEPT ![h].pc = "replied", ![h].reply = "ok",
                                     ![h].session = client[Held(h)].key]
      BY <1>0, <1>1, <1>12, <2>3 DEF Require, SaveSession, Held
    <3>2. Bound(Held(h), work[h].phone) /\ Bound(client[Held(h)].key, work[h].phone)
      BY <1>1, <3>1 DEF SidecarBound, ClientsBound, Bound, Held
    <3>3. /\ Others(h) /\ work'[h].phone = work[h].phone /\ work'[h].pc # "connecting"
          /\ work'[h].session \in {work[h].session, client[Held(h)].key}
          /\ work'[h].pc = "signing" => work'[h].client = Held(h)
      BY <1>0, <3>1 DEF Others, WorkerTypeOK, Works
    <3>4. /\ BoundStable
          /\ \A c \in Clients : /\ client[c].link = "unused" => client'[c] = client[c]
                                /\ client[c].link = "connecting" => client'[c] = client[c]
                                /\ Live(c)' => Live(c)
      BY <2>1, DropBound
    <3>5. \A g \in Handlers \ {h} : work[g].pc = "connecting"
             => client'[work[g].client].link = "connecting"
      BY <1>5, <3>4
    <3>6. /\ BoundNext(Held(h), work[h].phone)
          /\ BoundNext(client[Held(h)].key, work[h].phone)
      BY <3>2, <3>4, BoundKept
    <3>7. SidecarBound'
      BY <2>1, <3>3, <3>4, <3>5, <3>6, SidecarBoundKept
    <3>8. QED
      BY <2>1, <3>4, <3>7 DEF Effects
  <2>4. QED
    BY <2>2, <2>3
<1>13. QED
  BY <1>7, <1>8, <1>9, <1>10, <1>11, <1>12 DEF HandlerStep

----------------------------------------------------------------------------
(***************************************************************************)
(* A phone that can be heard is known to be connected.                     *)
(***************************************************************************)
\* The handler of a request does what the request needs, and a logout has a row
\* of its phone.
RequestFits(r) ==
  /\ api[r].pc = "asked" =>
       \/ api[r].op = "start" /\ work[api[r].via].op = "start"
       \/ /\ api[r].op \in {"code", "password"}
          /\ work[api[r].via].op \in {"code", "password", "save"}
       \/ api[r].op \in {"reconnect", "restore"} /\ work[api[r].via].op = "connect"
       \/ api[r].op = "logout" /\ work[api[r].via].op = "disconnect"
  /\ api[r].pc = "clear" => api[r].op = "logout"
  /\ api[r].op = "logout" /\ api[r].pc \in {"asked", "clear"}
       => account[api[r].row].phone = api[r].phone

Silent(p) == \A c \in Clients : client[c].phone = p => ~Live(c)

SignedLive(p) ==
  \E c \in Clients : client[c].phone = p /\ Live(c) /\ auth[client[c].key] = "in"

Known(p) == \E a \in Accounts : account[a].connected /\ account[a].phone = p

\* Between the sign-in and the store.
Saving(r) ==
  /\ api[r].op \in {"code", "password"}
  /\ \/ api[r].pc \in {"find", "write"}
     \/ /\ api[r].pc = "asked"
        /\ \/ work[api[r].via].pc = "replied" /\ work[api[r].via].reply = "ok"
           \/ work[api[r].via].pc = "called" /\ work[api[r].via].op = "save"

\* The sidecar has dropped the client for a logout.
Dropped(r) ==
  api[r].pc = "clear" \/ (api[r].pc = "asked" /\ work[api[r].via].pc = "replied")

\* The row that a client is brought up for is still connected, and no client is
\* left when a logout clears its row.
RequestKnows(r) ==
  /\ api[r].pc = "asked" /\ api[r].op \in {"reconnect", "restore"} => Known(api[r].phone)
  /\ api[r].op = "logout" /\ Dropped(r) => Silent(api[r].phone)

Owned(p) == \A h \in Handlers : work[h].phone = p => \E r \in Requests : api[r].via = h

SignedIsKnown(p) ==
  SignedLive(p) => Known(p) \/ \E r \in Requests : api[r].phone = p /\ Saving(r)

\* The phones that ListeningIsKnown speaks of.
Seen == Phones \ (contended \cup missed)

KnownInv ==
  /\ BindInv
  /\ overlap \subseteq contended
  /\ \A r \in Requests : RequestFits(r)
  /\ \A p \in Seen : Owned(p) /\ SignedIsKnown(p)
  /\ \A r \in Requests : api[r].phone \in Seen => RequestKnows(r)

LEMMA BindRowsKept ==
  ASSUME BindInv, BoundStable, UNCHANGED <<account, api>>, SidecarBound'
  PROVE  BindInv'
<1>1. \A a \in Accounts : RowBound(a)'
  BY BoundKept DEF BindInv, RowBound, Bound, BoundNext
<1>2. \A r \in Requests : RequestBound(r)'
  BY BoundKept DEF BindInv, RequestBound, Bound, BoundNext
<1>3. QED
  BY <1>1, <1>2 DEF BindInv

\* The handler of a phone that was never contended belongs to its one request.
LEMMA OwnerFacts ==
  ASSUME SessionInv, SingleInv, KnownInv, NEW h \in Handlers, work[h].phone \in Seen
  PROVE  \E r \in Requests : /\ api[r].via = h /\ api[r].pc = "asked"
                             /\ api[r].phone = work[h].phone /\ RequestFits(r) /\ RequestKnows(r)
                             /\ \A q \in Requests : api[q].phone = work[h].phone => q = r
<1>1. PICK r \in Requests : api[r].via = h
  BY DEF KnownInv, Owned
<1>2. h # NoHandler /\ RequestOK(r)
  BY SessionAssumption DEF SessionInv, RequestsInv
<1>3. api[r].pc = "asked" /\ api[r].phone = work[h].phone
  BY <1>1, <1>2 DEF RequestOK
<1>4. \A q \in Requests : api[q].phone = work[h].phone => q = r
  BY <1>3 DEF SingleInv, AloneFor, Seen
<1>5. QED
  BY <1>1, <1>3, <1>4 DEF KnownInv

LEMMA OverlapKept ==
  ASSUME SessionInv, SingleInv, overlap \subseteq contended, NEW h \in Handlers, HandlerStep(h)
  PROVE  overlap' \subseteq contended
<1>1. CASE Enter(h) /\ work[h].pc = "called"
  <2>1. work[h].phone \in Phones
    BY <1>1 DEF SessionInv, StrayInv, WorkInv, WorkOK
  <2>2. ASSUME NEW g \in Midway(work[h].phone)
        PROVE  work[h].phone \in contended
    BY <1>1, <2>1 DEF Midway, SingleInv, AloneFor
  <2>3. QED
    BY <1>1, <2>2 DEF Enter
<1>2. CASE overlap' = overlap
  BY <1>2
<1>3. QED
  BY <1>1, <1>2
  DEF HandlerStep, InvalidSession, NoCodeSent, Replace, PreviousDropped,
       Connect, ConnectFails, Unwind, SendCode, SendFails,
      Require, SignIn, PasswordNeeded, Refuse, SaveSession, Disconnect, FinishDisconnect

\* When the disconnect of a phone is over, its client is gone.
LEMMA DisconnectSilent ==
  ASSUME StrayInv, KeysInv, NEW h \in Handlers, HandlerStep(h), work[h].op = "disconnect",
         work'[h].pc = "replied", work[h].phone \notin overlap
  PROVE  Silent(work[h].phone)
<1>0. WorkOK(h) /\ WorkKeys(h) /\ WorkInv /\ work[h] \in Works
  BY DEF StrayInv, WorkInv, KeysInv, WorkerTypeOK
<1>1. Disconnect(h) \/ FinishDisconnect(h)
  BY <1>0
  DEF HandlerStep, InvalidSession, NoCodeSent, Replace, PreviousDropped,
       Connect, ConnectFails, Unwind, SendCode, SendFails,
      Require, SignIn, PasswordNeeded, Signing, Refuse, SaveSession, WorkOK, WorkKeys
<1>2. work[h].phone \in Phones
  BY <1>0, <1>1 DEF Disconnect, FinishDisconnect, WorkOK
<1>3. CASE Disconnect(h)
  <2>1. Held(h) = NoClient
    BY <1>0, <1>3 DEF Disconnect, GoOn, WorkInv, WorkerTypeOK, Works
  <2>2. QED
    BY <1>2, <2>1, WorkerAssumption DEF StrayInv, NoStrayClient, Held, Silent
<1>4. CASE FinishDisconnect(h)
  <2>1. work[h].pc = "dropped" /\ h \in Midway(work[h].phone)
    BY <1>4 DEF FinishDisconnect, Midway, Lifecycle
  <2>2. QED
    BY <1>2, <2>1 DEF StrayInv, AloneInv, AloneOn, Silent
<1>5. QED
  BY <1>1, <1>3, <1>4

LEMMA KnownHandler ==
  ASSUME SessionInv, SingleInv, KeysInv, KnownInv, NEW h \in Handlers, HandlerStep(h),
         UNCHANGED sessionVars
  PROVE  KnownInv'
<1>0. /\ UNCHANGED <<account, api, contended, missed>> /\ Seen' = Seen
      /\ WorkInv /\ StrayInv /\ SidecarBound /\ BindInv
  BY DEF sessionVars, Seen, SessionInv, StrayInv, KnownInv, BindInv
<1>1. Effects(h) /\ SidecarBound'
  BY <1>0, HandlerBound
<1>2. /\ Others(h)
      /\ \A g \in Handlers : work'[g].phone = work[g].phone /\ work'[g].op = work[g].op
      /\ work[h].pc # "replied" /\ work[h].pc # "idle"
  <2>1. WorkerStep
    BY DEF WorkerStep
  <2>2. work[h].pc \notin {"replied", "idle"}
    BY DEF HandlerStep, InvalidSession, NoCodeSent, Replace, PreviousDropped,
       Connect, ConnectFails, Unwind, SendCode,
       SendFails, Require, SignIn, PasswordNeeded, Signing, Refuse, SaveSession, Disconnect,
       FinishDisconnect
  <2>3. QED
    BY <1>0, <2>1, <2>2, WorkerStepKeeps, HandlerKeys
<1>3. BindInv'
  BY <1>0, <1>1, BindRowsKept DEF Effects
<1>4. overlap' \subseteq contended'
  BY <1>0, OverlapKept DEF KnownInv
<1>5. \A r \in Requests : api[r].pc = "asked" => api[r].via \in Handlers
  BY OwnHandler
<1>6. \A r \in Requests : RequestFits(r)'
  BY <1>0, <1>2, <1>5 DEF KnownInv, RequestFits
<1>7. \A p \in Seen : Owned(p)'
  BY <1>0, <1>2 DEF KnownInv, Owned
\* What has come to listen.
<1>8. ASSUME NEW p \in Seen, SignedLive(p)'
      PROVE  Known(p) \/ \E r \in Requests : api[r].phone = p /\ Saving(r)'
  <2>1. PICK c \in Clients : client'[c].phone = p /\ Live(c)' /\ auth'[client'[c].key] = "in"
    BY <1>8 DEF SignedLive
  <2>2. p \in Phones /\ p \notin overlap /\ p \notin contended
    BY DEF Seen, KnownInv
  <2>3. CASE NewClient(h, c)
    <3>1. auth[client'[c].key] = "in" /\ client[c].link = "unused" /\ work[h].phone = p
      BY <2>1, <2>3 DEF NewClient
    <3>2. auth[c] = "out"
      BY <1>0, <3>1 DEF SidecarBound, ClientsBound
    <3>3. work[h].op = "connect"
      BY <2>3, <3>1, <3>2 DEF NewClient
    <3>4. PICK r \in Requests : /\ api[r].via = h /\ api[r].pc = "asked" /\ api[r].phone = p
                                /\ RequestFits(r) /\ RequestKnows(r)
      BY <3>1, OwnerFacts
    <3>5. QED
      BY <3>3, <3>4 DEF RequestFits, RequestKnows
  <2>4. CASE Live(c)
    <3>1. client[c].link # "unused"
      BY <2>4 DEF Live
    <3>2. client[c].phone = p /\ client'[c].key = client[c].key
      BY <1>1, <2>1, <3>1 DEF Effects, BoundStable
    <3>3. Bound(client[c].key, p)
      BY <1>0, <3>1, <3>2 DEF SidecarBound, ClientsBound
    <3>4. CASE auth'[client[c].key] = auth[client[c].key]
      <4>1. SignedLive(p)
        BY <2>1, <2>4, <3>2, <3>4 DEF SignedLive
      <4>2. CASE Known(p)
        BY <4>2
      <4>3. ASSUME NEW r \in Requests, api[r].phone = p, Saving(r)
            PROVE  Saving(r)'
        <5>1. CASE api[r].pc # "asked" \/ api[r].via # h
          <6>1. api[r].pc = "asked" => work'[api[r].via] = work[api[r].via]
            BY <1>2, <1>5, <5>1 DEF Others
          <6>2. QED
            BY <1>0, <4>3, <6>1 DEF Saving
        <5>2. CASE api[r].pc = "asked" /\ api[r].via = h
          <6>1. work[h].pc = "called" /\ work[h].op = "save" /\ work[h].phone = p
            BY <1>2, <4>3, <5>2, OwnHandler DEF Saving
          <6>2. SaveSession(h)
            BY <6>1
            DEF HandlerStep, InvalidSession, NoCodeSent, Replace, PreviousDropped,
       Connect, ConnectFails, Unwind, SendCode,
                SendFails, Require, SignIn, PasswordNeeded, Signing, Refuse, Disconnect,
                FinishDisconnect
          <6>3. Held(h) # NoClient
            BY <2>2, <2>4, <3>2, <6>1, WorkerAssumption, <1>0
            DEF StrayInv, NoStrayClient, Held
          <6>4. work'[h].pc = "replied" /\ work'[h].reply = "ok"
            BY <1>0, <6>2, <6>3 DEF SaveSession, WorkInv, WorkerTypeOK, Works
          <6>5. QED
            BY <1>0, <4>3, <5>2, <6>4 DEF Saving
        <5>3. QED
          BY <5>1, <5>2
      <4>4. QED
        BY <4>1, <4>2, <4>3 DEF KnownInv, SignedIsKnown
    <3>5. CASE auth'[client[c].key] # auth[client[c].key]
      <4>1. SignedNow(h) /\ work[h].phone = p
        BY <1>1, <2>1, <3>2, <3>3, <3>5 DEF Effects, Bound
      <4>2. PICK r \in Requests : /\ api[r].via = h /\ api[r].pc = "asked" /\ api[r].phone = p
                                  /\ RequestFits(r)
        BY <4>1, OwnerFacts
      <4>3. Saving(r)'
        BY <1>0, <4>1, <4>2 DEF SignedNow, RequestFits, Saving
      <4>4. QED
        BY <4>2, <4>3
    <3>6. QED
      BY <3>4, <3>5
  <2>5. QED
    BY <1>1, <2>1, <2>3, <2>4 DEF Effects
<1>9. \A p \in Seen : SignedIsKnown(p)'
  <2>1. \A p : Known(p)' <=> Known(p)
    BY <1>0 DEF Known
  <2>2. QED
    BY <1>0, <1>8, <2>1 DEF SignedIsKnown
<1>10. ASSUME NEW r \in Requests, api[r].phone \in Seen
       PROVE  RequestKnows(r)'
  <2>1. RequestKnows(r) /\ api[r].phone \in Phones /\ api[r].phone \notin overlap
    BY <1>10 DEF KnownInv, Seen
  <2>2. ASSUME api[r].op = "logout", Dropped(r)'
        PROVE  Silent(api[r].phone)'
    <3>1. Silent(api[r].phone)
      <4>1. CASE Dropped(r)
        BY <2>1, <2>2, <4>1 DEF RequestKnows
      <4>2. CASE ~Dropped(r)
        <5>1. api[r].pc = "asked" /\ work'[api[r].via].pc = "replied"
              /\ work[api[r].via].pc # "replied"
          BY <1>0, <2>2, <4>2 DEF Dropped
        <5>2. api[r].via = h /\ work[h].phone = api[r].phone /\ work[h].op = "disconnect"
          BY <1>2, <1>5, <2>2, <5>1, OwnHandler DEF Others, KnownInv, RequestFits
        <5>3. QED
          BY <1>0, <2>1, <5>1, <5>2, DisconnectSilent
      <4>3. QED
        BY <4>1, <4>2
    <3>2. ASSUME NEW c \in Clients, NewClient(h, c), work[h].phone = api[r].phone
          PROVE  FALSE
      <4>1. PICK q \in Requests : /\ api[q].via = h /\ api[q].pc = "asked" /\ RequestFits(q)
                                  /\ \A s \in Requests : api[s].phone = work[h].phone => s = q
        BY <1>10, <3>2, OwnerFacts
      <4>2. work[h].op = "disconnect"
        BY <2>2, <3>2, <4>1 DEF RequestFits
      <4>3. QED
        BY <3>2, <4>2 DEF NewClient
    <3>3. ASSUME NEW c \in Clients, client'[c].phone = api[r].phone, Live(c)'
          PROVE  FALSE
      <4>1. CASE NewClient(h, c)
        BY <3>2, <3>3, <4>1 DEF NewClient
      <4>2. CASE Live(c)
        <5>1. client[c].phone = api[r].phone
          BY <1>1, <3>3, <4>2 DEF Effects, BoundStable, Live
        <5>2. QED
          BY <3>1, <4>2, <5>1 DEF Silent
      <4>3. QED
        BY <1>1, <3>3, <4>1, <4>2 DEF Effects
    <3>4. QED
      BY <1>0, <3>3 DEF Silent
  <2>3. Known(api[r].phone)' <=> Known(api[r].phone)
    BY <1>0 DEF Known
  <2>4. QED
    BY <1>0, <2>1, <2>2, <2>3 DEF RequestKnows
<1>11. QED
  BY <1>0, <1>3, <1>4, <1>6, <1>7, <1>9, <1>10 DEF KnownInv

\* What a failure of the sidecar leaves.
LEMMA StopFacts ==
  ASSUME WorkInv, WorkerStop
  PROVE  /\ auth' = auth /\ overlap' = {} /\ \A p \in Phones : clients'[p] = NoClient
         /\ \A c \in Clients :
              IF client[c].link = "unused" THEN client'[c].link = "unused"
              ELSE /\ client'[c].link = "down" /\ client'[c].phone = client[c].phone
                   /\ client'[c].key = client[c].key
         /\ \A h \in Handlers :
              \/ work'[h] = work[h] /\ work[h].pc \in {"idle", "replied"}
              \/ work'[h].pc = "replied" /\ work'[h].session = NoClient
<1>0. WorkerTypeOK
  BY DEF WorkInv
<1>1. auth' = auth /\ overlap' = {} /\ \A p \in Phones : clients'[p] = NoClient
  BY DEF WorkerStop
<1>2. ASSUME NEW c \in Clients
      PROVE  IF client[c].link = "unused" THEN client'[c].link = "unused"
             ELSE /\ client'[c].link = "down" /\ client'[c].phone = client[c].phone
                  /\ client'[c].key = client[c].key
  BY <1>0, UnusedType DEF WorkerStop, WorkerTypeOK, ClientStates
<1>3. ASSUME NEW h \in Handlers
      PROVE  \/ work'[h] = work[h] /\ work[h].pc \in {"idle", "replied"}
             \/ work'[h].pc = "replied" /\ work'[h].session = NoClient
  BY NoWorkType DEF WorkerStop, NoWork
<1>4. QED
  BY <1>1, <1>2, <1>3

LEMMA LinkLostFacts ==
  ASSUME WorkInv, NEW c \in Clients, LinkLost(c)
  PROVE  /\ UNCHANGED <<clients, auth, work, overlap>>
         /\ client[c].link = "up" /\ client'[c].link = "down"
         /\ client'[c].phone = client[c].phone /\ client'[c].key = client[c].key
         /\ \A d \in Clients \ {c} : client'[d] = client[d]
  BY DEF LinkLost, WorkInv, WorkerTypeOK, ClientStates

\* The sidecar loses a client, or stops.
LEMMA FailureBound ==
  ASSUME WorkInv, SidecarBound, BoundStable, auth' = auth,
         \A c \in Clients : client[c].link = "unused" => client'[c].link = "unused",
         \A p \in Phones : clients'[p] \in {clients[p], NoClient},
         \A h \in Handlers :
           \/ /\ work'[h] = work[h]
              /\ work[h].pc = "connecting" => client'[work[h].client].link = "connecting"
           \/ work'[h].pc = "replied" /\ work'[h].session = NoClient
  PROVE  SidecarBound'
<1>1. ClientsBound'
  <2>1. ASSUME NEW c \in Clients
        PROVE  IF client'[c].link = "unused" THEN auth'[c] = "out"
               ELSE BoundNext(client'[c].key, client'[c].phone)
    BY BoundKept DEF SidecarBound, ClientsBound, BoundStable
  <2>2. ASSUME NEW p \in Phones, clients'[p] # NoClient
        PROVE  BoundNext(clients'[p], p)
    BY <2>2, BoundKept DEF SidecarBound, ClientsBound
  <2>3. QED
    BY <2>1, <2>2 DEF ClientsBound, Bound, BoundNext
<1>2. \A h \in Handlers : WorkBound(h)'
  BY BoundKept DEF SidecarBound, WorkBound, Bound, BoundNext
<1>3. ConnectsAlone'
  BY DEF SidecarBound, ConnectsAlone
<1>4. QED
  BY <1>1, <1>2, <1>3 DEF SidecarBound

LEMMA KnownFailure ==
  ASSUME SessionInv, SingleInv, KnownInv, UNCHANGED sessionVars, WorkerStep,
         SidecarBound', BoundStable, auth' = auth, overlap' \in {overlap, {}},
         \A c \in Clients : Live(c)' => Live(c),
         work' = work \/ \A c \in Clients : ~Live(c)'
  PROVE  KnownInv'
<1>0. /\ UNCHANGED <<account, api, contended, missed>> /\ Seen' = Seen
      /\ WorkInv /\ WorkerTypeOK /\ SidecarBound /\ BindInv
  BY DEF sessionVars, Seen, SessionInv, StrayInv, WorkInv, KnownInv, BindInv
<1>1. \A h \in Handlers : work'[h].phone = work[h].phone /\ work'[h].op = work[h].op
  BY <1>0, WorkerStepKeeps
<1>2. BindInv'
  BY <1>0, BindRowsKept
<1>3. overlap' \subseteq contended'
  BY <1>0 DEF KnownInv
<1>4. \A r \in Requests : api[r].pc = "asked" => api[r].via \in Handlers
  BY OwnHandler
<1>5. \A r \in Requests : RequestFits(r)'
  BY <1>0, <1>1, <1>4 DEF KnownInv, RequestFits
<1>6. \A p \in Seen : Owned(p)'
  BY <1>0, <1>1 DEF KnownInv, Owned
<1>7. \A p : Silent(p) => Silent(p)'
  BY DEF Silent, BoundStable, Live
<1>8. \A p : SignedLive(p)' => SignedLive(p)
  BY DEF SignedLive, BoundStable, Live
<1>9. \A p : Known(p)' <=> Known(p)
  BY <1>0 DEF Known
<1>10. CASE work' = work
  <2>1. \A r \in Requests : (Saving(r)' <=> Saving(r)) /\ (Dropped(r)' <=> Dropped(r))
    BY <1>0, <1>10 DEF Saving, Dropped
  <2>2. \A p \in Seen : SignedIsKnown(p)'
    BY <1>0, <1>8, <1>9, <2>1 DEF KnownInv, SignedIsKnown
  <2>3. \A r \in Requests : api[r].phone \in Seen => RequestKnows(r)'
    BY <1>0, <1>7, <1>9, <2>1 DEF KnownInv, RequestKnows
  <2>4. QED
    BY <1>0, <1>2, <1>3, <1>5, <1>6, <2>2, <2>3 DEF KnownInv
<1>11. CASE \A c \in Clients : ~Live(c)'
  <2>1. \A p : Silent(p)' /\ SignedIsKnown(p)'
    BY <1>11 DEF Silent, SignedIsKnown, SignedLive
  <2>2. \A r \in Requests : api[r].phone \in Seen => RequestKnows(r)'
    BY <1>0, <1>9, <2>1 DEF KnownInv, RequestKnows
  <2>3. QED
    BY <1>0, <1>2, <1>3, <1>5, <1>6, <2>1, <2>2 DEF KnownInv
<1>12. QED
  BY <1>10, <1>11

LEMMA KnownSidecar ==
  ASSUME SessionInv, SingleInv, KeysInv, KnownInv, UNCHANGED sessionVars, WorkerStep
  PROVE  KnownInv'
<1>0. WorkInv /\ SidecarBound /\ \A h \in Handlers : WorkOK(h)
  BY DEF SessionInv, StrayInv, WorkInv, KnownInv, BindInv
<1>1. CASE \E h \in Handlers : HandlerStep(h)
  BY <1>1, KnownHandler
<1>2. ASSUME NEW c \in Clients, LinkLost(c)
      PROVE  KnownInv'
  <2>1. /\ UNCHANGED <<clients, auth, work, overlap>>
        /\ client[c].link = "up" /\ client'[c].link = "down"
        /\ client'[c].phone = client[c].phone /\ client'[c].key = client[c].key
        /\ \A d \in Clients \ {c} : client'[d] = client[d]
    BY <1>0, <1>2, LinkLostFacts
  <2>2. BoundStable /\ \A d \in Clients : Live(d)' => Live(d)
    BY <2>1 DEF BoundStable, Live
  <2>3. ASSUME NEW h \in Handlers, work[h].pc = "connecting"
        PROVE  client'[work[h].client].link = "connecting"
    BY <1>0, <2>1, <2>3 DEF WorkOK, SidecarBound, WorkBound
  <2>4. SidecarBound'
    BY <1>0, <2>1, <2>2, <2>3, FailureBound
  <2>5. QED
    BY <2>1, <2>2, <2>4, KnownFailure
<1>3. CASE WorkerStop
  <2>1. /\ auth' = auth /\ overlap' = {} /\ \A p \in Phones : clients'[p] = NoClient
        /\ \A c \in Clients :
             IF client[c].link = "unused" THEN client'[c].link = "unused"
             ELSE /\ client'[c].link = "down" /\ client'[c].phone = client[c].phone
                  /\ client'[c].key = client[c].key
        /\ \A h \in Handlers :
             \/ work'[h] = work[h] /\ work[h].pc \in {"idle", "replied"}
             \/ work'[h].pc = "replied" /\ work'[h].session = NoClient
    BY <1>0, <1>3, StopFacts
  <2>2. BoundStable /\ \A c \in Clients : ~Live(c)'
    BY <2>1 DEF BoundStable, Live
  <2>3. SidecarBound'
    BY <1>0, <2>1, <2>2, FailureBound
  <2>4. QED
    BY <2>1, <2>2, <2>3, KnownFailure
<1>4. QED
  BY <1>1, <1>2, <1>3 DEF WorkerStep

\* A handler is called, or its answer is heard.
LEMMA SidecarBoundApi ==
  ASSUME SidecarBound, UNCHANGED <<clients, client, auth>>, NEW h \in Handlers, Others(h),
         work'[h].pc \notin {"signing", "connecting"},
         work'[h].session # NoClient => Bound(work'[h].session, work'[h].phone)
  PROVE  SidecarBound'
<1>1. ClientsBound'
  BY DEF SidecarBound, ClientsBound, Bound
<1>2. ASSUME NEW g \in Handlers
      PROVE  WorkBound(g)'
  <2>1. CASE g = h
    BY <2>1 DEF WorkBound, Bound
  <2>2. CASE g # h
    BY <2>2 DEF SidecarBound, WorkBound, Bound, Others
  <2>3. QED
    BY <2>1, <2>2
<1>3. ConnectsAlone'
  BY DEF SidecarBound, ConnectsAlone, Others
<1>4. QED
  BY <1>1, <1>2, <1>3 DEF SidecarBound

\* A step of r: the rows, the clients and the other requests of its phone, of
\* which there are none unless it is contended.
LEMMA KnownStepOf ==
  ASSUME SessionInv, SingleInv, KnownInv,
         contended \subseteq contended', missed \subseteq missed',
         UNCHANGED <<clients, client, auth, overlap>>, SidecarBound',
         NEW r \in Requests, OnlyApi(r), RequestBound(r)', RequestFits(r)',
         \A q \in Requests \ {r} : api[q].via # NoHandler => work'[api[q].via] = work[api[q].via],
         \A h \in Handlers : work'[h].phone \in Seen' =>
           api'[r].via = h \/ (work'[h].phone = work[h].phone /\ api[r].via # h),
         \A a \in Accounts :
           /\ account'[a] = account[a] \/ RowBound(a)'
           /\ account[a].phone \in Phones => account'[a].phone = account[a].phone,
         \A p \in Seen' : Known(p) => Known(p)' \/ (api[r].phone = p /\ Silent(p)),
         \A p \in Seen' : api[r].phone = p /\ Saving(r) =>
           Known(p)' \/ (api'[r].phone = p /\ Saving(r)'),
         api'[r].phone \in Seen' => RequestKnows(r)'
  PROVE  KnownInv'
<1>0. Seen' \subseteq Seen /\ Seen \subseteq Phones /\ BindInv
  BY DEF Seen, KnownInv
<1>1. BindInv'
  <2>1. ASSUME NEW a \in Accounts
        PROVE  RowBound(a)'
    BY DEF BindInv, KnownInv, RowBound, Bound
  <2>2. ASSUME NEW q \in Requests
        PROVE  RequestBound(q)'
    <3>1. CASE q = r
      BY <3>1
    <3>2. CASE q # r
      BY <1>0, <3>2 DEF OnlyApi, BindInv, RequestBound, Bound
    <3>3. QED
      BY <3>1, <3>2
  <2>3. QED
    BY <2>1, <2>2 DEF BindInv
<1>2. overlap' \subseteq contended'
  BY DEF KnownInv
<1>3. ASSUME NEW q \in Requests \ {r}
      PROVE  /\ api'[q] = api[q]
             /\ api[q].pc = "asked" => work'[api[q].via] = work[api[q].via]
             /\ api[q].pc \in {"asked", "clear"} => api[q].phone \in Phones
             /\ api[q].op = "logout" /\ api[q].pc \in {"asked", "clear"}
                  => api[q].row \in Accounts
  BY DEF OnlyApi, SessionInv, RequestsInv, RequestOK
<1>4. ASSUME NEW q \in Requests \ {r}
      PROVE  RequestFits(q)'
  <2>1. RequestFits(q)
    BY DEF KnownInv
  <2>2. api[q].op = "logout" /\ api[q].pc \in {"asked", "clear"}
          => account'[api[q].row].phone = api[q].phone
    BY <1>3, <2>1 DEF RequestFits
  <2>3. QED
    BY <1>3, <2>1, <2>2 DEF RequestFits
\* Nobody else is at work on a phone of r.
<1>5. ASSUME NEW q \in Requests \ {r}, api[q].phone \in Seen
      PROVE  api[q].phone # api[r].phone
  BY <1>5 DEF Seen, SingleInv, AloneFor
<1>6. ASSUME NEW q \in Requests \ {r}, NEW p \in Seen', api[q].phone = p
      PROVE  RequestKnows(q)'
  <2>1. RequestKnows(q) /\ api[r].phone # p /\ api'[q].phone = p
    BY <1>0, <1>3, <1>5, <1>6 DEF KnownInv
  <2>2. Known(p) => Known(p)'
    BY <2>1
  <2>3. Silent(p)' <=> Silent(p)
    BY DEF Silent, Live
  <2>4. Dropped(q)' <=> Dropped(q)
    BY <1>3 DEF Dropped
  <2>5. QED
    BY <1>3, <1>6, <2>1, <2>2, <2>3, <2>4 DEF RequestKnows
<1>7. ASSUME NEW p \in Seen'
      PROVE  Owned(p)'
  <2>1. ASSUME NEW h \in Handlers, work'[h].phone = p, api'[r].via # h
        PROVE  \E q \in Requests : api'[q].via = h
    <3>1. work[h].phone = p /\ api[r].via # h
      BY <1>7, <2>1
    <3>2. PICK q \in Requests : api[q].via = h
      BY <1>0, <1>7, <3>1 DEF KnownInv, Owned
    <3>3. QED
      BY <3>1, <3>2 DEF OnlyApi
  <2>2. QED
    BY <2>1 DEF Owned
<1>8. ASSUME NEW p \in Seen'
      PROVE  SignedIsKnown(p)'
  <2>1. SUFFICES ASSUME SignedLive(p), ~Known(p)'
                 PROVE  \E q \in Requests : api'[q].phone = p /\ Saving(q)'
    BY DEF SignedIsKnown, SignedLive, Live
  <2>2. ~Known(p)
    BY <1>8, <2>1 DEF SignedLive, Silent
  <2>3. PICK q \in Requests : api[q].phone = p /\ Saving(q)
    BY <1>0, <1>8, <2>1, <2>2 DEF KnownInv, SignedIsKnown
  <2>4. CASE q = r
    BY <1>8, <2>1, <2>3, <2>4
  <2>5. CASE q # r
    BY <1>3, <2>3, <2>5 DEF Saving
  <2>6. QED
    BY <2>4, <2>5
<1>9. QED
  BY <1>1, <1>2, <1>3, <1>4, <1>6, <1>7, <1>8 DEF KnownInv

LEMMA KnownAsk ==
  ASSUME SessionInv, SingleInv, KnownInv, account' = account, missed' = missed,
         NEW r \in Requests, NEW req \in ApiStates, NEW op \in Ops, NEW p \in Phones,
         NEW k \in Clients \cup {NoClient}, Ask(r, req, op, p, k),
         api[r].pc \notin {"asked", "find", "write"}, req.session = NoClient,
         k # NoClient => Bound(k, p),
         \/ req.op = op /\ op \in {"start", "code", "password"}
         \/ req.op \in {"reconnect", "restore"} /\ op = "connect" /\ Known(p)
         \/ req.op = "logout" /\ op = "disconnect" /\ account[req.row].phone = p
  PROVE  KnownInv'
<1>1. PICK h \in Handlers :
        /\ work[h].pc = "idle" /\ Call(h, op, p, k) /\ Others(h)
        /\ work'[h].pc = "called" /\ work'[h].op = op /\ work'[h].phone = p
        /\ work'[h].session = k
        /\ OnlyApi(r) /\ api'[r].pc = "asked" /\ api'[r].via = h /\ api'[r].phone = p
        /\ api'[r].op = req.op /\ api'[r].row = req.row /\ api'[r].session = req.session
  BY AskFacts
<1>2. /\ UNCHANGED <<clients, client, auth, overlap>>
      /\ contended \subseteq contended' /\ missed \subseteq missed'
      /\ api[r].via \notin Handlers /\ SidecarBound
  BY <1>1, SessionAssumption
  DEF Call, Ask, KnownInv, BindInv, SessionInv, RequestsInv, RequestOK
<1>3. SidecarBound'
  BY <1>1, <1>2, SidecarBoundApi
<1>4. RequestBound(r)' /\ RequestFits(r)'
  BY <1>1 DEF RequestBound, RequestFits
<1>5. \A q \in Requests \ {r} : api[q].via # NoHandler => work'[api[q].via] = work[api[q].via]
  <2>1. ASSUME NEW q \in Requests, api[q].via # NoHandler
        PROVE  api[q].via \in Handlers \ {h}
    BY <1>1, <2>1 DEF SessionInv, SessionTypeOK, ApiStates, RequestsInv, RequestOK
  <2>2. QED
    BY <1>1, <2>1 DEF Others
<1>6. \A g \in Handlers :
        api'[r].via = g \/ (work'[g].phone = work[g].phone /\ api[r].via # g)
  BY <1>1, <1>2 DEF Others
<1>7. \A q : Known(q)' <=> Known(q)
  BY DEF Known
<1>8. ~Saving(r) /\ RequestKnows(r)'
  BY <1>1, <1>7 DEF Saving, RequestKnows, Dropped
<1>9. QED
  BY <1>1, <1>2, <1>3, <1>4, <1>5, <1>6, <1>7, <1>8, KnownStepOf

\* A step of r that leaves the sidecar alone.
LEMMA KnownQuiet ==
  ASSUME SessionInv, SingleInv, KnownInv,
         contended \subseteq contended', missed \subseteq missed', UNCHANGED workerVars,
         NEW r \in Requests, OnlyApi(r), RequestBound(r)', RequestFits(r)',
         api[r].pc = "asked" => api[r].phone \notin Seen',
         \A a \in Accounts :
           /\ account'[a] = account[a] \/ RowBound(a)'
           /\ account[a].phone \in Phones => account'[a].phone = account[a].phone,
         \A p \in Seen' : Known(p) => Known(p)' \/ (api[r].phone = p /\ Silent(p)),
         \A p \in Seen' : api[r].phone = p /\ Saving(r) =>
           Known(p)' \/ (api'[r].phone = p /\ Saving(r)'),
         api'[r].phone \in Seen' => RequestKnows(r)'
  PROVE  KnownInv'
<1>1. UNCHANGED <<clients, client, auth, overlap, work>> /\ SidecarBound
  BY DEF workerVars, KnownInv, BindInv
<1>2. SidecarBound'
  BY <1>1 DEF SidecarBound, ClientsBound, WorkBound, ConnectsAlone, Bound
<1>3. ASSUME NEW h \in Handlers, work'[h].phone \in Seen', api[r].via = h
      PROVE  FALSE
  <2>1. api[r].pc = "asked" /\ work[h].phone = api[r].phone
    BY <1>3, SessionAssumption DEF SessionInv, RequestsInv, RequestOK
  <2>2. QED
    BY <1>1, <1>3, <2>1
<1>4. QED
  BY <1>1, <1>2, <1>3, KnownStepOf

\* The request is over, or has not begun: it knows nothing and saves nothing.
LEMMA KnownEnds ==
  ASSUME SessionInv, SingleInv, KnownInv, account' = account,
         contended \subseteq contended', missed \subseteq missed', UNCHANGED workerVars,
         NEW r \in Requests, OnlyApi(r), api'[r].session = NoClient,
         api'[r].pc \notin {"asked", "find", "write", "clear"},
         api[r].pc \in {"asked", "find", "write"} => api[r].phone \notin Seen'
  PROVE  KnownInv'
<1>1. RequestBound(r)' /\ RequestFits(r)' /\ RequestKnows(r)'
  BY DEF RequestBound, RequestFits, RequestKnows, Dropped
<1>2. api[r].phone \in Seen' => ~Saving(r)
  BY DEF Saving
<1>3. \A p : Known(p)' <=> Known(p)
  BY DEF Known
<1>4. QED
  BY <1>1, <1>2, <1>3, KnownQuiet

\* The steps of a tab.
LEMMA KnownTab ==
  ASSUME SessionInv, SingleInv, KnownInv, contended \subseteq contended', NEW r \in Tabs, TabStep(r)
  PROVE  KnownInv'
<1>0. r \in Requests /\ SessionTypeOK /\ api[r].pc = "idle" /\ api[r] = NoRequest
  <2>1. Ready(r)
    BY DEF TabStep, StartLogin, SubmitCode, SubmitPassword, Login, ReconnectOrLogout, Reload
  <2>2. QED
    BY <2>1 DEF Ready, Requests, SessionInv, RequestsInv, RequestOK
<1>1. ASSUME NEW op \in {"start", "code", "password"}, NEW p \in Phones, Login(r, op, p)
      PROVE  KnownInv'
  <2>1. /\ [NoRequest EXCEPT !.op = op] \in ApiStates
        /\ [NoRequest EXCEPT !.op = op].op = op
        /\ [NoRequest EXCEPT !.op = op].session = NoClient
    BY NoRequestType DEF ApiStates, ApiOps
  <2>2. op \in Ops /\ NoClient \in Clients \cup {NoClient}
    BY DEF Ops, Lifecycle
  <2>3. PICK req \in ApiStates :
          /\ Ask(r, req, op, p, NoClient) /\ req.op = op /\ req.session = NoClient
          /\ account' = account /\ missed' = missed
    BY <1>1, <2>1 DEF Login
  <2>4. QED
    BY <1>0, <2>2, <2>3, KnownAsk
<1>2. CASE \/ \E p \in Phones : StartLogin(r, p)
           \/ SubmitCode(r) \/ SubmitPassword(r)
  BY <1>1, <1>2 DEF StartLogin, SubmitCode, SubmitPassword, SessionInv, TabsInv, TabOK
<1>3. ASSUME NEW op \in {"reconnect", "logout"}, ReconnectOrLogout(r, op)
      PROVE  KnownInv'
  <2> DEFINE new == [NoRequest EXCEPT !.pc = "pick", !.op = op]
  <2>1. new \in ApiStates /\ new.pc = "pick" /\ new.session = NoClient
    BY NoRequestType DEF ApiStates, ApiSteps, ApiOps
  <2>2. OnlyApi(r) /\ api'[r] = new
    BY <1>0, <1>3, <2>1, ApiFacts DEF ReconnectOrLogout
  <2>3. account' = account /\ UNCHANGED workerVars /\ missed' = missed
    BY <1>3 DEF ReconnectOrLogout
  <2>4. QED
    BY <1>0, <2>1, <2>2, <2>3, KnownEnds
<1>4. CASE Reload(r)
  <2>1. /\ OnlyApi(r) /\ api' = api /\ account' = account /\ UNCHANGED workerVars
        /\ missed' = missed
    BY <1>4 DEF Reload, OnlyApi
  <2>2. QED
    BY <1>0, <2>1, NoRequestType, KnownEnds
<1>5. QED
  BY <1>2, <1>3, <1>4 DEF TabStep

LEMMA KnownPick ==
  ASSUME SessionInv, SingleInv, KnownInv, NEW r \in Requests, Pick(r)
  PROVE  KnownInv'
<1>1. /\ api[r] \in ApiStates /\ api[r].pc = "pick" /\ api[r].op \in {"reconnect", "logout"}
      /\ account' = account /\ missed' = missed /\ api[r].session = NoClient
  BY DEF Pick, SessionInv, SessionTypeOK, RequestsInv, RequestOK, KnownInv, BindInv, RequestBound
<1>2. PICK a \in Accounts :
        /\ account[a].connected
        /\ Ask(r, [api[r] EXCEPT !.row = a],
               IF api[r].op = "logout" THEN "disconnect" ELSE "connect",
               account[a].phone, account[a].session)
  BY DEF Pick, Connected
<1> DEFINE p == account[a].phone
           k == account[a].session
<1>3. /\ [api[r] EXCEPT !.row = a] \in ApiStates /\ [api[r] EXCEPT !.row = a].op = api[r].op
      /\ [api[r] EXCEPT !.row = a].row = a
      /\ [api[r] EXCEPT !.row = a].session = api[r].session
  BY <1>1 DEF ApiStates
<1>4. p \in Phones /\ k \in Clients \cup {NoClient} /\ (k # NoClient => Bound(k, p)) /\ Known(p)
  BY <1>2 DEF SessionInv, SessionTypeOK, AccountRows, RowsInv, KnownInv, BindInv, RowBound, Known
<1>5. "disconnect" \in Ops /\ "connect" \in Ops
  BY DEF Ops, Lifecycle
<1>6. CASE api[r].op = "logout"
  <2>1. PICK req \in ApiStates : /\ Ask(r, req, "disconnect", p, k)
                                 /\ req.op = "logout" /\ req.row = a /\ req.session = NoClient
    BY <1>1, <1>2, <1>3, <1>6
  <2>2. QED
    BY <1>1, <1>4, <1>5, <2>1, KnownAsk
<1>7. CASE api[r].op = "reconnect"
  <2>1. PICK req \in ApiStates : /\ Ask(r, req, "connect", p, k)
                                 /\ req.op = "reconnect" /\ req.session = NoClient
    BY <1>1, <1>2, <1>3, <1>7
  <2>2. QED
    BY <1>1, <1>4, <1>5, <2>1, KnownAsk
<1>8. QED
  BY <1>1, <1>6, <1>7

LEMMA KnownRestore ==
  ASSUME SessionInv, SingleInv, KnownInv, RestoreNext
  PROVE  KnownInv'
<1>1. /\ Boot \in Requests /\ api[Boot].pc = "next" /\ api[Boot] \in ApiStates
      /\ api[Boot].op = "restore" /\ account' = account /\ missed' = missed
      /\ api[Boot].session = NoClient
  BY DEF RestoreNext, Requests, SessionInv, SessionTypeOK, RequestsInv, BootOK, KnownInv,
         BindInv, RequestBound
<1>2. PICK a \in api[Boot].todo :
        Ask(Boot, [api[Boot] EXCEPT !.todo = @ \ {a}],
            "connect", account[a].phone, account[a].session)
  BY DEF RestoreNext
<1>3. a \in Accounts /\ account[a].connected
  BY <1>1 DEF ApiStates, SessionInv, RequestsInv, BootOK
<1>4. /\ [api[Boot] EXCEPT !.todo = @ \ {a}] \in ApiStates
      /\ [api[Boot] EXCEPT !.todo = @ \ {a}].op = "restore"
      /\ [api[Boot] EXCEPT !.todo = @ \ {a}].session = NoClient
  BY <1>1 DEF ApiStates
<1> DEFINE p == account[a].phone
           k == account[a].session
<1>5. p \in Phones /\ k \in Clients \cup {NoClient} /\ (k # NoClient => Bound(k, p)) /\ Known(p)
  BY <1>3 DEF SessionInv, SessionTypeOK, AccountRows, RowsInv, KnownInv, BindInv, RowBound, Known
<1>6. "connect" \in Ops
  BY DEF Ops, Lifecycle
<1>7. PICK req \in ApiStates : /\ Ask(Boot, req, "connect", p, k)
                               /\ req.op = "restore" /\ req.session = NoClient
  BY <1>2, <1>4
<1>8. QED
  BY <1>1, <1>5, <1>6, <1>7, KnownAsk

LEMMA EndFacts ==
  ASSUME SessionTypeOK, NEW r \in Requests, Done(r) \/ NextAccount(r)
  PROVE  OnlyApi(r) /\ api'[r].pc \in {"idle", "next"} /\ api'[r].session = NoClient
<1>1. CASE Done(r)
  BY <1>1, DoneFacts, NoRequestType
<1>2. CASE NextAccount(r)
  <2> DEFINE new == [NoRequest EXCEPT !.pc = "next", !.op = "restore", !.todo = api[r].todo]
  <2>1. new.session = NoClient
    BY NoRequestType DEF ApiStates
  <2>2. api'[r] = new
    BY <1>2 DEF NextAccount, SessionTypeOK
  <2>3. QED
    BY <1>2, <2>1, <2>2, NextAccountFacts
<1>3. QED
  BY <1>1, <1>2

\* The login goes on to ask for the session: it is still between sign-in and store.
LEMMA KnownSave ==
  ASSUME SessionInv, SingleInv, KnownInv, NEW r \in Requests, AskForSession(r)
  PROVE  KnownInv'
<1>1. PICK h \in Handlers :
        /\ h = api[r].via /\ work[h].phone = api[r].phone /\ api[r].phone \in Phones
        /\ \A q \in Requests \ {r} : api[q].via # h
        /\ api[r].pc = "asked" /\ work[h].pc = "replied"
  BY OwnHandler DEF AskForSession, Answered
<1>2. /\ Call(h, "save", api[r].phone, NoClient) /\ SignedIn(r) /\ WorkInv /\ "save" \in Ops
      /\ NoClient \in Clients \cup {NoClient} /\ UNCHANGED sessionVars /\ SidecarBound
  BY <1>1 DEF AskForSession, SessionInv, StrayInv, Ops, KnownInv, BindInv
<1>3. /\ Others(h) /\ work'[h].pc = "called" /\ work'[h].op = "save"
      /\ work'[h].phone = work[h].phone /\ work'[h].session = NoClient
  BY <1>1, <1>2, CallFacts
<1>4. /\ UNCHANGED <<clients, client, auth, overlap, account, api, contended, missed>>
      /\ OnlyApi(r) /\ Seen' = Seen
  BY <1>2 DEF Call, sessionVars, OnlyApi, Seen
<1>5. SidecarBound'
  BY <1>2, <1>3, <1>4, SidecarBoundApi
<1>6. api[r].op \in {"code", "password"}
  BY <1>2 DEF SignedIn
<1>7. RequestBound(r)' /\ RequestFits(r)' /\ RequestKnows(r)' /\ Saving(r)'
  BY <1>1, <1>3, <1>4, <1>6
  DEF KnownInv, BindInv, RequestBound, Bound, RequestFits, RequestKnows, Saving
<1>8. \A q \in Requests \ {r} : api[q].via # NoHandler => work'[api[q].via] = work[api[q].via]
  BY <1>1, <1>3 DEF Others, SessionInv, SessionTypeOK, ApiStates
<1>9. \A g \in Handlers :
        api'[r].via = g \/ (work'[g].phone = work[g].phone /\ api[r].via # g)
  BY <1>1, <1>3, <1>4 DEF Others
<1>10. \A p : Known(p)' <=> Known(p)
  BY <1>4 DEF Known
<1>11. QED
  BY <1>4, <1>5, <1>7, <1>8, <1>9, <1>10, KnownStepOf

LEMMA KnownHear ==
  ASSUME SessionInv, SingleInv, KnownInv, NEW r \in Requests, Hear(r)
  PROVE  KnownInv'
<1>1. PICK h \in Handlers :
        /\ h = api[r].via /\ api[r].pc = "asked" /\ work[h].pc = "replied" /\ Answer(h)
        /\ work[h].phone = api[r].phone /\ api[r].phone \in Phones
        /\ \A q \in Requests \ {r} : api[q].via # h
  BY OwnHandler DEF Hear, Answered
<1>2. /\ WorkInv /\ SessionTypeOK /\ api[r] \in ApiStates /\ Resume(r) /\ SidecarBound
      /\ account' = account /\ contended' = contended /\ missed' = missed /\ Seen' = Seen
      /\ RequestFits(r) /\ RequestBound(r)
  BY DEF Hear, SessionInv, SessionTypeOK, StrayInv, KnownInv, BindInv, Seen
<1>3. Others(h) /\ work'[h] = NoWork /\ UNCHANGED <<clients, client, auth, overlap>>
  BY <1>1, <1>2, AnswerFacts DEF Answer
<1>4. SidecarBound'
  BY <1>2, <1>3, NoWorkType, SidecarBoundApi
<1>5. \A q \in Requests \ {r} : api[q].via # NoHandler => work'[api[q].via] = work[api[q].via]
  BY <1>1, <1>3 DEF Others, SessionInv, SessionTypeOK, ApiStates
<1>6. \A g \in Handlers : work'[g].phone \in Seen' =>
        work'[g].phone = work[g].phone /\ api[r].via # g
  BY <1>1, <1>3, NoWorkType, WorkerAssumption DEF Others, Seen
<1>7. \A p : (Known(p)' <=> Known(p)) /\ (Silent(p)' <=> Silent(p))
  BY <1>2, <1>3 DEF Known, Silent, Live
<1>8. CASE SignedIn(r) /\ ReplyTo(r).op = "save"
           /\ api' = [api EXCEPT ![r].pc = "find", ![r].via = NoHandler,
                                 ![r].session = ReplyTo(r).session]
  <2>1. work[h].session \in Clients \cup {NoClient}
    BY <1>2 DEF WorkInv, WorkerTypeOK, Works
  <2>2. /\ OnlyApi(r) /\ api'[r].pc = "find" /\ api'[r].op = api[r].op
        /\ api'[r].phone = api[r].phone /\ api'[r].session = work[h].session
    BY <1>1, <1>2, <1>8, <2>1 DEF SessionTypeOK, OnlyApi, ApiStates, ReplyTo
  <2>3. api[r].op \in {"code", "password"}
    BY <1>8 DEF SignedIn
  <2>4. RequestBound(r)'
    BY <1>1, <1>2, <1>3, <2>2 DEF RequestBound, SidecarBound, WorkBound, Bound
  <2>5. RequestFits(r)' /\ RequestKnows(r)' /\ Saving(r)'
    BY <2>2, <2>3 DEF RequestFits, RequestKnows, Saving
  <2>6. QED
    BY <1>2, <1>3, <1>4, <1>5, <1>6, <1>7, <2>2, <2>4, <2>5, KnownStepOf
<1>9. CASE api[r].op = "logout"
           /\ api' = [api EXCEPT ![r].pc = "clear", ![r].via = NoHandler]
  <2>1. /\ OnlyApi(r) /\ api'[r].pc = "clear" /\ api'[r].op = "logout"
        /\ api'[r].phone = api[r].phone /\ api'[r].row = api[r].row
        /\ api'[r].session = api[r].session
    BY <1>2, <1>9 DEF SessionTypeOK, OnlyApi, ApiStates
  <2>2. RequestBound(r)' /\ RequestFits(r)' /\ ~Saving(r)
    BY <1>1, <1>2, <1>9, <2>1 DEF RequestBound, RequestFits, Saving
  <2>3. ASSUME api[r].phone \in Seen
        PROVE  RequestKnows(r)'
    <3>1. Dropped(r) /\ RequestKnows(r)
      BY <1>1, <2>3 DEF Dropped, KnownInv
    <3>2. Silent(api[r].phone)
      BY <1>9, <3>1 DEF RequestKnows
    <3>3. QED
      BY <1>7, <2>1, <3>2 DEF RequestKnows
  <2>4. QED
    BY <1>2, <1>3, <1>4, <1>5, <1>6, <1>7, <2>1, <2>2, <2>3, KnownStepOf
<1>10. CASE (Done(r) \/ NextAccount(r)) /\ ~Saving(r)
  <2>1. OnlyApi(r) /\ api'[r].pc \in {"idle", "next"} /\ api'[r].session = NoClient
    BY <1>2, <1>10, EndFacts
  <2>2. RequestBound(r)' /\ RequestFits(r)' /\ RequestKnows(r)'
    BY <2>1 DEF RequestBound, RequestFits, RequestKnows, Dropped
  <2>3. QED
    BY <1>2, <1>3, <1>4, <1>5, <1>6, <1>7, <1>10, <2>1, <2>2, KnownStepOf
<1>11. ~Saving(r) \/ (SignedIn(r) /\ api[r].op \in {"code", "password"})
  BY <1>1 DEF Saving, SignedIn, ReplyTo
<1>12. QED
  BY <1>2, <1>8, <1>9, <1>10, <1>11 DEF Resume, SignedIn

LEMMA KnownFind ==
  ASSUME SessionInv, SingleInv, KnownInv, NEW r \in Requests, FindAccount(r)
  PROVE  KnownInv'
<1>1. PICK a \in Accounts \cup {NoAccount} :
        api' = [api EXCEPT ![r].pc = "write", ![r].row = a]
  BY DEF FindAccount, RowsOf
<1>2. /\ OnlyApi(r) /\ api'[r].pc = "write" /\ api'[r].op = api[r].op
      /\ api'[r].phone = api[r].phone /\ api'[r].session = api[r].session
  BY <1>1 DEF SessionInv, SessionTypeOK, OnlyApi, ApiStates
<1>3. /\ api[r].pc = "find" /\ UNCHANGED workerVars /\ account' = account /\ client' = client
      /\ contended' = contended /\ missed' = missed /\ api[r].op \in {"code", "password"}
  BY DEF FindAccount, workerVars, SessionInv, RequestsInv, RequestOK
<1>4. /\ RequestBound(r)' /\ RequestFits(r)' /\ RequestKnows(r)' /\ Saving(r)'
  BY <1>2, <1>3
  DEF KnownInv, BindInv, RequestBound, Bound, RequestFits, RequestKnows, Saving
<1>5. \A p : Known(p)' <=> Known(p)
  BY <1>3 DEF Known
<1>6. QED
  BY <1>2, <1>3, <1>4, <1>5, KnownQuiet

\* The store makes the phone known.
LEMMA KnownWrite ==
  ASSUME SessionInv, SingleInv, AccountsInv, KnownInv, NEW r \in Requests, WriteAccount(r)
  PROVE  KnownInv'
<1> DEFINE p == api[r].phone
           new == [phone |-> p, session |-> api[r].session, connected |-> TRUE]
<1>1. PICK a \in IF api[r].row # NoAccount THEN {api[r].row}
                 ELSE {b \in Accounts : account[b] = NoRow} :
        account' = [account EXCEPT ![a] = new]
  BY DEF WriteAccount
<1>2. /\ p \in Phones /\ p # NoPhone /\ api[r].pc = "write" /\ WriteOK(r) /\ SessionTypeOK
      /\ UNCHANGED workerVars /\ client' = client /\ contended' = contended /\ missed' = missed
      /\ RequestBound(r) /\ Done(r)
  BY WorkerAssumption
  DEF WriteAccount, SessionInv, RequestsInv, RequestOK, AccountsInv, workerVars, KnownInv, BindInv
<1>3. /\ a \in Accounts
      /\ account[a].phone = p \/ (account[a].phone = NoPhone /\ ~account[a].connected)
  BY <1>1, <1>2, SessionAssumption DEF WriteOK, NoRow
<1>4. /\ account'[a].phone = p /\ account'[a].connected /\ account'[a].session = api[r].session
      /\ \A b \in Accounts \ {a} : account'[b] = account[b]
  BY <1>1, <1>2, <1>3 DEF SessionTypeOK
<1>5. OnlyApi(r) /\ api'[r].pc = "idle" /\ api'[r].session = NoClient
  BY <1>2, DoneFacts, NoRequestType
<1>6. RequestBound(r)' /\ RequestFits(r)' /\ RequestKnows(r)'
  BY <1>5 DEF RequestBound, RequestFits, RequestKnows, Dropped
<1>7. \A b \in Accounts :
        /\ account'[b] = account[b] \/ RowBound(b)'
        /\ account[b].phone \in Phones => account'[b].phone = account[b].phone
  <2>1. RowBound(a)'
    BY <1>2, <1>4 DEF RowBound, RequestBound, Bound
  <2>2. account[a].phone \in Phones => account'[a].phone = account[a].phone
    BY <1>3, <1>4, WorkerAssumption
  <2>3. QED
    BY <1>4, <2>1, <2>2
<1>8. \A q : (q = p \/ Known(q)) => Known(q)'
  <2>1. \A q : Known(q)' <=> \E b \in Accounts : account'[b].connected /\ account'[b].phone = q
    BY DEF Known
  <2>2. QED
    BY <1>3, <1>4 DEF Known
<1>9. QED
  BY <1>2, <1>5, <1>6, <1>7, <1>8, KnownQuiet

\* The logout clears a row whose client is gone.
LEMMA KnownClear ==
  ASSUME SessionInv, SingleInv, KnownInv, NEW r \in Requests, ClearAccount(r)
  PROVE  KnownInv'
<1> DEFINE a == api[r].row
<1>1. /\ api[r].pc = "clear" /\ a \in Accounts /\ SessionTypeOK /\ RequestFits(r)
      /\ UNCHANGED workerVars /\ client' = client /\ contended' = contended /\ missed' = missed
      /\ Done(r) /\ Seen' = Seen
  BY DEF ClearAccount, SessionInv, RequestsInv, RequestOK, KnownInv, workerVars, Seen
<1>2. /\ account'[a].session = NoClient /\ account'[a].phone = account[a].phone
      /\ \A b \in Accounts \ {a} : account'[b] = account[b]
  BY <1>1 DEF ClearAccount, SessionTypeOK, AccountRows
<1>3. account[a].phone = api[r].phone /\ api[r].op = "logout"
  BY <1>1 DEF RequestFits
<1>4. OnlyApi(r) /\ api'[r].pc = "idle" /\ api'[r].session = NoClient
  BY <1>1, DoneFacts, NoRequestType
<1>5. RequestBound(r)' /\ RequestFits(r)' /\ RequestKnows(r)' /\ ~Saving(r)
  BY <1>1, <1>4 DEF RequestBound, RequestFits, RequestKnows, Dropped, Saving
<1>6. \A b \in Accounts : /\ account'[b] = account[b] \/ RowBound(b)'
                          /\ account'[b].phone = account[b].phone
  BY <1>2 DEF RowBound
<1>7. api[r].phone \in Seen => Silent(api[r].phone)
  BY <1>1, <1>3 DEF KnownInv, RequestKnows, Dropped
<1>8. \A p \in Seen : Known(p) => Known(p)' \/ (api[r].phone = p /\ Silent(p))
  BY <1>2, <1>3, <1>7 DEF Known
<1>9. QED
  BY <1>1, <1>4, <1>5, <1>6, <1>8, KnownQuiet

\* The steps after which the request is over, or that give up on its answer.
LEMMA KnownOver ==
  ASSUME SessionInv, SingleInv, KnownInv, NEW r \in Requests,
         PickNone(r) \/ GiveUp(r) \/ RejectQuery(r) \/ (r = Boot /\ Restored)
  PROVE  KnownInv'
<1>1. /\ UNCHANGED workerVars /\ contended' = contended /\ account' = account /\ SessionTypeOK
      /\ missed \subseteq missed' /\ api[r] \in ApiStates /\ client' = client
  BY DEF PickNone, GiveUp, RejectQuery, Restored, SessionInv, SessionTypeOK, workerVars
<1>2. api[r].pc \in {"asked", "find", "write"} => api[r].phone \notin Seen'
  <2>1. CASE PickNone(r) \/ (r = Boot /\ Restored)
    BY <2>1 DEF PickNone, Restored
  <2>2. CASE GiveUp(r) \/ RejectQuery(r)
    BY <2>2, WorkerAssumption DEF GiveUp, RejectQuery, Seen
  <2>3. QED
    BY <2>1, <2>2
<1>3. CASE Done(r) \/ NextAccount(r)
  <2>1. OnlyApi(r) /\ api'[r].pc \in {"idle", "next"} /\ api'[r].session = NoClient
    BY <1>1, <1>3, EndFacts
  <2>2. QED
    BY <1>1, <1>2, <2>1, KnownEnds
<1>4. CASE /\ api[r].pc = "asked" /\ api[r].op = "logout"
           /\ api' = [api EXCEPT ![r].pc = "clear", ![r].via = NoHandler]
  <2>1. /\ OnlyApi(r) /\ api'[r].pc = "clear" /\ api'[r].op = "logout"
        /\ api'[r].phone = api[r].phone /\ api'[r].row = api[r].row
        /\ api'[r].session = api[r].session
    BY <1>1, <1>4 DEF SessionTypeOK, OnlyApi, ApiStates
  <2>2. RequestBound(r)' /\ RequestFits(r)'
    BY <1>1, <1>4, <2>1 DEF KnownInv, BindInv, RequestBound, RequestFits
  <2>3. \A p : Known(p)' <=> Known(p)
    BY <1>1 DEF Known
  <2>4. QED
    BY <1>1, <1>2, <1>4, <2>1, <2>2, <2>3, KnownQuiet
<1>5. QED
  BY <1>3, <1>4 DEF PickNone, GiveUp, RejectQuery, Restored

\* Of the requests that a crash of the API ends nothing is known any more.
LEMMA KnownCrash ==
  ASSUME SessionInv, KnownInv, ApiCrash
  PROVE  KnownInv'
<1>1. \A r \in Requests : api'[r].pc \in {"idle", "next"} /\ api'[r].session = NoClient
  BY NoRequestType DEF ApiCrash, NoRequest
<1>2. /\ UNCHANGED <<clients, client, auth, work, overlap, account, contended>>
      /\ missed' = missed \cup ({api[r].phone : r \in Requests} \ {NoPhone})
  BY DEF ApiCrash, workerVars
<1>3. \A p \in Seen' : p \in Seen /\ p # NoPhone /\ \A r \in Requests : api[r].phone # p
  BY <1>2, WorkerAssumption DEF Seen
<1>4. BindInv'
  BY <1>1, <1>2 DEF KnownInv, BindInv, SidecarBound, ClientsBound, WorkBound, ConnectsAlone,
                    RowBound, RequestBound, Bound
<1>5. \A r \in Requests : RequestFits(r)' /\ RequestKnows(r)'
  BY <1>1 DEF RequestFits, RequestKnows, Dropped
<1>6. ASSUME NEW p \in Seen', NEW h \in Handlers, work[h].phone = p
      PROVE  FALSE
  <2>1. PICK r \in Requests : api[r].via = h
    BY <1>3, <1>6 DEF KnownInv, Owned
  <2>2. api[r].phone = p
    BY <1>6, <2>1, SessionAssumption DEF SessionInv, RequestsInv, RequestOK
  <2>3. QED
    BY <1>3, <2>2
<1>7. \A p \in Seen' : Owned(p)'
  BY <1>2, <1>6 DEF Owned
<1>8. \A p \in Seen' : SignedIsKnown(p)'
  BY <1>2, <1>3 DEF KnownInv, SignedIsKnown, SignedLive, Known, Live
<1>9. QED
  BY <1>2, <1>4, <1>5, <1>7, <1>8 DEF KnownInv

\* Nobody waits for the answer.
LEMMA KnownDiscard ==
  ASSUME SessionInv, SingleInv, KnownInv, NEW h \in Handlers, Discard(h)
  PROVE  KnownInv'
<1>1. /\ Answer(h) /\ WorkInv /\ SidecarBound /\ Boot \in Requests
      /\ UNCHANGED <<account, api, contended, missed, clients, client, auth, overlap>>
      /\ \A r \in Requests : api[r].via # h
  BY DEF Discard, Answer, SessionInv, StrayInv, sessionVars, KnownInv, BindInv, Requests
<1>2. Others(h) /\ work'[h] = NoWork
  BY <1>1, AnswerFacts
<1>3. SidecarBound'
  BY <1>1, <1>2, NoWorkType, SidecarBoundApi
<1>4. \A r \in Requests : api[r].via # NoHandler => work'[api[r].via] = work[api[r].via]
  BY <1>1, <1>2 DEF Others, SessionInv, SessionTypeOK, ApiStates
<1>5. \A r \in Requests : api[r].pc = "asked" => work'[api[r].via] = work[api[r].via]
  BY <1>4 DEF SessionInv, RequestsInv, RequestOK
<1>6. \A p : (Known(p)' <=> Known(p)) /\ (Silent(p)' <=> Silent(p))
  BY <1>1 DEF Known, Silent, Live
<1>7. /\ RequestBound(Boot)' /\ RequestFits(Boot)' /\ (Saving(Boot) => Saving(Boot)')
      /\ api[Boot].phone \in Seen => RequestKnows(Boot)'
  BY <1>1, <1>5, <1>6
  DEF KnownInv, BindInv, RequestBound, Bound, RequestFits, Saving, RequestKnows, Dropped
<1>8. \A g \in Handlers : work'[g].phone \in Seen' =>
        api'[Boot].via = g \/ (work'[g].phone = work[g].phone /\ api[Boot].via # g)
  BY <1>1, <1>2, NoWorkType, WorkerAssumption DEF Others, Seen
<1>9. OnlyApi(Boot) /\ Seen' = Seen
  BY <1>1 DEF OnlyApi, Seen
<1>10. QED
  BY <1>1, <1>3, <1>4, <1>6, <1>7, <1>8, <1>9, KnownStepOf

LEMMA KnownStep ==
  ASSUME SessionInv, SingleInv, AccountsInv, KeysInv, KnownInv, [TelegramNext]_telegramVars
  PROVE  KnownInv'
<1>1. contended \subseteq contended'
  BY SingleStep
<1>2. ASSUME NEW r \in Tabs, TabStep(r)
      PROVE  KnownInv'
  BY <1>1, <1>2, KnownTab
<1>3. ASSUME NEW r \in Requests, ApiStep(r)
      PROVE  KnownInv'
  BY <1>3, KnownPick, KnownSave, KnownHear, KnownFind, KnownWrite, KnownClear, KnownOver
  DEF ApiStep
<1>4. CASE RestoreNext \/ Restored
  BY <1>4, KnownRestore, KnownOver DEF Requests
<1>5. CASE ApiCrash
  BY <1>5, KnownCrash
<1>6. CASE WorkerStep /\ UNCHANGED sessionVars
  BY <1>6, KnownSidecar
<1>7. ASSUME NEW h \in Handlers, Discard(h)
      PROVE  KnownInv'
  BY <1>7, KnownDiscard
<1>8. CASE UNCHANGED telegramVars
  <2>1. /\ UNCHANGED <<clients, client, auth, work, overlap>>
        /\ UNCHANGED <<account, api, contended, missed>>
    BY <1>8 DEF telegramVars, workerVars, sessionVars
  <2>2. BindInv' /\ Seen' = Seen
    BY <2>1 DEF KnownInv, BindInv, SidecarBound, ClientsBound, WorkBound, ConnectsAlone,
                RowBound, RequestBound, Bound, Seen
  <2>3. QED
    BY <2>1, <2>2 DEF KnownInv, RequestFits, RequestKnows, Owned, SignedIsKnown, SignedLive,
                      Silent, Live, Known, Saving, Dropped
<1>9. QED
  BY <1>2, <1>3, <1>4, <1>5, <1>6, <1>7, <1>8 DEF TelegramNext

\* KnownInv is inductive together with the invariants of the session above.
LEMMA TelegramKnown == TelegramSpec => []KnownInv
<1>1. TelegramInit => SingleInv /\ AccountsInv /\ KeysInv /\ SignInv /\ KnownInv
  <2>1. SUFFICES ASSUME TelegramInit
                 PROVE  SingleInv /\ AccountsInv /\ KeysInv /\ SignInv /\ KnownInv
    OBVIOUS
  <2>2. \A r \in Requests : api[r] = NoRequest
    BY <2>1 DEF TelegramInit, SessionInit
  <2>3. \A h \in Handlers : work[h] = NoWork
    BY <2>1 DEF TelegramInit, WorkerInit
  <2>4. SingleInv
    BY <2>2, <2>3, NoRequestType, NoWorkType, WorkerAssumption DEF SingleInv, AloneFor
  <2>5. \A c \in Clients : client[c] = Unused
    BY <2>1 DEF TelegramInit, WorkerInit
  <2>6. KeysInv
    BY <2>1, <2>3, <2>5, NoWorkType, UnusedType DEF TelegramInit, WorkerInit, KeysInv, WorkKeys
  <2>7. /\ \A a \in Accounts : account[a].session = NoClient
        /\ \A a, b \in Accounts :
             a # b => account[a].phone = NoPhone \/ account[b].phone = NoPhone
    BY <2>1 DEF TelegramInit, SessionInit, NoRow, OldRow
  <2>8. AccountsInv /\ SignInv
    BY <2>1, <2>2, <2>7, NoRequestType
    DEF AccountsInv, WriteOK, OneAccountPerPhone, SignInv, SignOK, RowSigned, TelegramInit,
        SessionInit, NoRow
  <2>9. /\ auth = [c \in Clients |-> "out"] /\ clients = [p \in Phones |-> NoClient]
        /\ overlap = {} /\ contended = {}
    BY <2>1 DEF TelegramInit, WorkerInit, SessionInit
  <2>10. BindInv
    BY <2>2, <2>3, <2>5, <2>7, <2>9, NoWorkType, NoRequestType, UnusedType
    DEF BindInv, SidecarBound, ClientsBound, WorkBound, ConnectsAlone, RowBound, RequestBound
  <2>11. \A r \in Requests : RequestFits(r) /\ RequestKnows(r)
    BY <2>2, NoRequestType DEF RequestFits, RequestKnows, Dropped
  <2>12. \A p \in Seen : Owned(p) /\ SignedIsKnown(p)
    BY <2>3, <2>5, NoWorkType, UnusedType, WorkerAssumption
    DEF Seen, Owned, SignedIsKnown, SignedLive, Live
  <2>13. QED
    BY <2>4, <2>6, <2>8, <2>9, <2>10, <2>11, <2>12 DEF KnownInv
<1>2. SessionInv /\ SingleInv /\ AccountsInv /\ KeysInv /\ SignInv /\ KnownInv
      /\ [TelegramNext]_telegramVars
        => (SingleInv /\ AccountsInv /\ KeysInv /\ SignInv /\ KnownInv)'
  <2>1. SUFFICES ASSUME SessionInv, SingleInv, AccountsInv, KeysInv, SignInv, KnownInv,
                        [TelegramNext]_telegramVars
                 PROVE  (SingleInv /\ AccountsInv /\ KeysInv /\ SignInv /\ KnownInv)'
    OBVIOUS
  <2>2. SingleInv'
    BY <2>1, SingleStep
  <2>3. AccountsInv'
    BY <2>1, AccountsStep
  <2>4. KeysInv' /\ SignInv'
    BY <2>1, SignStep
  <2>5. KnownInv'
    BY <2>1, KnownStep
  <2>6. QED
    BY <2>2, <2>3, <2>4, <2>5
<1>3. QED
  BY <1>1, <1>2, TelegramInvariant, PTL DEF TelegramSpec

\* A client is connected and signed in, and nothing is under way for its phone:
\* then a row of the phone is connected, whatever failed in the sidecar, unless
\* two requests for the phone were under way at once, or the API gave up on one.
THEOREM TelegramListeningKnown == TelegramSpec => []ListeningIsKnown
<1>1. SessionInv /\ KnownInv => ListeningIsKnown
  <2>1. SUFFICES ASSUME SessionInv, KnownInv, NEW c \in Clients, client[c].link = "up",
                        auth[client[c].key] = "in", ~UnderWay(client[c].phone),
                        client[c].phone \notin contended \cup missed
                 PROVE  \E a \in Connected : account[a].phone = client[c].phone
    BY DEF ListeningIsKnown
  <2>2. client[c].phone \in Seen /\ SignedLive(client[c].phone)
    <3>1. client[c].phone \in Phones
      BY <2>1 DEF SessionInv, StrayInv, WorkInv
    <3>2. QED
      BY <2>1, <3>1 DEF Seen, SignedLive, Live
  <2>3. QED
    BY <2>1, <2>2 DEF KnownInv, SignedIsKnown, Known, UnderWay, Connected
<1>2. QED
  BY <1>1, TelegramKnown, TelegramInvariant, PTL

\* A session is live in one client at most, for any number of phones, tabs,
\* accounts and clients and under every failure, unless two handlers replaced
\* the client of its phone at once: both clients have the phone of the key, and
\* the sidecar has lost sight of neither.
THEOREM TelegramSessionLiveOnce == TelegramSpec => []SessionLiveOnce
<1>1. ASSUME NoStrayClient, ClientsBound, NEW c \in Clients, NEW d \in Clients,
             Live(c), Live(d), client[c].key = client[d].key, c # d
      PROVE  client[c].phone \in overlap
  <2>1. Bound(client[c].key, client[c].phone) /\ Bound(client[d].key, client[d].phone)
    BY <1>1 DEF ClientsBound, Live
  <2>2. client[c].phone = client[d].phone
    BY <1>1, <2>1 DEF Bound
  <2>3. QED
    BY <1>1, <2>2 DEF NoStrayClient
<1>2. NoStrayClient /\ KnownInv => SessionLiveOnce
  BY <1>1 DEF SessionLiveOnce, KnownInv, BindInv, SidecarBound
<1>3. QED
  BY <1>2, TelegramKnown, TelegramNoStrayClient, PTL
=============================================================================
