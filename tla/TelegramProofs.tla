--------------------------- MODULE TelegramProofs ---------------------------
(***************************************************************************)
(* What the login of a Telegram account keeps, for any number of phones,   *)
(* tabs, accounts and clients, and under every failure.                    *)
(***************************************************************************)
EXTENDS TelegramSession, WorkerProofs

----------------------------------------------------------------------------
SessionTypeOK ==
  /\ account \in [Accounts -> AccountRows]
  /\ api \in [Requests -> ApiStates]
  /\ tab \in [Tabs -> TabStates]
  /\ contended \subseteq Phones
  /\ missed \subseteq Phones

\* What a request holds at each of its awaits.
RequestOK(r) ==
  /\ api[r].pc = "asked" <=> api[r].via # NoHandler
  /\ api[r].pc = "idle" => api[r] = NoRequest
  /\ api[r].pc = "pick" => api[r].op \in {"reconnect", "logout"}
  /\ api[r].pc \in {"asked", "find", "write", "clear"} => api[r].phone \in Phones
  /\ (api[r].pc = "clear" \/ (api[r].pc = "asked" /\ api[r].op = "logout"))
       => api[r].row \in Accounts
  /\ api[r].pc \in {"find", "write"} => api[r].op \in {"code", "password"}
  /\ api[r].via # NoHandler => /\ work[api[r].via].pc # "idle"
                               /\ work[api[r].via].phone = api[r].phone

\* Two requests never await one handler.
OneVia ==
  \A r, q \in Requests : api[r].via = api[q].via /\ r # q => api[r].via = NoHandler

\* Nothing else is under way while sessions are restored.
BootOK ==
  /\ api[Boot].pc \in {"idle", "next", "asked"}
  /\ api[Boot].pc # "idle" =>
       api[Boot].op = "restore" /\ \A r \in Tabs : api[r].pc = "idle"
  /\ \A r \in Tabs : api[r].op # "restore" /\ api[r].pc # "next"
  /\ \A a \in api[Boot].todo : account[a].connected

RequestsInv == (\A r \in Requests : RequestOK(r)) /\ OneVia /\ BootOK

RowsInv ==
  \A a \in Accounts : account[a].connected => account[a].phone \in Phones

\* A tab past the first step of the wizard, or about to be, has a phone.
TabOK(r) ==
  /\ tab[r].step # "start" => tab[r].phone \in Phones
  /\ api[r].pc = "asked" /\ api[r].op \in {"start", "code", "password"}
       => tab[r].phone \in Phones

TabsInv == \A r \in Tabs : TabOK(r)

SessionInv == StrayInv /\ SessionTypeOK /\ RequestsInv /\ RowsInv /\ TabsInv

LEMMA NoRequestType ==
  /\ NoRequest \in ApiStates
  /\ NoRequest.pc = "idle" /\ NoRequest.op = "none" /\ NoRequest.phone = NoPhone
  /\ NoRequest.via = NoHandler /\ NoRequest.row = NoAccount
  /\ NoRequest.session = NoClient /\ NoRequest.todo = {}
  BY DEF NoRequest, ApiStates, ApiSteps, ApiOps

LEMMA TelegramInitInv == TelegramInit => SessionInv
<1>1. SUFFICES ASSUME TelegramInit
               PROVE  SessionInv
  OBVIOUS
<1>2. StrayInv
  BY <1>1, WorkerInitInv DEF TelegramInit
<1>3. /\ NoRow \in AccountRows /\ NoRow.connected = FALSE
      /\ \A p \in Phones : OldRow(p) \in AccountRows /\ OldRow(p).phone = p
  BY DEF NoRow, OldRow, AccountRows
<1>4. NewTab \in TabStates /\ NewTab.step = "start"
  BY DEF NewTab, TabStates
<1>5. account \in [Accounts -> AccountRows] /\ RowsInv
  <2>1. CASE account = [a \in Accounts |-> NoRow]
    BY <1>3, <2>1 DEF RowsInv
  <2>2. CASE \E b \in Accounts, p \in Phones :
               account = [a \in Accounts |-> IF a = b THEN OldRow(p) ELSE NoRow]
    BY <1>3, <2>2 DEF RowsInv
  <2>3. QED
    BY <1>1, <2>1, <2>2 DEF TelegramInit, SessionInit
<1>8. SessionTypeOK /\ TabsInv
  BY <1>1, <1>4, <1>5, NoRequestType
  DEF TelegramInit, SessionInit, SessionTypeOK, TabsInv, TabOK, Requests
<1>6. RequestsInv
  BY <1>1, NoRequestType
  DEF TelegramInit, SessionInit, RequestsInv, RequestOK, OneVia, BootOK, Requests
<1>7. QED
  BY <1>2, <1>5, <1>6, <1>8 DEF SessionInv

----------------------------------------------------------------------------
(***************************************************************************)
(* What the parts of a step do.                                            *)
(***************************************************************************)
\* Every request of a tab, and the restoration, changes its own record only.
OnlyApi(r) == \A q \in Requests \ {r} : api'[q] = api[q]

LEMMA ApiFacts ==
  ASSUME SessionTypeOK, NEW r \in Requests, NEW new \in ApiStates,
         api' = [api EXCEPT ![r] = new]
  PROVE  api' \in [Requests -> ApiStates] /\ OnlyApi(r) /\ api'[r] = new
  BY DEF SessionTypeOK, OnlyApi

LEMMA DoneFacts ==
  ASSUME SessionTypeOK, NEW r \in Requests, Done(r)
  PROVE  api' \in [Requests -> ApiStates] /\ OnlyApi(r) /\ api'[r] = NoRequest
  BY NoRequestType, ApiFacts DEF Done

LEMMA NextAccountFacts ==
  ASSUME SessionTypeOK, NEW r \in Requests, NextAccount(r)
  PROVE  /\ api' \in [Requests -> ApiStates] /\ OnlyApi(r)
         /\ api'[r].pc = "next" /\ api'[r].op = "restore" /\ api'[r].phone = NoPhone
         /\ api'[r].via = NoHandler /\ api'[r].todo = api[r].todo
<1> DEFINE new == [NoRequest EXCEPT !.pc = "next", !.op = "restore", !.todo = api[r].todo]
<1>1. api[r].todo \in SUBSET Accounts
  BY DEF SessionTypeOK, ApiStates
<1>2. /\ new \in ApiStates /\ new.pc = "next" /\ new.op = "restore"
      /\ new.phone = NoPhone /\ new.via = NoHandler /\ new.todo = api[r].todo
  BY <1>1, NoRequestType DEF ApiStates, ApiSteps, ApiOps
<1>3. QED
  BY <1>2, ApiFacts DEF NextAccount

LEMMA CallFacts ==
  ASSUME WorkInv, NEW h \in Handlers, NEW op \in Ops, NEW p \in Phones,
         NEW k \in Clients \cup {NoClient}, Call(h, op, p, k)
  PROVE  /\ work' \in [Handlers -> Works] /\ Others(h)
         /\ work'[h].pc = "called" /\ work'[h].op = op /\ work'[h].phone = p
         /\ work'[h].session = k /\ work'[h].reply = "none"
<1> DEFINE w == [NoWork EXCEPT !.pc = "called", !.op = op, !.phone = p, !.session = k]
<1>1. /\ w \in Works /\ w.pc = "called" /\ w.op = op /\ w.phone = p
      /\ w.session = k /\ w.reply = "none"
  BY NoWorkType DEF Works, WorkSteps
<1>2. work' = [work EXCEPT ![h] = w]
  BY DEF Call
<1>3. QED
  BY <1>1, <1>2 DEF WorkInv, WorkerTypeOK, Others

LEMMA AnswerFacts ==
  ASSUME WorkInv, NEW h \in Handlers, Answer(h)
  PROVE  work' \in [Handlers -> Works] /\ Others(h) /\ work'[h] = NoWork
  BY NoWorkType DEF Answer, WorkInv, WorkerTypeOK, Others

LEMMA AskFacts ==
  ASSUME SessionInv, NEW r \in Requests, NEW req \in ApiStates, NEW op \in Ops,
         NEW p \in Phones, NEW k \in Clients \cup {NoClient}, Ask(r, req, op, p, k)
  PROVE  \E h \in Handlers :
           /\ work[h].pc = "idle" /\ Call(h, op, p, k)
           /\ work' \in [Handlers -> Works] /\ Others(h)
           /\ work'[h].pc = "called" /\ work'[h].op = op /\ work'[h].phone = p
           /\ work'[h].session = k /\ work'[h].reply = "none"
           /\ api' \in [Requests -> ApiStates] /\ OnlyApi(r)
           /\ api'[r].pc = "asked" /\ api'[r].via = h /\ api'[r].phone = p
           /\ api'[r].op = req.op /\ api'[r].row = req.row
           /\ api'[r].session = req.session /\ api'[r].todo = req.todo
<1>1. PICK h \in Handlers :
        /\ work[h].pc = "idle" /\ Call(h, op, p, k)
        /\ api' = [api EXCEPT ![r] = [req EXCEPT !.pc = "asked", !.via = h, !.phone = p]]
  BY DEF Ask
<1> DEFINE new == [req EXCEPT !.pc = "asked", !.via = h, !.phone = p]
<1>2. /\ new \in ApiStates /\ new.pc = "asked" /\ new.via = h /\ new.phone = p
      /\ new.op = req.op /\ new.row = req.row
      /\ new.session = req.session /\ new.todo = req.todo
  BY DEF ApiStates, ApiSteps
<1>3. /\ api' \in [Requests -> ApiStates] /\ OnlyApi(r) /\ api'[r] = new
  BY <1>1, <1>2, ApiFacts DEF SessionInv
<1>4. WITNESS h \in Handlers
<1>5. QED
  BY <1>1, <1>2, <1>3, CallFacts DEF SessionInv, StrayInv

LEMMA AskFrame ==
  ASSUME SessionInv, NEW r \in Requests, NEW req \in ApiStates, NEW op \in Ops,
         NEW p \in Phones, NEW k \in Clients \cup {NoClient}, Ask(r, req, op, p, k)
  PROVE  OnlyApi(r) /\ api'[r].pc = "asked" /\ api'[r].op = req.op /\ api'[r].todo = req.todo
  BY AskFacts

\* No handler forgets its request, and an answer stays until it is heard.
LEMMA WorkerStepKeeps ==
  ASSUME WorkInv, WorkerStep, NEW h \in Handlers
  PROVE  /\ work'[h].phone = work[h].phone /\ work'[h].op = work[h].op
         /\ work[h].pc = "idle" <=> work'[h].pc = "idle"
         /\ work[h].pc = "replied" => work'[h] = work[h]
<1> DEFINE Keeps == /\ work'[h].phone = work[h].phone /\ work'[h].op = work[h].op
                    /\ work[h].pc = "idle" <=> work'[h].pc = "idle"
                    /\ work[h].pc = "replied" => work'[h] = work[h]
<1>0. work[h] \in Works
  BY DEF WorkInv, WorkerTypeOK
<1>1. ASSUME NEW g \in Handlers, HandlerStep(g), g # h
      PROVE  Keeps
  <2>1. work'[h] = work[h]
    BY <1>1 DEF HandlerStep, InvalidSession, NoCodeSent, Replace, Register,
         PreviousDropped, Connect, ConnectFails, Unwind,
         SendCode, SendFails, Require, SignIn, PasswordNeeded, Refuse, SaveSession,
         Disconnect, FinishDisconnect, Reply, GoOn, WorkInv, WorkerTypeOK
  <2>2. QED
    BY <2>1
<1>2. ASSUME HandlerStep(h)
      PROVE  Keeps
  <2>1. work[h].pc \notin {"idle", "replied"}
    BY <1>2 DEF HandlerStep, InvalidSession, NoCodeSent, Replace, PreviousDropped,
         Connect, ConnectFails, Unwind,
         SendCode, SendFails, Require, SignIn, PasswordNeeded, Signing, Refuse, SaveSession,
         Disconnect, FinishDisconnect
  <2>2. ASSUME NEW r \in Replies, Reply(h, r)
        PROVE  Keeps
    BY <2>1, <2>2, ReplyFacts
  <2>3. ASSUME NEW pc \in WorkSteps \ {"idle"}, GoOn(h, pc)
        PROVE  Keeps
    BY <2>1, <2>3, GoOnFacts
  <2>4. CASE Register(h)
    BY <1>0, <2>1, <2>4 DEF Register, WorkInv, WorkerTypeOK, Works
  <2>5. CASE \E pc \in {"dropping", "signing"} : \E c \in Clients \cup {NoClient} :
               work' = [work EXCEPT ![h].pc = pc, ![h].client = c]
    BY <1>0, <2>1, <2>5 DEF WorkInv, WorkerTypeOK, Works
  <2>6. CASE \E k \in Clients \cup {NoClient} :
               work' = [work EXCEPT ![h].pc = "replied", ![h].reply = "ok", ![h].session = k]
    BY <1>0, <2>1, <2>6 DEF WorkInv, WorkerTypeOK, Works
  <2>7. Held(h) \in Clients \cup {NoClient}
    BY <2>1 DEF WorkInv, WorkOK, WorkerTypeOK, Held
  <2>8. Held(h) # NoClient => client[Held(h)].key \in Clients \cup {NoClient}
    BY <2>7 DEF WorkInv, WorkerTypeOK, ClientStates
  <2>9. /\ {"ok", "error", "password"} \subseteq Replies
        /\ {"sending", "unwinding", "dropped"} \subseteq WorkSteps \ {"idle"}
    BY DEF Replies, WorkSteps
  <2>10. CASE Replace(h) \/ PreviousDropped(h)
    BY <2>4, <2>5, <2>7, <2>10 DEF Replace, PreviousDropped
  <2>11. CASE \/ Connect(h) \/ ConnectFails(h) \/ Unwind(h) \/ SendCode(h) \/ SendFails(h)
              \/ SignIn(h) \/ PasswordNeeded(h) \/ Refuse(h) \/ Disconnect(h)
              \/ FinishDisconnect(h) \/ InvalidSession(h) \/ NoCodeSent(h)
    BY <2>2, <2>3, <2>9, <2>11
    DEF Connect, ConnectFails, Unwind, SendCode, SendFails, SignIn, PasswordNeeded,
        Refuse, Disconnect, FinishDisconnect, InvalidSession, NoCodeSent
  <2>12. CASE Require(h) \/ SaveSession(h)
    BY <2>2, <2>5, <2>6, <2>7, <2>8, <2>9, <2>12 DEF Require, SaveSession
  <2>13. QED
    BY <1>2, <2>10, <2>11, <2>12 DEF HandlerStep
<1>3. ASSUME NEW c \in Clients, LinkLost(c)
      PROVE  Keeps
  BY <1>3 DEF LinkLost
<1>4. CASE WorkerStop
  BY <1>0, <1>4, NoWorkType DEF WorkerStop, Works
<1>5. QED
  BY <1>1, <1>2, <1>3, <1>4 DEF WorkerStep

----------------------------------------------------------------------------
(***************************************************************************)
(* The steps that keep the parts of SessionInv.                            *)
(***************************************************************************)
\* Every step takes the sidecar as one of its own steps does.
LEMMA StrayKept ==
  ASSUME StrayInv,
         \/ UNCHANGED workerVars
         \/ WorkerStep
         \/ \E h \in Handlers : Answer(h)
         \/ \E h \in Handlers, op \in Ops, p \in Phones, k \in Clients \cup {NoClient} :
               Call(h, op, p, k)
  PROVE  StrayInv'
<1>1. [WorkerNext]_workerVars
  BY DEF WorkerNext
<1>2. QED
  BY <1>1, WorkerStepInv

\* A step of one request, on a handler that no other request awaits.
LEMMA RequestStep ==
  ASSUME SessionInv, NEW r \in Requests, OnlyApi(r), RequestOK(r)',
         \A q \in Requests \ {r} : api[q].via # NoHandler =>
           /\ work'[api[q].via].pc # "idle"
           /\ work'[api[q].via].phone = work[api[q].via].phone,
         \A q \in Requests \ {r} : api'[r].via # NoHandler => api[q].via # api'[r].via
  PROVE  (\A q \in Requests : RequestOK(q)') /\ OneVia'
<1>1. ASSUME NEW q \in Requests \ {r}
      PROVE  RequestOK(q)'
  <2>1. api'[q] = api[q] /\ RequestOK(q)
    BY DEF OnlyApi, SessionInv, RequestsInv
  <2>2. QED
    BY <2>1 DEF RequestOK
<1>2. OneVia'
  BY DEF OnlyApi, OneVia, SessionInv, RequestsInv
<1>3. QED
  BY <1>1, <1>2

\* A request awaits a handler of its own.
LEMMA OwnHandler ==
  ASSUME SessionInv, NEW r \in Requests, api[r].pc = "asked"
  PROVE  /\ api[r].via \in Handlers /\ api[r].phone \in Phones
         /\ work[api[r].via].pc # "idle" /\ work[api[r].via].phone = api[r].phone
         /\ \A q \in Requests \ {r} : api[q].via # api[r].via
<1>1. RequestOK(r) /\ api[r] \in ApiStates
  BY DEF SessionInv, RequestsInv, SessionTypeOK
<1>2. api[r].via \in Handlers
  BY <1>1 DEF RequestOK, ApiStates
<1>3. QED
  BY <1>1, <1>2, SessionAssumption DEF RequestOK, SessionInv, RequestsInv, OneVia

\* While a tab's request is under way, nothing is being restored.
LEMMA TabRequest ==
  ASSUME SessionInv, NEW r \in Requests, api[r].pc # "idle" /\ api[r].op # "restore"
  PROVE  r \in Tabs /\ api[Boot].pc = "idle"
  BY DEF SessionInv, RequestsInv, BootOK, Requests

LEMMA BootKept ==
  ASSUME SessionInv, NEW r \in Tabs, OnlyApi(r),
         api[r].pc # "idle" \/ api[Boot].pc = "idle",
         api'[r].op # "restore", api'[r].pc # "next"
  PROVE  BootOK'
<1>1. Boot \in Requests /\ Boot # r /\ r \in Requests
  BY SessionAssumption DEF Requests
<1>2. api[Boot].pc = "idle"
  BY DEF SessionInv, RequestsInv, BootOK
<1>3. api[Boot] = NoRequest /\ api'[Boot] = NoRequest
  BY <1>1, <1>2 DEF SessionInv, RequestsInv, RequestOK, OnlyApi
<1>4. \A q \in Tabs \ {r} : api'[q] = api[q]
  BY DEF OnlyApi, Requests
<1>5. QED
  BY <1>3, <1>4, NoRequestType DEF BootOK, SessionInv, RequestsInv

\* A request ends, or goes on without a handler; the sidecar stands still.
LEMMA QuietStep ==
  ASSUME SessionInv, NEW r \in Tabs, OnlyApi(r), UNCHANGED workerVars,
         api' \in [Requests -> ApiStates],
         account' \in [Accounts -> AccountRows], tab' \in [Tabs -> TabStates],
         contended' \subseteq Phones, missed' \subseteq Phones, RowsInv',
         \A q \in Tabs \ {r} : tab'[q] = tab[q],
         tab'[r].step # "start" => tab'[r].phone \in Phones,
         api[r].pc # "idle" \/ api[Boot].pc = "idle",
         api'[r].op # "restore", api'[r].pc # "next", RequestOK(r)', api'[r].via = NoHandler
  PROVE  SessionInv'
<1>1. r \in Requests
  BY DEF Requests
<1>2. StrayInv'
  BY StrayKept DEF SessionInv
<1>3. BootOK'
  BY BootKept
<1>4. work' = work
  BY DEF workerVars
<1>5. \A q \in Requests : api[q].via # NoHandler =>
           /\ work'[api[q].via].pc # "idle"
           /\ work'[api[q].via].phone = work[api[q].via].phone
  BY <1>4 DEF SessionInv, RequestsInv, RequestOK
<1>6. (\A q \in Requests : RequestOK(q)') /\ OneVia'
  BY <1>1, <1>5, RequestStep
<1>7. TabsInv'
  <2>1. TabOK(r)'
    BY SessionAssumption DEF RequestOK, TabOK
  <2>2. \A q \in Tabs \ {r} : TabOK(q)'
    BY DEF OnlyApi, Requests, TabOK, SessionInv, TabsInv
  <2>3. QED
    BY <2>1, <2>2 DEF TabsInv
<1>8. QED
  BY <1>2, <1>3, <1>6, <1>7 DEF SessionInv, SessionTypeOK, RequestsInv

\* A request is sent to the sidecar.
LEMMA AskStep ==
  ASSUME SessionInv, NEW r \in Requests, NEW req \in ApiStates, NEW op \in Ops,
         NEW p \in Phones, NEW k \in Clients \cup {NoClient}, Ask(r, req, op, p, k),
         account' = account, tab' \in [Tabs -> TabStates], missed' = missed,
         \A q \in Tabs \ {r} : tab'[q] = tab[q],
         r \in Tabs /\ (tab'[r].step # "start" \/ req.op \in {"start", "code", "password"})
           => tab'[r].phone \in Phones,
         req.op = "logout" => req.row \in Accounts, BootOK'
  PROVE  SessionInv'
<1>1. PICK h \in Handlers :
           /\ work[h].pc = "idle" /\ Call(h, op, p, k)
           /\ work' \in [Handlers -> Works] /\ Others(h)
           /\ work'[h].pc = "called" /\ work'[h].op = op /\ work'[h].phone = p
           /\ api' \in [Requests -> ApiStates] /\ OnlyApi(r)
           /\ api'[r].pc = "asked" /\ api'[r].via = h /\ api'[r].phone = p
           /\ api'[r].op = req.op /\ api'[r].row = req.row
  BY AskFacts
<1>2. StrayInv'
  BY <1>1, StrayKept DEF SessionInv
<1>3. RequestOK(r)'
  BY <1>1, SessionAssumption DEF RequestOK
<1>4. \A q \in Requests \ {r} : api[q].via # h
  BY <1>1, SessionAssumption DEF SessionInv, RequestsInv, RequestOK
<1>5. \A q \in Requests \ {r} : api[q].via # NoHandler =>
           /\ work'[api[q].via].pc # "idle"
           /\ work'[api[q].via].phone = work[api[q].via].phone
  <2>1. SUFFICES ASSUME NEW q \in Requests \ {r}, api[q].via # NoHandler
                 PROVE  /\ work'[api[q].via].pc # "idle"
                        /\ work'[api[q].via].phone = work[api[q].via].phone
    OBVIOUS
  <2>2. api[q].via \in Handlers \ {h} /\ work[api[q].via].pc # "idle"
    BY <1>4, <2>1 DEF SessionInv, SessionTypeOK, ApiStates, RequestsInv, RequestOK
  <2>3. QED
    BY <1>1, <2>2 DEF Others
<1>6. (\A q \in Requests : RequestOK(q)') /\ OneVia'
  BY <1>1, <1>3, <1>4, <1>5, RequestStep
<1>7. contended' \subseteq Phones
  BY DEF Ask, SessionInv, SessionTypeOK
<1>8. SessionTypeOK'
  BY <1>1, <1>7 DEF SessionInv, SessionTypeOK
<1>9. RowsInv' /\ TabsInv'
  <2>1. r \in Tabs => TabOK(r)'
    BY <1>1 DEF TabOK
  <2>2. \A q \in Tabs \ {r} : TabOK(q)'
    BY <1>1 DEF OnlyApi, Requests, TabOK, SessionInv, TabsInv
  <2>3. QED
    BY <2>1, <2>2 DEF TabsInv, RowsInv, SessionInv
<1>10. QED
  BY <1>2, <1>6, <1>8, <1>9 DEF SessionInv, RequestsInv

----------------------------------------------------------------------------
(***************************************************************************)
(* Every action keeps SessionInv.                                          *)
(***************************************************************************)
LEMMA LoginInv ==
  ASSUME SessionInv, NEW r \in Tabs, NEW op \in {"start", "code", "password"},
         NEW p \in Phones, Login(r, op, p)
  PROVE  SessionInv'
<1>0. [NoRequest EXCEPT !.op = op] \in ApiStates /\ [NoRequest EXCEPT !.op = op].op = op
  BY NoRequestType DEF ApiStates, ApiOps
<1>1. PICK req \in ApiStates : req = [NoRequest EXCEPT !.op = op] /\ req.op = op
  BY <1>0
<1>2. r \in Requests /\ op \in Ops /\ NoClient \in Clients \cup {NoClient}
  BY DEF Requests, Ops, Lifecycle
<1>3. Ask(r, req, op, p, NoClient) /\ Ready(r) /\ UNCHANGED <<account, missed>>
  BY <1>1 DEF Login
<1>4. /\ tab' \in [Tabs -> TabStates] /\ tab'[r].phone = p
      /\ \A q \in Tabs \ {r} : tab'[q] = tab[q]
  BY DEF Login, SessionInv, SessionTypeOK, TabStates
<1>5. OnlyApi(r) /\ api'[r].pc = "asked" /\ api'[r].op = req.op
  BY <1>2, <1>3, AskFrame
<1>6. BootOK'
  BY <1>1, <1>3, <1>5, BootKept DEF Ready
<1>7. req.op # "logout"
  BY <1>1
<1>8. QED
  BY <1>1, <1>2, <1>3, <1>4, <1>6, <1>7, AskStep

LEMMA TabStepInv ==
  ASSUME SessionInv, NEW r \in Tabs, TabStep(r)
  PROVE  SessionInv'
<1>0. r \in Requests
  BY DEF Requests
<1>1. CASE \/ \E p \in Phones : StartLogin(r, p)
           \/ SubmitCode(r) \/ SubmitPassword(r)
  BY <1>1, LoginInv DEF StartLogin, SubmitCode, SubmitPassword, SessionInv, TabsInv, TabOK
<1>2. ASSUME NEW op \in {"reconnect", "logout"}, ReconnectOrLogout(r, op)
      PROVE  SessionInv'
  <2> DEFINE new == [NoRequest EXCEPT !.pc = "pick", !.op = op]
  <2>1. new \in ApiStates /\ new.pc = "pick" /\ new.op = op /\ new.via = NoHandler
    BY NoRequestType DEF ApiStates, ApiSteps, ApiOps
  <2>2. api' \in [Requests -> ApiStates] /\ OnlyApi(r) /\ api'[r] = new
    BY <1>0, <1>2, <2>1, ApiFacts DEF ReconnectOrLogout, SessionInv
  <2>3. RequestOK(r)'
    BY <2>1, <2>2 DEF RequestOK
  <2>4. UNCHANGED <<workerVars, account, tab, contended, missed>> /\ Ready(r)
    BY <1>2 DEF ReconnectOrLogout
  <2>5. /\ account' \in [Accounts -> AccountRows] /\ tab' \in [Tabs -> TabStates]
        /\ contended' \subseteq Phones /\ missed' \subseteq Phones /\ RowsInv'
        /\ \A q \in Tabs \ {r} : tab'[q] = tab[q]
        /\ tab'[r].step # "start" => tab'[r].phone \in Phones
    BY <2>4 DEF SessionInv, SessionTypeOK, RowsInv, TabsInv, TabOK
  <2>6. QED
    BY <2>1, <2>2, <2>3, <2>4, <2>5, QuietStep DEF Ready
<1>3. CASE Reload(r)
  <2>1. UNCHANGED <<workerVars, account, api, contended, missed>>
    BY <1>3 DEF Reload
  <2>2. NewTab \in TabStates /\ NewTab.step = "start"
    BY DEF NewTab, TabStates
  <2>3. /\ tab' \in [Tabs -> TabStates] /\ tab'[r] = NewTab
        /\ \A q \in Tabs \ {r} : tab'[q] = tab[q]
    BY <1>3, <2>2 DEF Reload, SessionInv, SessionTypeOK
  <2>4. api[r].pc = "idle"
    BY <1>3 DEF Reload, Ready
  <2>5. RowsInv' /\ TabsInv'
    BY <2>1, <2>2, <2>3, <2>4 DEF SessionInv, RowsInv, TabsInv, TabOK
  <2>6. StrayInv'
    BY <2>1, StrayKept DEF SessionInv
  <2>7. SessionTypeOK'
    BY <2>1, <2>3 DEF SessionInv, SessionTypeOK
  <2>8. RequestsInv'
    BY <2>1 DEF workerVars, SessionInv, RequestsInv, RequestOK, OneVia, BootOK
  <2>9. QED
    BY <2>5, <2>6, <2>7, <2>8 DEF SessionInv
<1>4. QED
  BY <1>1, <1>2, <1>3 DEF TabStep

\* What reconnect, logout and the restoration ask of the sidecar.
LEMMA PickAsk ==
  ASSUME SessionInv, NEW r \in Requests, Pick(r)
  PROVE  \E req \in ApiStates, op \in Ops, p \in Phones, k \in Clients \cup {NoClient} :
           /\ Ask(r, req, op, p, k)
           /\ req.op = api[r].op /\ req.row \in Accounts
<1>1. api[r] \in ApiStates
  BY DEF SessionInv, SessionTypeOK
<1>2. PICK a \in Accounts :
        /\ account[a].connected
        /\ Ask(r, [api[r] EXCEPT !.row = a],
               IF api[r].op = "logout" THEN "disconnect" ELSE "connect",
               account[a].phone, account[a].session)
  BY DEF Pick, Connected
<1>3. /\ [api[r] EXCEPT !.row = a] \in ApiStates
      /\ [api[r] EXCEPT !.row = a].op = api[r].op /\ [api[r] EXCEPT !.row = a].row = a
  BY <1>1 DEF ApiStates
<1>4. account[a].phone \in Phones /\ account[a].session \in Clients \cup {NoClient}
  BY <1>2 DEF SessionInv, SessionTypeOK, AccountRows, RowsInv
<1>5. "disconnect" \in Ops /\ "connect" \in Ops
  BY DEF Ops, Lifecycle
<1>6. QED
  BY <1>2, <1>3, <1>4, <1>5

LEMMA RestoreAsk ==
  ASSUME SessionInv, RestoreNext
  PROVE  \E req \in ApiStates, op \in Ops, p \in Phones, k \in Clients \cup {NoClient} :
           /\ Ask(Boot, req, op, p, k)
           /\ req.op = "restore" /\ req.todo \subseteq api[Boot].todo
<1>1. /\ api[Boot].pc = "next" /\ api[Boot] \in ApiStates /\ api[Boot].op = "restore"
  BY DEF RestoreNext, Requests, SessionInv, SessionTypeOK, RequestsInv, BootOK
<1>2. PICK a \in api[Boot].todo :
        Ask(Boot, [api[Boot] EXCEPT !.todo = @ \ {a}],
            "connect", account[a].phone, account[a].session)
  BY DEF RestoreNext
<1>3. a \in Accounts /\ account[a].connected
  BY <1>1 DEF ApiStates, SessionInv, RequestsInv, BootOK
<1>4. /\ [api[Boot] EXCEPT !.todo = @ \ {a}] \in ApiStates
      /\ [api[Boot] EXCEPT !.todo = @ \ {a}].op = "restore"
      /\ [api[Boot] EXCEPT !.todo = @ \ {a}].todo \subseteq api[Boot].todo
  BY <1>1 DEF ApiStates
<1>5. account[a].phone \in Phones /\ account[a].session \in Clients \cup {NoClient}
  BY <1>3 DEF SessionInv, SessionTypeOK, AccountRows, RowsInv
<1>6. "connect" \in Ops
  BY DEF Ops, Lifecycle
<1>7. QED
  BY <1>2, <1>4, <1>5, <1>6

LEMMA PickInv ==
  ASSUME SessionInv, NEW r \in Requests, Pick(r)
  PROVE  SessionInv'
<1>1. api[r].pc = "pick" /\ api[r] \in ApiStates /\ api[r].op \in {"reconnect", "logout"}
  BY DEF Pick, SessionInv, SessionTypeOK, RequestsInv, RequestOK
<1>2. PICK req \in ApiStates, op \in Ops, p \in Phones, k \in Clients \cup {NoClient} :
        /\ Ask(r, req, op, p, k)
        /\ req.op = api[r].op /\ req.row \in Accounts
  BY PickAsk
<1>3. r \in Tabs /\ api[Boot].pc = "idle"
  BY <1>1, TabRequest
<1>4. OnlyApi(r) /\ api'[r].pc = "asked" /\ api'[r].op = req.op
  BY <1>2, AskFrame
<1>5. BootOK'
  BY <1>1, <1>2, <1>3, <1>4, BootKept
<1>6. UNCHANGED <<account, tab, missed>>
  BY DEF Pick
<1>7. /\ tab' \in [Tabs -> TabStates]
      /\ tab'[r].step # "start" => tab'[r].phone \in Phones
  BY <1>3, <1>6 DEF SessionInv, SessionTypeOK, TabsInv, TabOK
<1>8. QED
  BY <1>1, <1>2, <1>5, <1>6, <1>7, AskStep

\* The steps of a request that leave the sidecar alone.
LEMMA QuietInv ==
  ASSUME SessionInv, NEW r \in Requests,
         \/ PickNone(r) \/ FindAccount(r) \/ WriteAccount(r) \/ ClearAccount(r)
         \/ RejectQuery(r)
  PROVE  SessionInv'
<1>1. /\ api[r].pc \in {"pick", "find", "write", "clear"}
      /\ api[r] \in ApiStates /\ RequestOK(r) /\ SessionTypeOK
      /\ UNCHANGED <<workerVars, contended>>
  BY DEF PickNone, FindAccount, WriteAccount, ClearAccount, RejectQuery,
         SessionInv, SessionTypeOK, RequestsInv
<1>2. r \in Tabs /\ api[Boot].pc = "idle"
  BY <1>1 DEF SessionInv, RequestsInv, BootOK, Requests
<1>3. CASE FindAccount(r)
  <2>1. PICK a \in Accounts \cup {NoAccount} :
          api' = [api EXCEPT ![r].pc = "write", ![r].row = a]
    BY <1>3 DEF FindAccount, RowsOf
  <2>2. /\ api' \in [Requests -> ApiStates] /\ OnlyApi(r)
        /\ api'[r].pc = "write" /\ api'[r].op = api[r].op /\ api'[r].phone = api[r].phone
        /\ api'[r].via = api[r].via
    BY <1>1, <2>1 DEF SessionTypeOK, OnlyApi, ApiStates, ApiSteps
  <2>3. api[r].pc = "find" /\ UNCHANGED <<account, tab, missed>>
    BY <1>3 DEF FindAccount
  <2>4. RequestOK(r)' /\ api'[r].via = NoHandler /\ api'[r].op # "restore"
    BY <1>1, <2>2, <2>3 DEF RequestOK
  <2>5. /\ account' \in [Accounts -> AccountRows] /\ tab' \in [Tabs -> TabStates]
        /\ contended' \subseteq Phones /\ missed' \subseteq Phones /\ RowsInv'
        /\ \A q \in Tabs \ {r} : tab'[q] = tab[q]
        /\ tab'[r].step # "start" => tab'[r].phone \in Phones
    BY <1>1, <1>2, <2>3 DEF SessionInv, SessionTypeOK, RowsInv, TabsInv, TabOK
  <2>6. QED
    BY <1>1, <1>2, <2>2, <2>4, <2>5, QuietStep
<1>4. CASE PickNone(r) \/ WriteAccount(r) \/ ClearAccount(r) \/ RejectQuery(r)
  <2>1. Done(r)
    BY <1>4 DEF PickNone, WriteAccount, ClearAccount, RejectQuery
  <2>2. api' \in [Requests -> ApiStates] /\ OnlyApi(r) /\ api'[r] = NoRequest
    BY <1>1, <2>1, DoneFacts
  <2>3. /\ RequestOK(r)' /\ api'[r].via = NoHandler
        /\ api'[r].op # "restore" /\ api'[r].pc # "next"
    BY <2>2, NoRequestType DEF RequestOK
  <2>4. NewTab \in TabStates /\ NewTab.step = "start"
    BY DEF NewTab, TabStates
  <2>5. /\ tab' \in [Tabs -> TabStates]
        /\ \A q \in Tabs \ {r} : tab'[q] = tab[q]
        /\ tab'[r].step # "start" => tab'[r].phone \in Phones
    <3>1. \/ tab' = tab \/ Show(r, "start") \/ tab' = [tab EXCEPT ![r] = NewTab]
      BY <1>4 DEF PickNone, WriteAccount, ClearAccount, RejectQuery
    <3>2. QED
      BY <1>1, <1>2, <2>4, <3>1 DEF Show, SessionInv, SessionTypeOK, TabsInv, TabOK, TabStates
  <2>6. /\ account' \in [Accounts -> AccountRows]
        /\ \A a \in Accounts : account'[a].connected => account'[a].phone \in Phones
    <3>1. CASE account' = account
      BY <1>1, <3>1 DEF SessionInv, SessionTypeOK, RowsInv
    <3>2. CASE WriteAccount(r)
      <4>1. PICK a \in Accounts \cup {NoAccount} :
              account' = [account EXCEPT ![a] = [phone |-> api[r].phone,
                            session |-> api[r].session, connected |-> TRUE]]
        BY <1>1, <3>2 DEF WriteAccount, ApiStates
      <4>2. api[r].phone \in Phones
        BY <1>1, <3>2 DEF WriteAccount, RequestOK
      <4>3. QED
        BY <1>1, <4>1, <4>2 DEF SessionInv, SessionTypeOK, RowsInv, AccountRows, ApiStates
    <3>3. CASE ClearAccount(r)
      BY <1>1, <3>3 DEF ClearAccount, RequestOK, SessionInv, SessionTypeOK, RowsInv, AccountRows
    <3>4. QED
      BY <1>4, <3>1, <3>2, <3>3 DEF PickNone, RejectQuery
  <2>7. missed' \subseteq Phones
    BY <1>1, <1>4 DEF PickNone, WriteAccount, ClearAccount, RejectQuery, SessionTypeOK, ApiStates
  <2>8. contended' \subseteq Phones /\ RowsInv'
    BY <1>1, <2>6 DEF SessionTypeOK, RowsInv
  <2>9. QED
    BY <1>1, <1>2, <2>2, <2>3, <2>5, <2>6, <2>7, <2>8, QuietStep
<1>5. QED
  BY <1>3, <1>4

LEMMA AskForSessionInv ==
  ASSUME SessionInv, NEW r \in Requests, AskForSession(r)
  PROVE  SessionInv'
<1>1. PICK h \in Handlers : h = api[r].via /\ api[r].pc = "asked"
  BY OwnHandler DEF AskForSession, Answered
<1>2. /\ api[r].phone \in Phones /\ work[h].phone = api[r].phone
      /\ \A q \in Requests \ {r} : api[q].via # h
  BY <1>1, OwnHandler
<1>3. PICK p \in Phones : p = api[r].phone /\ Call(h, "save", p, NoClient)
  BY <1>1, <1>2 DEF AskForSession
<1>4. "save" \in Ops /\ NoClient \in Clients \cup {NoClient} /\ WorkInv
  BY DEF Ops, SessionInv, StrayInv
<1>5. Others(h) /\ work'[h].pc = "called" /\ work'[h].phone = p
  BY <1>3, <1>4, CallFacts
<1>6. UNCHANGED sessionVars
  BY DEF AskForSession
<1>7. StrayInv'
  BY <1>3, <1>4, StrayKept DEF SessionInv
<1>8. SessionTypeOK' /\ RowsInv' /\ TabsInv' /\ OneVia' /\ BootOK'
  BY <1>6 DEF sessionVars, SessionInv, SessionTypeOK, RowsInv, TabsInv, TabOK, RequestsInv,
              OneVia, BootOK
<1>9. ASSUME NEW q \in Requests
      PROVE  RequestOK(q)'
  <2>1. RequestOK(q) /\ api'[q] = api[q] /\ api[q] \in ApiStates
    BY <1>6 DEF sessionVars, SessionInv, RequestsInv, SessionTypeOK
  <2>2. api[q].via # NoHandler => /\ work'[api[q].via].pc # "idle"
                                  /\ work'[api[q].via].phone = api[q].phone
    BY <1>1, <1>2, <1>3, <1>5, <2>1 DEF RequestOK, ApiStates, Others
  <2>3. QED
    BY <2>1, <2>2 DEF RequestOK
<1>10. QED
  BY <1>7, <1>8, <1>9 DEF SessionInv, RequestsInv

\* Whether the answer is heard or given up on, the request goes on without its
\* handler, or ends.
LEMMA ResumeFacts ==
  ASSUME SessionInv, NEW r \in Requests, api[r].pc = "asked", account' = account,
         \/ Resume(r) /\ work[api[r].via] \in Works
         \/ GiveUp(r)
  PROVE  /\ api' \in [Requests -> ApiStates] /\ OnlyApi(r)
         /\ api'[r].via = NoHandler /\ RequestOK(r)' /\ BootOK'
         /\ api'[r].phone \in {api[r].phone, NoPhone}
         /\ api'[r].pc \notin {"asked", "write"}
         /\ api'[r].pc = "find" \/ api'[r].op \in {"code", "password"} =>
              /\ Resume(r) /\ SignedIn(r) /\ ReplyTo(r).op = "save"
              /\ api'[r].session = ReplyTo(r).session
              /\ api'[r].op = api[r].op /\ api'[r].phone = api[r].phone
<1>1. api[r] \in ApiStates /\ RequestOK(r) /\ SessionTypeOK /\ api[r].phone \in Phones
  BY DEF SessionInv, SessionTypeOK, RequestsInv, RequestOK
<1>2. CASE Done(r) /\ api[r].op # "restore"
  <2>1. api' \in [Requests -> ApiStates] /\ OnlyApi(r) /\ api'[r] = NoRequest
    BY <1>1, <1>2, DoneFacts
  <2>2. r \in Tabs
    BY <1>2, TabRequest
  <2>3. BootOK'
    BY <2>1, <2>2, NoRequestType, BootKept
  <2>4. QED
    BY <2>1, <2>3, NoRequestType DEF RequestOK
<1>3. CASE NextAccount(r) /\ api[r].op = "restore"
  <2>1. /\ api' \in [Requests -> ApiStates] /\ OnlyApi(r)
        /\ api'[r].pc = "next" /\ api'[r].op = "restore" /\ api'[r].phone = NoPhone
        /\ api'[r].via = NoHandler /\ api'[r].todo = api[r].todo
    BY <1>1, <1>3, NextAccountFacts
  <2>2. r = Boot
    BY <1>3 DEF SessionInv, RequestsInv, BootOK, Requests
  <2>3. \A q \in Tabs : api'[q] = api[q] /\ api[q].pc = "idle"
    BY <2>1, <2>2, SessionAssumption DEF OnlyApi, Requests, SessionInv, RequestsInv, BootOK
  <2>4. BootOK'
    BY <2>1, <2>2, <2>3 DEF BootOK, SessionInv, RequestsInv
  <2>5. QED
    BY <2>1, <2>4 DEF RequestOK
<1>4. CASE /\ api' = [api EXCEPT ![r].pc = "clear", ![r].via = NoHandler]
           /\ api[r].op = "logout"
  <2>1. /\ api' \in [Requests -> ApiStates] /\ OnlyApi(r)
        /\ api'[r].pc = "clear" /\ api'[r].op = "logout" /\ api'[r].phone = api[r].phone
        /\ api'[r].via = NoHandler /\ api'[r].row = api[r].row
    BY <1>1, <1>4 DEF SessionTypeOK, OnlyApi, ApiStates, ApiSteps
  <2>2. r \in Tabs
    BY <1>4, TabRequest
  <2>3. BootOK'
    BY <2>1, <2>2, BootKept
  <2>4. QED
    BY <1>1, <1>4, <2>1, <2>3 DEF RequestOK
<1>5. CASE /\ Resume(r) /\ SignedIn(r) /\ ReplyTo(r).op = "save"
           /\ work[api[r].via] \in Works
           /\ api' = [api EXCEPT ![r].pc = "find", ![r].via = NoHandler,
                                 ![r].session = ReplyTo(r).session]
  <2>1. ReplyTo(r).session \in Clients \cup {NoClient}
    BY <1>5 DEF ReplyTo, Works
  <2>2. /\ api' \in [Requests -> ApiStates] /\ OnlyApi(r)
        /\ api'[r].pc = "find" /\ api'[r].op = api[r].op /\ api'[r].phone = api[r].phone
        /\ api'[r].via = NoHandler /\ api'[r].session = ReplyTo(r).session
    BY <1>1, <1>5, <2>1 DEF SessionTypeOK, OnlyApi, ApiStates, ApiSteps
  <2>3. api[r].op \in {"code", "password"}
    BY <1>5 DEF SignedIn
  <2>4. r \in Tabs
    BY <2>3, TabRequest
  <2>5. BootOK'
    BY <2>2, <2>3, <2>4, BootKept
  <2>6. QED
    BY <1>1, <1>5, <2>2, <2>3, <2>5 DEF RequestOK
<1>6. QED
  BY <1>2, <1>3, <1>4, <1>5 DEF Resume, GiveUp

LEMMA HearInv ==
  ASSUME SessionInv, NEW r \in Requests, Hear(r)
  PROVE  SessionInv'
<1>1. PICK h \in Handlers : h = api[r].via /\ api[r].pc = "asked" /\ Answer(h)
  BY OwnHandler DEF Hear, Answered
<1>2. \A q \in Requests \ {r} : api[q].via # h
  BY <1>1, OwnHandler
<1>3. work[h] \in Works /\ WorkInv
  BY DEF SessionInv, StrayInv, WorkInv, WorkerTypeOK
<1>4. /\ Others(h)
      /\ UNCHANGED <<account, contended, missed>>
  BY <1>1, <1>3, AnswerFacts DEF Hear
<1>5. /\ api' \in [Requests -> ApiStates] /\ OnlyApi(r)
      /\ api'[r].via = NoHandler /\ RequestOK(r)' /\ BootOK'
  BY <1>1, <1>3, <1>4, ResumeFacts DEF Hear
<1>6. ASSUME NEW q \in Requests \ {r}, api[q].via # NoHandler
      PROVE  work'[api[q].via].pc # "idle" /\ work'[api[q].via].phone = work[api[q].via].phone
  <2>1. api[q].via \in Handlers \ {h} /\ work[api[q].via].pc # "idle"
    BY <1>2, <1>6 DEF SessionInv, SessionTypeOK, ApiStates, RequestsInv, RequestOK
  <2>2. QED
    BY <1>4, <2>1 DEF Others
<1>7. (\A q \in Requests : RequestOK(q)') /\ OneVia'
  BY <1>5, <1>6, RequestStep
<1>8. /\ tab' \in [Tabs -> TabStates] /\ TabsInv'
  <2>1. CASE tab' = tab
    BY <1>5, <2>1, SessionAssumption
    DEF SessionInv, SessionTypeOK, TabsInv, TabOK, RequestOK, OnlyApi, Requests
  <2>2. CASE /\ Show(r, "password") \/ Show(r, "code")
             /\ api[r].op \in {"start", "code", "password"}
    <3>1. r \in Tabs
      BY <1>1, <2>2, TabRequest
    <3>2. /\ tab' \in [Tabs -> TabStates] /\ tab'[r].phone = tab[r].phone
          /\ \A q \in Tabs \ {r} : tab'[q] = tab[q]
      BY <2>2, <3>1 DEF Show, SessionInv, SessionTypeOK, TabStates
    <3>3. tab[r].phone \in Phones
      BY <1>1, <2>2, <3>1 DEF SessionInv, TabsInv, TabOK
    <3>4. QED
      BY <1>5, <3>2, <3>3 DEF SessionInv, TabsInv, TabOK, OnlyApi, Requests
  <2>3. QED
    BY <2>1, <2>2 DEF Hear, Resume
<1>9. SessionTypeOK'
  BY <1>4, <1>5, <1>8 DEF SessionInv, SessionTypeOK
<1>10. StrayInv'
  BY <1>1, StrayKept DEF SessionInv
<1>11. RowsInv'
  BY <1>4 DEF SessionInv, RowsInv
<1>12. QED
  BY <1>5, <1>7, <1>8, <1>9, <1>10, <1>11 DEF SessionInv, RequestsInv

LEMMA GiveUpInv ==
  ASSUME SessionInv, NEW r \in Requests, GiveUp(r)
  PROVE  SessionInv'
<1>1. /\ api[r].pc = "asked" /\ UNCHANGED <<workerVars, account, tab, contended>>
      /\ missed' = missed \cup {api[r].phone}
  BY DEF GiveUp
<1>2. /\ api' \in [Requests -> ApiStates] /\ OnlyApi(r)
      /\ api'[r].via = NoHandler /\ RequestOK(r)' /\ BootOK'
  BY <1>1, ResumeFacts
<1>3. \A q \in Requests \ {r} : api[q].via # NoHandler =>
        work'[api[q].via].pc # "idle" /\ work'[api[q].via].phone = work[api[q].via].phone
  BY <1>1 DEF workerVars, SessionInv, RequestsInv, RequestOK
<1>4. (\A q \in Requests : RequestOK(q)') /\ OneVia'
  BY <1>2, <1>3, RequestStep
<1>5. SessionTypeOK'
  BY <1>1, <1>2, OwnHandler DEF SessionInv, SessionTypeOK
<1>6. StrayInv'
  BY <1>1, StrayKept DEF SessionInv
<1>7. RowsInv' /\ TabsInv'
  BY <1>1, <1>2 DEF SessionInv, RowsInv, TabsInv, TabOK, RequestOK, OnlyApi, Requests
<1>8. QED
  BY <1>2, <1>4, <1>5, <1>6, <1>7 DEF SessionInv, RequestsInv

LEMMA RestoreInv ==
  ASSUME SessionInv, RestoreNext \/ Restored
  PROVE  SessionInv'
<1>0. Boot \in Requests /\ Boot \notin Tabs
  BY SessionAssumption DEF Requests
<1>1. /\ api[Boot].pc = "next" /\ api[Boot] \in ApiStates
      /\ UNCHANGED <<account, tab, missed>>
      /\ api[Boot].op = "restore" /\ \A q \in Tabs : api[q].pc = "idle"
  BY <1>0 DEF RestoreNext, Restored, SessionInv, SessionTypeOK, RequestsInv, BootOK
<1>2. CASE RestoreNext
  <2>1. PICK req \in ApiStates, op \in Ops, p \in Phones, k \in Clients \cup {NoClient} :
          /\ Ask(Boot, req, op, p, k)
          /\ req.op = "restore" /\ req.todo \subseteq api[Boot].todo
    BY <1>2, RestoreAsk
  <2>2. /\ OnlyApi(Boot) /\ api'[Boot].pc = "asked" /\ api'[Boot].op = req.op
        /\ api'[Boot].todo = req.todo
    BY <1>0, <2>1, AskFrame
  <2>3. BootOK'
    BY <1>0, <1>1, <2>1, <2>2 DEF BootOK, OnlyApi, Requests, SessionInv, RequestsInv
  <2>4. tab' \in [Tabs -> TabStates]
    BY <1>1 DEF SessionInv, SessionTypeOK
  <2>5. QED
    BY <1>0, <1>1, <2>1, <2>3, <2>4, AskStep
<1>3. CASE Restored
  <2>1. Done(Boot) /\ UNCHANGED <<workerVars, contended>>
    BY <1>3 DEF Restored
  <2>2. api' \in [Requests -> ApiStates] /\ OnlyApi(Boot) /\ api'[Boot] = NoRequest
    BY <1>0, <2>1, DoneFacts DEF SessionInv
  <2>3. RequestOK(Boot)' /\ api'[Boot].via = NoHandler
    BY <2>2, NoRequestType DEF RequestOK
  <2>4. BootOK'
    BY <1>0, <2>2, NoRequestType DEF BootOK, OnlyApi, Requests, SessionInv, RequestsInv
  <2>5. \A q \in Requests \ {Boot} : api[q].via # NoHandler =>
          work'[api[q].via].pc # "idle" /\ work'[api[q].via].phone = work[api[q].via].phone
    BY <2>1 DEF workerVars, SessionInv, RequestsInv, RequestOK
  <2>6. (\A q \in Requests : RequestOK(q)') /\ OneVia'
    BY <1>0, <2>2, <2>3, <2>5, RequestStep
  <2>7. StrayInv'
    BY <2>1, StrayKept DEF SessionInv
  <2>8. SessionTypeOK'
    BY <1>1, <2>1, <2>2 DEF SessionInv, SessionTypeOK
  <2>9. RowsInv' /\ TabsInv'
    BY <1>0, <1>1, <2>2 DEF SessionInv, RowsInv, TabsInv, TabOK, OnlyApi, Requests
  <2>10. QED
    BY <2>4, <2>6, <2>7, <2>8, <2>9 DEF SessionInv, RequestsInv
<1>4. QED
  BY <1>2, <1>3

LEMMA ApiCrashInv ==
  ASSUME SessionInv, ApiCrash
  PROVE  SessionInv'
<1> DEFINE restore == [NoRequest EXCEPT !.pc = "next", !.op = "restore", !.todo = Connected]
<1>1. /\ restore \in ApiStates /\ restore.pc = "next" /\ restore.op = "restore"
      /\ restore.via = NoHandler /\ restore.todo = Connected
  BY NoRequestType DEF ApiStates, ApiSteps, ApiOps, Connected
<1>2. api' = [r \in Requests |-> IF r = Boot THEN restore ELSE NoRequest]
  BY DEF ApiCrash
<1>3. UNCHANGED <<workerVars, account, tab, contended>>
  BY DEF ApiCrash
<1>4. /\ api' \in [Requests -> ApiStates] /\ Boot \in Requests /\ api'[Boot] = restore
      /\ \A r \in Tabs : r \in Requests /\ api'[r] = NoRequest
  BY <1>1, <1>2, NoRequestType, SessionAssumption DEF Requests
<1>5. \A r \in Requests : RequestOK(r)' /\ api'[r].via = NoHandler
  BY <1>1, <1>2, NoRequestType DEF RequestOK
<1>6. BootOK'
  BY <1>1, <1>3, <1>4, NoRequestType DEF BootOK, Connected
<1>7. OneVia'
  BY <1>5 DEF OneVia
<1>8. missed' \subseteq Phones
  BY DEF ApiCrash, SessionInv, SessionTypeOK, ApiStates
<1>9. SessionTypeOK'
  BY <1>3, <1>4, <1>8 DEF SessionInv, SessionTypeOK
<1>10. RowsInv' /\ TabsInv'
  BY <1>3, <1>4, NoRequestType DEF SessionInv, RowsInv, TabsInv, TabOK
<1>11. StrayInv'
  BY <1>3, StrayKept DEF SessionInv
<1>12. QED
  BY <1>5, <1>6, <1>7, <1>9, <1>10, <1>11 DEF SessionInv, RequestsInv

\* The steps of the sidecar that the API does not see.
LEMMA SidecarInv ==
  ASSUME SessionInv, UNCHANGED sessionVars,
         WorkerStep \/ \E h \in Handlers : (\A r \in Requests : api[r].via # h) /\ Answer(h)
  PROVE  SessionInv'
<1>1. StrayInv'
  BY StrayKept DEF SessionInv
<1>2. ASSUME NEW r \in Requests, api[r].via # NoHandler
      PROVE  /\ work'[api[r].via].pc # "idle"
             /\ work'[api[r].via].phone = api[r].phone
  <2>1. api[r].via \in Handlers /\ WorkInv
    BY <1>2 DEF SessionInv, SessionTypeOK, ApiStates, StrayInv
  <2>2. work[api[r].via].pc # "idle" /\ work[api[r].via].phone = api[r].phone
    BY <1>2 DEF SessionInv, RequestsInv, RequestOK
  <2>3. CASE WorkerStep
    BY <2>1, <2>2, <2>3, WorkerStepKeeps
  <2>4. CASE \E h \in Handlers : (\A q \in Requests : api[q].via # h) /\ Answer(h)
    BY <2>1, <2>2, <2>4, AnswerFacts DEF Others
  <2>5. QED
    BY <2>3, <2>4
<1>3. \A r \in Requests : RequestOK(r)'
  BY <1>2 DEF sessionVars, SessionInv, RequestsInv, RequestOK
<1>4. SessionTypeOK' /\ RowsInv' /\ TabsInv' /\ OneVia' /\ BootOK'
  BY DEF sessionVars, SessionInv, SessionTypeOK, RowsInv, TabsInv, TabOK, RequestsInv,
         OneVia, BootOK
<1>5. QED
  BY <1>1, <1>3, <1>4 DEF SessionInv, RequestsInv

LEMMA TelegramStepInv ==
  ASSUME SessionInv, [TelegramNext]_telegramVars
  PROVE  SessionInv'
<1>1. CASE UNCHANGED telegramVars
  <2>1. UNCHANGED workerVars /\ UNCHANGED sessionVars
    BY <1>1 DEF telegramVars
  <2>2. StrayInv'
    BY <2>1, StrayKept DEF SessionInv
  <2>3. QED
    BY <2>1, <2>2 DEF workerVars, sessionVars, SessionInv, SessionTypeOK, RowsInv, TabsInv,
         TabOK, RequestsInv, RequestOK, OneVia, BootOK
<1>2. ASSUME NEW r \in Tabs, TabStep(r)
      PROVE  SessionInv'
  BY <1>2, TabStepInv
<1>3. ASSUME NEW r \in Requests, ApiStep(r)
      PROVE  SessionInv'
  BY <1>3, PickInv, QuietInv, AskForSessionInv, HearInv, GiveUpInv DEF ApiStep
<1>4. CASE RestoreNext \/ Restored
  BY <1>4, RestoreInv
<1>5. CASE ApiCrash
  BY <1>5, ApiCrashInv
<1>6. CASE (WorkerStep /\ UNCHANGED sessionVars) \/ \E h \in Handlers : Discard(h)
  BY <1>6, SidecarInv DEF Discard
<1>7. QED
  BY <1>1, <1>2, <1>3, <1>4, <1>5, <1>6 DEF TelegramNext

LEMMA TelegramInvariant == TelegramSpec => []SessionInv
<1>1. TelegramInit => SessionInv
  BY TelegramInitInv
<1>2. SessionInv /\ [TelegramNext]_telegramVars => SessionInv'
  BY TelegramStepInv
<1>3. QED
  BY <1>1, <1>2, PTL DEF TelegramSpec

\* The steps of TelegramNext are those of a sidecar and one of its callers.
LEMMA TelegramStepOfWorker ==
  ASSUME SessionInv, [TelegramNext]_telegramVars
  PROVE  [WorkerNext]_workerVars
<1>1. ASSUME NEW h \in Handlers, NEW op \in Ops, NEW p \in Phones,
             NEW k \in Clients \cup {NoClient}, Call(h, op, p, k)
      PROVE  WorkerNext
  BY <1>1 DEF WorkerNext
<1>2. ASSUME NEW h \in Handlers, Answer(h)
      PROVE  WorkerNext
  BY <1>2 DEF WorkerNext
<1>3. {"start", "code", "password", "save", "connect", "disconnect"} \subseteq Ops
  BY DEF Ops, Lifecycle
<1>4. ASSUME NEW a \in Accounts, a \in Connected
      PROVE  account[a].phone \in Phones /\ account[a].session \in Clients \cup {NoClient}
  BY <1>4 DEF Connected, SessionInv, SessionTypeOK, RowsInv, AccountRows
<1>5. ASSUME NEW r \in Tabs, TabStep(r)
      PROVE  [WorkerNext]_workerVars
  <2>1. tab[r].step # "start" => tab[r].phone \in Phones
    BY DEF SessionInv, TabsInv, TabOK
  <2>2. QED
    BY <1>1, <1>3, <1>5, <2>1
    DEF TabStep, StartLogin, SubmitCode, SubmitPassword, Login, Ask, ReconnectOrLogout, Reload,
        workerVars
<1>6. ASSUME NEW r \in Requests, ApiStep(r)
      PROVE  [WorkerNext]_workerVars
  <2>1. CASE Pick(r)
    <3>1. PICK a \in Connected :
             Ask(r, [api[r] EXCEPT !.row = a],
                 IF api[r].op = "logout" THEN "disconnect" ELSE "connect",
                 account[a].phone, account[a].session)
      BY <2>1 DEF Pick
    <3>2. a \in Accounts
      BY DEF Connected
    <3>3. QED
      BY <1>1, <1>3, <1>4, <3>1, <3>2 DEF Ask
  <2>2. CASE Hear(r) \/ AskForSession(r)
    <3>1. api[r].via \in Handlers /\ api[r].phone \in Phones
      BY <2>2, OwnHandler DEF Hear, AskForSession, Answered
    <3>2. QED
      BY <1>1, <1>2, <1>3, <2>2, <3>1 DEF Hear, AskForSession
  <2>3. CASE \/ PickNone(r) \/ GiveUp(r) \/ FindAccount(r) \/ WriteAccount(r)
             \/ ClearAccount(r) \/ RejectQuery(r)
    BY <2>3 DEF PickNone, GiveUp, FindAccount, WriteAccount, ClearAccount, RejectQuery
  <2>4. QED
    BY <1>6, <2>1, <2>2, <2>3 DEF ApiStep
<1>7. CASE RestoreNext
  <2>1. PICK a \in api[Boot].todo :
           Ask(Boot, [api[Boot] EXCEPT !.todo = @ \ {a}],
               "connect", account[a].phone, account[a].session)
    BY <1>7 DEF RestoreNext
  <2>2. a \in Accounts /\ a \in Connected
    BY DEF SessionInv, SessionTypeOK, RequestsInv, BootOK, ApiStates, Requests, Connected
  <2>3. QED
    BY <1>1, <1>3, <1>4, <2>1, <2>2 DEF Ask
<1>8. CASE Restored \/ ApiCrash \/ UNCHANGED telegramVars
  BY <1>8 DEF Restored, ApiCrash, telegramVars
<1>9. CASE WorkerStep \/ \E h \in Handlers : Discard(h)
  BY <1>2, <1>9 DEF Discard, WorkerNext
<1>10. QED
  BY <1>5, <1>6, <1>7, <1>8, <1>9 DEF TelegramNext

\* The API and the tabs are one of the callers that the sidecar is specified
\* for: whatever a request asks of it, the sidecar sees calls it allows, one at
\* a time on each handler, and answers that are taken once.
THEOREM TelegramImplementsWorker == TelegramSpec => WorkerSpec
<1>1. TelegramInit => WorkerInit
  BY DEF TelegramInit
<1>2. SessionInv /\ [TelegramNext]_telegramVars => [WorkerNext]_workerVars
  BY TelegramStepOfWorker
<1>3. QED
  BY <1>1, <1>2, TelegramInvariant, PTL DEF TelegramSpec, WorkerSpec

\* TelegramSession keeps its types, and every request has the locals and the
\* handler that its next step reads.
THEOREM TelegramTypeCorrect == TelegramSpec => []TelegramTypeOK
<1>1. SessionInv => TelegramTypeOK
  <2>1. SUFFICES ASSUME SessionInv
                 PROVE  TelegramTypeOK
    OBVIOUS
  <2>2. WorkerTypeOK
    BY <2>1 DEF SessionInv, StrayInv, WorkInv
  <2>3. ASSUME NEW r \in Requests
        PROVE  /\ api[r].pc = "asked" <=> api[r].via # NoHandler
               /\ api[r].pc = "clear" => api[r].row # NoAccount
               /\ api[r].pc = "idle" => api[r] = NoRequest
               /\ api[r].via # NoHandler => /\ work[api[r].via].phone = api[r].phone
                                            /\ \A q \in Requests \ {r} : api[q].via # api[r].via
    BY <2>1, SessionAssumption DEF SessionInv, RequestsInv, RequestOK, OneVia
  <2>4. QED
    BY <2>1, <2>2, <2>3 DEF SessionInv, SessionTypeOK, TelegramTypeOK
<1>2. QED
  BY <1>1, TelegramInvariant, PTL

\* Under the API, its crashes and everything the tabs ask for, the sidecar does
\* not lose sight of a client.
THEOREM TelegramNoStrayClient == TelegramSpec => []NoStrayClient
  BY TelegramImplementsWorker, WorkerNoStrayClient

----------------------------------------------------------------------------
(***************************************************************************)
(* One account per phone.                                                  *)
(***************************************************************************)
\* Of a phone that was never contended there is one request and one handler,
\* and while it logs in the handler is that of the request.
AloneFor(p) ==
  /\ \A r, q \in Requests : api[r].phone = p /\ api[q].phone = p => r = q
  /\ \A g, h \in Handlers : work[g].phone = p /\ work[h].phone = p => g = h
  /\ \A r \in Requests, h \in Handlers :
       api[r].op \in {"code", "password"} /\ api[r].phone = p /\ work[h].phone = p
         => api[r].via = h

SingleInv == \A p \in Phones \ contended : AloneFor(p)

\* A request that found no row still finds none when it writes, and one that
\* found a row updates the row of its phone.
WriteOK(r) ==
  api[r].pc = "write" =>
    \/ /\ api[r].row = NoAccount
       /\ api[r].phone \in contended \/ RowsOf(api[r].phone) = {}
    \/ /\ api[r].row \in Accounts
       /\ account[api[r].row].phone = api[r].phone

AccountsInv == (\A r \in Requests : WriteOK(r)) /\ OneAccountPerPhone

LEMMA SingleKept ==
  ASSUME SingleInv, contended \subseteq contended',
         \A r \in Requests : api'[r].phone \in {api[r].phone, NoPhone},
         \A h \in Handlers : work'[h].phone \in {work[h].phone, NoPhone},
         \A r \in Requests : api'[r].op \in {"code", "password"} /\ api'[r].phone \in Phones =>
           /\ api[r].op = api'[r].op
           /\ \/ api'[r].via = api[r].via
              \/ \A h \in Handlers : api[r].via = h => work'[h].phone = NoPhone
  PROVE  SingleInv'
<1>1. SUFFICES ASSUME NEW p \in Phones, p \notin contended'
               PROVE  AloneFor(p)'
  BY DEF SingleInv
<1>2. AloneFor(p) /\ p # NoPhone
  BY <1>1, WorkerAssumption DEF SingleInv
<1>3. \A r, q \in Requests : api'[r].phone = p /\ api'[q].phone = p => r = q
  BY <1>2 DEF AloneFor
<1>4. \A g, h \in Handlers : work'[g].phone = p /\ work'[h].phone = p => g = h
  BY <1>2 DEF AloneFor
<1>5. ASSUME NEW r \in Requests, NEW h \in Handlers, api'[r].op \in {"code", "password"},
             api'[r].phone = p, work'[h].phone = p
      PROVE  api'[r].via = h
  <2>1. api[r].phone = p /\ work[h].phone = p /\ api[r].op \in {"code", "password"}
    BY <1>1, <1>2, <1>5
  <2>2. api[r].via = h
    BY <1>2, <2>1 DEF AloneFor
  <2>3. QED
    BY <1>1, <1>2, <1>5, <2>2
<1>6. QED
  BY <1>3, <1>4, <1>5 DEF AloneFor

LEMMA SingleAsk ==
  ASSUME SessionInv, SingleInv, NEW r \in Requests, NEW req \in ApiStates, NEW op \in Ops,
         NEW p \in Phones, NEW k \in Clients \cup {NoClient}, Ask(r, req, op, p, k)
  PROVE  SingleInv' /\ contended \subseteq contended'
<1>1. PICK h \in Handlers :
        /\ Others(h) /\ OnlyApi(r)
        /\ work'[h].phone = p /\ api'[r].via = h /\ api'[r].phone = p
  BY AskFacts
<1>2. contended' = IF UnderWay(p) THEN contended \cup {p} ELSE contended
  BY DEF Ask
<1>3. ASSUME NEW q \in Phones, q \notin contended', q # p
      PROVE  AloneFor(q)'
  <2>1. AloneFor(q)
    BY <1>2, <1>3 DEF SingleInv
  <2>2. \A s \in Requests : api'[s].phone = q => s # r /\ api'[s] = api[s]
    BY <1>1, <1>3 DEF OnlyApi
  <2>3. \A g \in Handlers : work'[g].phone = q => g # h /\ work'[g] = work[g]
    BY <1>1, <1>3 DEF Others
  <2>4. QED
    BY <2>1, <2>2, <2>3 DEF AloneFor
<1>4. ASSUME p \notin contended'
      PROVE  AloneFor(p)'
  <2>1. ~UnderWay(p)
    BY <1>2, <1>4
  <2>2. \A s \in Requests \ {r} : api'[s].phone # p
    BY <1>1, <2>1 DEF UnderWay, OnlyApi
  <2>3. \A g \in Handlers \ {h} : work'[g].phone # p
    BY <1>1, <2>1 DEF UnderWay, Others
  <2>4. QED
    BY <1>1, <2>2, <2>3 DEF AloneFor
<1>5. QED
  BY <1>2, <1>3, <1>4 DEF SingleInv

LEMMA AccountsKept ==
  ASSUME AccountsInv, account' = account, contended \subseteq contended',
         \A r \in Requests : api'[r].pc = "write" => api'[r] = api[r]
  PROVE  AccountsInv'
<1>1. \A r \in Requests : WriteOK(r)'
  BY DEF AccountsInv, WriteOK, RowsOf
<1>2. OneAccountPerPhone'
  BY DEF AccountsInv, OneAccountPerPhone
<1>3. QED
  BY <1>1, <1>2 DEF AccountsInv

LEMMA SingleStep ==
  ASSUME SessionInv, SingleInv, [TelegramNext]_telegramVars
  PROVE  SingleInv' /\ contended \subseteq contended'
<1>0. WorkInv /\ SessionTypeOK
  BY DEF SessionInv, StrayInv
<1>1. ASSUME UNCHANGED sessionVars,
             \A h \in Handlers : work'[h].phone \in {work[h].phone, NoPhone}
      PROVE  SingleInv' /\ contended \subseteq contended'
  BY <1>1, SingleKept DEF sessionVars
<1>2. ASSUME NEW r \in Requests, OnlyApi(r), contended' = contended,
             api'[r].phone \in {api[r].phone, NoPhone},
             api'[r].op \in {"code", "password"} =>
               /\ api[r].op = api'[r].op
               /\ \/ api'[r].via = api[r].via
                  \/ \A h \in Handlers : api[r].via = h => work'[h].phone = NoPhone,
             \A h \in Handlers : work'[h].phone \in {work[h].phone, NoPhone}
      PROVE  SingleInv' /\ contended \subseteq contended'
  BY <1>2, SingleKept DEF OnlyApi
<1>3. ASSUME NEW r \in Tabs, TabStep(r)
      PROVE  SingleInv' /\ contended \subseteq contended'
  <2>0. r \in Requests
    BY DEF Requests
  <2>1. ASSUME NEW op \in {"start", "code", "password"}, NEW p \in Phones, Login(r, op, p)
        PROVE  SingleInv' /\ contended \subseteq contended'
    <3>1. [NoRequest EXCEPT !.op = op] \in ApiStates
      BY NoRequestType DEF ApiStates, ApiOps
    <3>2. op \in Ops /\ NoClient \in Clients \cup {NoClient}
      BY DEF Ops, Lifecycle
    <3>3. PICK req \in ApiStates : Ask(r, req, op, p, NoClient)
      BY <2>1, <3>1 DEF Login
    <3>4. QED
      BY <2>0, <3>2, <3>3, SingleAsk
  <2>2. CASE \/ \E p \in Phones : StartLogin(r, p)
             \/ SubmitCode(r) \/ SubmitPassword(r)
    BY <2>1, <2>2 DEF StartLogin, SubmitCode, SubmitPassword, SessionInv, TabsInv, TabOK
  <2>3. ASSUME NEW op \in {"reconnect", "logout"}, ReconnectOrLogout(r, op)
        PROVE  SingleInv' /\ contended \subseteq contended'
    <3> DEFINE new == [NoRequest EXCEPT !.pc = "pick", !.op = op]
    <3>1. new \in ApiStates /\ new.op = op /\ new.phone = NoPhone
      BY NoRequestType DEF ApiStates, ApiSteps, ApiOps
    <3>2. OnlyApi(r) /\ api'[r] = new
      BY <1>0, <2>0, <2>3, <3>1, ApiFacts DEF ReconnectOrLogout
    <3>3. contended' = contended /\ work' = work
      BY <2>3 DEF ReconnectOrLogout, workerVars
    <3>4. QED
      BY <1>2, <2>0, <3>1, <3>2, <3>3
  <2>4. CASE Reload(r)
    BY <2>4, SingleKept DEF Reload, workerVars
  <2>5. QED
    BY <1>3, <2>2, <2>3, <2>4 DEF TabStep
<1>4. ASSUME NEW r \in Requests, ApiStep(r)
      PROVE  SingleInv' /\ contended \subseteq contended'
  <2>1. CASE Pick(r)
    BY <2>1, PickAsk, SingleAsk
  <2>2. CASE PickNone(r) \/ WriteAccount(r) \/ ClearAccount(r) \/ RejectQuery(r)
    <3>1. Done(r) /\ contended' = contended /\ work' = work
      BY <2>2 DEF PickNone, WriteAccount, ClearAccount, RejectQuery, workerVars
    <3>2. OnlyApi(r) /\ api'[r] = NoRequest
      BY <1>0, <3>1, DoneFacts
    <3>3. QED
      BY <1>2, <3>1, <3>2, NoRequestType
  <2>3. CASE FindAccount(r)
    <3>1. /\ OnlyApi(r) /\ api'[r].op = api[r].op /\ api'[r].phone = api[r].phone
          /\ api'[r].via = api[r].via
      BY <1>0, <2>3 DEF FindAccount, SessionTypeOK, OnlyApi, ApiStates
    <3>2. contended' = contended /\ work' = work
      BY <2>3 DEF FindAccount, workerVars
    <3>3. QED
      BY <1>2, <3>1, <3>2
  <2>4. CASE AskForSession(r)
    <3>1. PICK h \in Handlers : h = api[r].via /\ work[h].phone = api[r].phone /\ api[r].phone \in Phones
      BY <2>4, OwnHandler DEF AskForSession, Answered
    <3>2. Call(h, "save", api[r].phone, NoClient) /\ "save" \in Ops
      BY <2>4, <3>1 DEF AskForSession, Ops
    <3>3. Others(h) /\ work'[h].phone = work[h].phone
      BY <1>0, <3>1, <3>2, CallFacts
    <3>4. \A g \in Handlers : work'[g].phone \in {work[g].phone, NoPhone}
      BY <3>3 DEF Others
    <3>5. UNCHANGED sessionVars
      BY <2>4 DEF AskForSession
    <3>6. QED
      BY <1>1, <3>4, <3>5
  <2>5. CASE Hear(r)
    <3>1. PICK h \in Handlers : h = api[r].via /\ api[r].pc = "asked" /\ Answer(h)
      BY <2>5, OwnHandler DEF Hear, Answered
    <3>2. Others(h) /\ work'[h].phone = NoPhone
      BY <1>0, <3>1, AnswerFacts, NoWorkType
    <3>3. work[h] \in Works /\ account' = account /\ contended' = contended /\ Resume(r)
      BY <1>0, <2>5 DEF Hear, WorkInv, WorkerTypeOK
    <3>4. /\ OnlyApi(r) /\ api'[r].phone \in {api[r].phone, NoPhone}
          /\ api'[r].op \in {"code", "password"} => api'[r].op = api[r].op
      BY <3>1, <3>3, ResumeFacts
    <3>5. \A g \in Handlers : work'[g].phone \in {work[g].phone, NoPhone}
      BY <3>2 DEF Others
    <3>6. QED
      BY <1>2, <3>1, <3>2, <3>3, <3>4, <3>5
  <2>6. CASE GiveUp(r)
    <3>1. api[r].pc = "asked" /\ account' = account /\ contended' = contended /\ work' = work
      BY <2>6 DEF GiveUp, workerVars
    <3>2. OnlyApi(r) /\ api'[r].phone \in {api[r].phone, NoPhone}
      BY <2>6, <3>1, ResumeFacts
    <3>3. api'[r].op \notin {"code", "password"}
      BY <1>0, <2>6, DoneFacts, NextAccountFacts, NoRequestType
      DEF GiveUp, SessionTypeOK, ApiStates
    <3>4. QED
      BY <1>2, <3>1, <3>2, <3>3
  <2>7. QED
    BY <1>4, <2>1, <2>2, <2>3, <2>4, <2>5, <2>6 DEF ApiStep
<1>5. CASE RestoreNext
  BY <1>5, RestoreAsk, SingleAsk, SessionAssumption DEF Requests
<1>6. CASE Restored
  <2>1. Boot \in Requests /\ Done(Boot) /\ contended' = contended /\ work' = work
    BY <1>6 DEF Restored, workerVars, Requests
  <2>2. OnlyApi(Boot) /\ api'[Boot] = NoRequest
    BY <1>0, <2>1, DoneFacts
  <2>3. QED
    BY <1>2, <2>1, <2>2, NoRequestType
<1>7. CASE ApiCrash
  <2>1. \A r \in Requests : api'[r].phone = NoPhone
    BY <1>7, NoRequestType DEF ApiCrash
  <2>2. contended' = contended /\ work' = work
    BY <1>7 DEF ApiCrash, workerVars
  <2>3. QED
    BY <2>1, <2>2, SingleKept, WorkerAssumption
<1>8. CASE WorkerStep /\ UNCHANGED sessionVars
  BY <1>0, <1>1, <1>8, WorkerStepKeeps
<1>9. ASSUME NEW h \in Handlers, Discard(h)
      PROVE  SingleInv' /\ contended \subseteq contended'
  <2>1. \A g \in Handlers : work'[g].phone \in {work[g].phone, NoPhone}
    BY <1>0, <1>9, AnswerFacts, NoWorkType DEF Discard, Others
  <2>2. QED
    BY <1>1, <1>9, <2>1 DEF Discard
<1>10. CASE UNCHANGED telegramVars
  BY <1>1, <1>10 DEF telegramVars, workerVars
<1>11. QED
  BY <1>3, <1>4, <1>5, <1>6, <1>7, <1>8, <1>9, <1>10 DEF TelegramNext

\* The find: the rows are not touched, and it is right about them.
LEMMA FindStep ==
  ASSUME SessionInv, AccountsInv, contended' = contended,
         NEW r \in Requests, FindAccount(r)
  PROVE  AccountsInv'
<1>1. account' = account
  BY DEF FindAccount
<1>2. PICK a \in IF RowsOf(api[r].phone) = {} THEN {NoAccount} ELSE RowsOf(api[r].phone) :
        api' = [api EXCEPT ![r].pc = "write", ![r].row = a]
  BY DEF FindAccount
<1>3. /\ OnlyApi(r) /\ api'[r].row = a /\ api'[r].phone = api[r].phone
  BY <1>2 DEF SessionInv, SessionTypeOK, OnlyApi, ApiStates
<1>4. WriteOK(r)'
  BY <1>1, <1>2, <1>3 DEF WriteOK, RowsOf
<1>5. \A q \in Requests \ {r} : WriteOK(q)'
  BY <1>1, <1>3 DEF OnlyApi, AccountsInv, WriteOK, RowsOf
<1>6. OneAccountPerPhone'
  BY <1>1 DEF AccountsInv, OneAccountPerPhone
<1>7. QED
  BY <1>4, <1>5, <1>6 DEF AccountsInv

\* The write: nobody else writes a row of the phone, unless it is contended.
LEMMA WriteStep ==
  ASSUME SessionInv, SingleInv, AccountsInv, contended' = contended,
         NEW r \in Requests, WriteAccount(r)
  PROVE  AccountsInv'
<1> DEFINE p == api[r].phone
           new == [phone |-> p, session |-> api[r].session, connected |-> TRUE]
<1>1. PICK a \in IF api[r].row # NoAccount THEN {api[r].row}
                 ELSE {b \in Accounts : account[b] = NoRow} :
        account' = [account EXCEPT ![a] = new]
  BY DEF WriteAccount
<1>2. p \in Phones /\ p # NoPhone /\ api[r].pc = "write" /\ WriteOK(r)
  BY WorkerAssumption DEF WriteAccount, SessionInv, RequestsInv, RequestOK, AccountsInv
<1>3. /\ a \in Accounts
      /\ \/ account[a].phone = p
         \/ account[a].phone = NoPhone /\ (p \in contended \/ RowsOf(p) = {})
  BY <1>1, <1>2, SessionAssumption DEF WriteOK, NoRow
<1>4. account'[a].phone = p /\ \A b \in Accounts \ {a} : account'[b] = account[b]
  BY <1>1, <1>3 DEF SessionInv, SessionTypeOK
<1>5. OnlyApi(r) /\ api'[r].pc = "idle"
  BY DoneFacts, NoRequestType DEF SessionInv, WriteAccount
<1>6. ASSUME NEW q \in Requests \ {r}, api[q].pc = "write"
      PROVE  WriteOK(q)'
  <2>1. WriteOK(q) /\ api'[q] = api[q]
    BY <1>5 DEF AccountsInv, OnlyApi
  <2>2. api[q].phone \in Phones /\ api[q].phone # NoPhone
    BY <1>6, WorkerAssumption DEF SessionInv, RequestsInv, RequestOK
  <2>3. api[q].phone # p \/ p \in contended
    BY <1>2, <1>6 DEF SingleInv, AloneFor
  <2>4. CASE api[q].row = NoAccount
    BY <1>3, <1>4, <1>6, <2>1, <2>2, <2>3, <2>4, SessionAssumption DEF WriteOK, RowsOf
  <2>5. CASE api[q].row \in Accounts
    BY <1>3, <1>4, <1>6, <2>1, <2>2, <2>5, SessionAssumption DEF WriteOK
  <2>6. QED
    BY <1>6, <2>1, <2>4, <2>5 DEF WriteOK
<1>7. \A q \in Requests : WriteOK(q)'
  BY <1>5, <1>6 DEF OnlyApi, WriteOK
<1>8. OneAccountPerPhone'
  <2>1. \A b \in Accounts : account[b].phone \in Phones \cup {NoPhone}
    BY DEF SessionInv, SessionTypeOK, AccountRows
  <2>2. \A b \in Accounts \ {a} : account[b].phone = p => p \in contended
    BY <1>2, <1>3 DEF RowsOf, AccountsInv, OneAccountPerPhone
  <2>3. QED
    BY <1>4, <2>1, <2>2 DEF AccountsInv, OneAccountPerPhone
<1>9. QED
  BY <1>7, <1>8 DEF AccountsInv

\* The rows keep their phones when a session is deleted.
LEMMA ClearStep ==
  ASSUME SessionInv, AccountsInv, contended' = contended,
         NEW r \in Requests, ClearAccount(r)
  PROVE  AccountsInv'
<1>1. \A a \in Accounts : account'[a].phone = account[a].phone
  BY DEF ClearAccount, SessionInv, SessionTypeOK, AccountRows
<1>2. OnlyApi(r) /\ api'[r].pc = "idle"
  BY DoneFacts, NoRequestType DEF SessionInv, ClearAccount
<1>3. \A q \in Requests : WriteOK(q)'
  BY <1>1, <1>2 DEF OnlyApi, AccountsInv, WriteOK, RowsOf
<1>4. OneAccountPerPhone'
  BY <1>1 DEF AccountsInv, OneAccountPerPhone
<1>5. QED
  BY <1>3, <1>4 DEF AccountsInv

\* No other step begins a write or touches a row.
LEMMA NoWriteBegins ==
  ASSUME SessionInv, [TelegramNext]_telegramVars,
         \A r \in Requests : ~FindAccount(r) /\ ~WriteAccount(r) /\ ~ClearAccount(r)
  PROVE  /\ account' = account
         /\ \A r \in Requests : api'[r].pc = "write" => api'[r] = api[r]
<1> DEFINE Quiet == /\ account' = account
                    /\ \A r \in Requests : api'[r].pc = "write" => api'[r] = api[r]
<1>0. SessionTypeOK
  BY DEF SessionInv
<1>1. ASSUME account' = account, UNCHANGED api
      PROVE  Quiet
  BY <1>1
<1>2. ASSUME NEW r \in Requests, account' = account, OnlyApi(r), api'[r].pc # "write"
      PROVE  Quiet
  BY <1>2 DEF OnlyApi
<1>3. ASSUME NEW r \in Tabs, TabStep(r)
      PROVE  Quiet
  <2>0. r \in Requests
    BY DEF Requests
  <2>1. ASSUME NEW op \in {"start", "code", "password"}, NEW p \in Phones, Login(r, op, p)
        PROVE  Quiet
    <3>1. [NoRequest EXCEPT !.op = op] \in ApiStates
      BY NoRequestType DEF ApiStates, ApiOps
    <3>2. op \in Ops /\ NoClient \in Clients \cup {NoClient}
      BY DEF Ops, Lifecycle
    <3>3. PICK req \in ApiStates : Ask(r, req, op, p, NoClient) /\ account' = account
      BY <2>1, <3>1 DEF Login
    <3>4. QED
      BY <1>2, <2>0, <3>2, <3>3, AskFrame
  <2>2. CASE \/ \E p \in Phones : StartLogin(r, p)
             \/ SubmitCode(r) \/ SubmitPassword(r)
    BY <2>1, <2>2 DEF StartLogin, SubmitCode, SubmitPassword, SessionInv, TabsInv, TabOK
  <2>3. ASSUME NEW op \in {"reconnect", "logout"}, ReconnectOrLogout(r, op)
        PROVE  Quiet
    <3> DEFINE new == [NoRequest EXCEPT !.pc = "pick", !.op = op]
    <3>1. new \in ApiStates /\ new.pc = "pick"
      BY NoRequestType DEF ApiStates, ApiSteps, ApiOps
    <3>2. OnlyApi(r) /\ api'[r] = new /\ account' = account
      BY <1>0, <2>0, <2>3, <3>1, ApiFacts DEF ReconnectOrLogout
    <3>3. QED
      BY <1>2, <2>0, <3>1, <3>2
  <2>4. CASE Reload(r)
    BY <1>1, <2>4 DEF Reload
  <2>5. QED
    BY <1>3, <2>2, <2>3, <2>4 DEF TabStep
<1>4. ASSUME NEW r \in Requests, ApiStep(r)
      PROVE  Quiet
  <2>1. CASE Pick(r)
    BY <1>2, <2>1, PickAsk, AskFrame DEF Pick
  <2>2. CASE PickNone(r) \/ RejectQuery(r)
    BY <1>0, <1>2, <2>2, DoneFacts, NoRequestType DEF PickNone, RejectQuery
  <2>3. CASE AskForSession(r)
    BY <1>1, <2>3 DEF AskForSession, sessionVars
  <2>4. CASE Hear(r)
    <3>1. OnlyApi(r) /\ api'[r].pc # "write"
      BY <2>4, OwnHandler, ResumeFacts DEF Hear, Answered, SessionInv, StrayInv, WorkInv, WorkerTypeOK
    <3>2. QED
      BY <1>2, <2>4, <3>1 DEF Hear
  <2>5. CASE GiveUp(r)
    <3>1. OnlyApi(r) /\ api'[r].pc # "write"
      BY <1>0, <2>5, DoneFacts, NextAccountFacts, NoRequestType
      DEF GiveUp, SessionTypeOK, ApiStates, OnlyApi
    <3>2. QED
      BY <1>2, <2>5, <3>1 DEF GiveUp
  <2>6. QED
    BY <1>4, <2>1, <2>2, <2>3, <2>4, <2>5 DEF ApiStep
<1>5. CASE RestoreNext
  BY <1>2, <1>5, RestoreAsk, AskFrame, SessionAssumption DEF Requests, RestoreNext
<1>6. CASE Restored
  BY <1>0, <1>2, <1>6, DoneFacts, NoRequestType DEF Restored, Requests
<1>7. CASE ApiCrash
  <2>1. \A r \in Requests : api'[r].pc \in {"idle", "next"}
    BY <1>7, NoRequestType DEF ApiCrash, NoRequest
  <2>2. QED
    BY <1>7, <2>1 DEF ApiCrash
<1>8. CASE \/ WorkerStep /\ UNCHANGED sessionVars
           \/ \E h \in Handlers : Discard(h)
           \/ UNCHANGED telegramVars
  BY <1>1, <1>8 DEF Discard, telegramVars, sessionVars
<1>9. QED
  BY <1>3, <1>4, <1>5, <1>6, <1>7, <1>8 DEF TelegramNext

LEMMA AccountsStep ==
  ASSUME SessionInv, SingleInv, AccountsInv, [TelegramNext]_telegramVars
  PROVE  AccountsInv'
<1>1. contended \subseteq contended'
  BY SingleStep
<1>2. CASE \E r \in Requests : FindAccount(r)
  BY <1>2, FindStep DEF FindAccount
<1>3. CASE \E r \in Requests : WriteAccount(r)
  BY <1>3, WriteStep DEF WriteAccount
<1>4. CASE \E r \in Requests : ClearAccount(r)
  BY <1>4, ClearStep DEF ClearAccount
<1>5. CASE \A r \in Requests : ~FindAccount(r) /\ ~WriteAccount(r) /\ ~ClearAccount(r)
  BY <1>1, <1>5, NoWriteBegins, AccountsKept
<1>6. QED
  BY <1>2, <1>3, <1>4, <1>5

\* One account per phone, however the find and the create of a login interleave
\* with other requests, the sidecar and the failures: unless two requests for
\* the phone were under way at once.
THEOREM TelegramOneAccount == TelegramSpec => []OneAccountPerPhone
<1>1. TelegramInit => SingleInv /\ AccountsInv
  <2>1. SUFFICES ASSUME TelegramInit
                 PROVE  SingleInv /\ AccountsInv
    OBVIOUS
  <2>2. \A r \in Requests : api[r] = NoRequest
    BY <2>1 DEF TelegramInit, SessionInit
  <2>3. \A h \in Handlers : work[h] = NoWork
    BY <2>1 DEF TelegramInit, WorkerInit
  <2>4. \A a, b \in Accounts : a # b => account[a].phone = NoPhone \/ account[b].phone = NoPhone
    BY <2>1 DEF TelegramInit, SessionInit, NoRow, OldRow
  <2>5. SingleInv
    BY <2>2, <2>3, NoRequestType, NoWorkType, WorkerAssumption DEF SingleInv, AloneFor
  <2>6. AccountsInv
    BY <2>2, <2>4, NoRequestType DEF AccountsInv, WriteOK, OneAccountPerPhone
  <2>7. QED
    BY <2>5, <2>6
<1>2. SessionInv /\ SingleInv /\ AccountsInv /\ [TelegramNext]_telegramVars
        => (SingleInv /\ AccountsInv)'
  BY SingleStep, AccountsStep
<1>3. AccountsInv => OneAccountPerPhone
  BY DEF AccountsInv
<1>4. QED
  BY <1>1, <1>2, <1>3, TelegramInvariant, PTL DEF TelegramSpec
=============================================================================
