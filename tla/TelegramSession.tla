-------------------------- MODULE TelegramSession --------------------------
(***************************************************************************)
(* Logging in to Telegram: the wizard of the settings page, the API        *)
(* (TelegramAuthService, TelegramService, TelegramListener, the account    *)
(* repository and TelegramClientManager) and the table TelegramAccount,    *)
(* on top of the sidecar of TelegramWorker.                                *)
(*                                                                         *)
(* A browser tab has at most one request under way, because the page       *)
(* disables its buttons meanwhile.  Boot is the restoration of sessions    *)
(* when the API starts; HTTP requests are served only after it.  A request *)
(* to the sidecar that takes longer than 35 s is an error for the API, and *)
(* goes on in the sidecar.                                                 *)
(***************************************************************************)
EXTENDS TelegramWorker

CONSTANTS
  Accounts,  \* TelegramAccount.id
  Tabs,      \* browser tabs of the administrator
  Boot,      \* the run of restoreAccounts
  NoHandler, NoAccount,
  Faults     \* which failures happen: "crash", "reject"

ASSUME SessionAssumption ==
  /\ Boot \notin Tabs
  /\ NoHandler \notin Handlers
  /\ NoAccount \notin Accounts
  /\ Faults \subseteq {"crash", "reject"}

VARIABLES
  account,    \* account[a]: the TelegramAccount row a
  api,        \* api[r]: the API's side of a request, or of the restoration
  tab,        \* tab[r]: the state of TelegramAccountSection
  contended,  \* history: phones with two login requests under way at once
  missed      \* history: phones with a request the API did not see through

sessionVars == <<account, api, tab, contended, missed>>
telegramVars == <<workerVars, sessionVars>>

----------------------------------------------------------------------------
Requests == Tabs \cup {Boot}

AccountRows == [phone : Phones \cup {NoPhone},
                session : Clients \cup {NoClient}, connected : BOOLEAN]

NoRow == [phone |-> NoPhone, session |-> NoClient, connected |-> FALSE]

Connected == {a \in Accounts : account[a].connected}

RowsOf(p) == {a \in Accounts : account[a].phone = p}

\* Named after what is awaited: a query, or an answer of the sidecar ("asked").
ApiSteps == {"idle", "pick", "asked", "save", "find", "write", "clear", "next"}

ApiOps == {"none", "start", "code", "password", "reconnect", "logout", "restore"}

ApiStates ==
  [pc : ApiSteps, op : ApiOps, phone : Phones \cup {NoPhone},
   via : Handlers \cup {NoHandler}, row : Accounts \cup {NoAccount},
   session : Clients \cup {NoClient}, todo : SUBSET Accounts]

NoRequest == [pc |-> "idle", op |-> "none", phone |-> NoPhone, via |-> NoHandler,
              row |-> NoAccount, session |-> NoClient, todo |-> {}]

TabStates == [step : {"start", "code", "password"}, phone : Phones \cup {NoPhone}]

NewTab == [step |-> "start", phone |-> NoPhone]

\* What the implementation before the sidecar has left: a session that only it
\* could use (telegram-listener.ts:49).
OldRow(p) == [phone |-> p, session |-> NoClient, connected |-> TRUE]

SessionInit ==
  /\ \/ account = [a \in Accounts |-> NoRow]
     \/ \E b \in Accounts, p \in Phones :
          account = [a \in Accounts |-> IF a = b THEN OldRow(p) ELSE NoRow]
  /\ api = [r \in Requests |-> NoRequest]
  /\ tab = [r \in Tabs |-> NewTab]
  /\ contended = {}
  /\ missed = {}

TelegramInit == WorkerInit /\ SessionInit

Done(r) == api' = [api EXCEPT ![r] = NoRequest]

\* Of the restoration, only the accounts still to restore are left.
NextAccount(r) == api' = [api EXCEPT ![r] =
  [NoRequest EXCEPT !.pc = "next", !.op = "restore", !.todo = api[r].todo]]

Show(r, step) == tab' = [tab EXCEPT ![r].step = step]

UnderWay(p) == \/ \E r \in Requests : api[r].phone = p
               \/ \E h \in Handlers : work[h].phone = p

\* TelegramClientManager.request: request r sends op and awaits the answer.
Ask(r, req, op, p, session) ==
  /\ \E h \in Handlers :
       /\ work[h].pc = "idle"
       /\ Call(h, op, p, session)
       /\ api' = [api EXCEPT ![r] =
                    [req EXCEPT !.pc = "asked", !.via = h, !.phone = p]]
  /\ contended' = IF UnderWay(p) THEN contended \cup {p} ELSE contended

----------------------------------------------------------------------------
(***************************************************************************)
(* The buttons of the wizard and the controllers they call.                *)
(***************************************************************************)
Ready(r) == api[r].pc = "idle" /\ api[Boot].pc = "idle"

Login(r, op, p) ==
  /\ Ready(r)
  /\ Ask(r, [NoRequest EXCEPT !.op = op], op, p, NoClient)
  /\ tab' = [tab EXCEPT ![r].phone = p]
  /\ UNCHANGED <<account, missed>>

StartLogin(r, p) == tab[r].step = "start" /\ Login(r, "start", p)
SubmitCode(r) == tab[r].step = "code" /\ Login(r, "code", tab[r].phone)
SubmitPassword(r) == tab[r].step = "password" /\ Login(r, "password", tab[r].phone)

\* reconnect and logout first query the connected accounts.
ReconnectOrLogout(r, op) ==
  /\ Ready(r)
  /\ api' = [api EXCEPT ![r] = [NoRequest EXCEPT !.pc = "pick", !.op = op]]
  /\ UNCHANGED <<workerVars, account, tab, contended, missed>>

\* The page is loaded again.
Reload(r) ==
  /\ Ready(r)
  /\ tab' = [tab EXCEPT ![r] = NewTab]
  /\ UNCHANGED <<workerVars, account, api, contended, missed>>

----------------------------------------------------------------------------
(***************************************************************************)
(* The API, from one await to the next.                                    *)
(***************************************************************************)
\* A plausible bug: the row is not kept for the update.
PickAndForget(r) ==
  /\ api[r].pc = "pick"
  /\ \E a \in Connected :
       Ask(r, api[r], IF api[r].op = "logout" THEN "disconnect" ELSE "connect",
           account[a].phone, account[a].session)
  /\ UNCHANGED <<account, tab, missed>>

\* accounts[0] of a query without an order: any connected account.
Pick(r) ==
  /\ api[r].pc = "pick"
  /\ \E a \in Connected :
       Ask(r, [api[r] EXCEPT !.row = a],
           IF api[r].op = "logout" THEN "disconnect" ELSE "connect",
           account[a].phone, account[a].session)
  /\ UNCHANGED <<account, tab, missed>>

\* No account is connected: nothing to log out, an error for reconnect.
PickNone(r) ==
  /\ api[r].pc = "pick" /\ Connected = {}
  /\ Done(r)
  /\ tab' = IF api[r].op = "logout" THEN [tab EXCEPT ![r] = NewTab] ELSE tab
  /\ UNCHANGED <<workerVars, account, contended, missed>>

Answered(r) == api[r].pc = "asked" /\ work[api[r].via].pc = "replied"

ReplyTo(r) == work[api[r].via]

\* A plausible bug: passwordRequired is taken for a sign-in.
SignedInHalfway(r) ==
  api[r].op \in {"code", "password"} /\ ReplyTo(r).reply \in {"ok", "password"}

SignedIn(r) == api[r].op \in {"code", "password"} /\ ReplyTo(r).reply = "ok"

\* persistSession: the session of the client that has signed in.
AskForSession(r) ==
  /\ Answered(r) /\ SignedIn(r) /\ ReplyTo(r).op # "save"
  /\ Call(api[r].via, "save", api[r].phone, NoClient)
  /\ UNCHANGED sessionVars

\* What follows another answer: a query, or the answer to the tab.
Resume(r) ==
  \/ /\ SignedIn(r) /\ ReplyTo(r).op = "save"
     /\ api' = [api EXCEPT ![r].pc = "find", ![r].via = NoHandler,
                           ![r].session = ReplyTo(r).session]
     /\ UNCHANGED tab
  \/ /\ api[r].op \in {"code", "password"} /\ ReplyTo(r).reply # "ok"
     /\ Done(r)
     /\ IF ReplyTo(r).reply = "password" THEN Show(r, "password") ELSE UNCHANGED tab
  \/ /\ api[r].op = "start"
     /\ Done(r)
     /\ IF ReplyTo(r).reply = "ok" THEN Show(r, "code") ELSE UNCHANGED tab
  \/ api[r].op = "reconnect" /\ Done(r) /\ UNCHANGED tab
  \/ /\ api[r].op = "logout"
     /\ api' = [api EXCEPT ![r].pc = "clear", ![r].via = NoHandler]
     /\ UNCHANGED tab
  \/ api[r].op = "restore" /\ NextAccount(r) /\ UNCHANGED tab

Hear(r) ==
  /\ Answered(r)
  /\ Resume(r)
  /\ Answer(api[r].via)
  /\ UNCHANGED <<account, contended, missed>>

\* AbortSignal.timeout, or the connection fails: an error, which logout and
\* restoreAccounts only log.
GiveUp(r) ==
  /\ api[r].pc = "asked" /\ ~Answered(r)
  /\ \/ api[r].op = "restore" /\ NextAccount(r)
     \/ /\ api[r].op = "logout"
        /\ api' = [api EXCEPT ![r].pc = "clear", ![r].via = NoHandler]
     \/ api[r].op \notin {"restore", "logout"} /\ Done(r)
  /\ missed' = missed \cup {api[r].phone}
  /\ UNCHANGED <<workerVars, account, tab, contended>>

\* The sidecar's answer to a request that the API has given up on.
Discard(h) ==
  /\ \A r \in Requests : api[r].via # h
  /\ Answer(h)
  /\ UNCHANGED sessionVars

----------------------------------------------------------------------------
(***************************************************************************)
(* The table.                                                              *)
(***************************************************************************)
\* A plausible bug: every login creates a row.
FindNoAccount(r) ==
  /\ api[r].pc = "find"
  /\ api' = [api EXCEPT ![r].pc = "write"]
  /\ UNCHANGED <<workerVars, account, tab, contended, missed>>

\* upsert looks the phone up and then updates or creates.
FindAccount(r) ==
  /\ api[r].pc = "find"
  /\ \E a \in IF RowsOf(api[r].phone) = {} THEN {NoAccount} ELSE RowsOf(api[r].phone) :
       api' = [api EXCEPT ![r].pc = "write", ![r].row = a]
  /\ UNCHANGED <<workerVars, account, tab, contended, missed>>

WriteAccount(r) ==
  /\ api[r].pc = "write"
  /\ \E a \in IF api[r].row # NoAccount THEN {api[r].row}
              ELSE {b \in Accounts : account[b] = NoRow} :
       account' = [account EXCEPT ![a] = [phone |-> api[r].phone,
                     session |-> api[r].session, connected |-> TRUE]]
  /\ Done(r)
  /\ Show(r, "start")
  /\ UNCHANGED <<workerVars, contended, missed>>

\* logout deletes the session, whatever became of the disconnect.
ClearAccount(r) ==
  /\ api[r].pc = "clear"
  /\ account' = [account EXCEPT ![api[r].row].session = NoClient,
                                ![api[r].row].connected = FALSE]
  /\ Done(r)
  /\ tab' = [tab EXCEPT ![r] = NewTab]
  /\ UNCHANGED <<workerVars, contended, missed>>

\* restoreAccounts: one account after the other.
RestoreNext ==
  /\ api[Boot].pc = "next"
  /\ \E a \in api[Boot].todo :
       Ask(Boot, [api[Boot] EXCEPT !.todo = @ \ {a}],
           "connect", account[a].phone, account[a].session)
  /\ UNCHANGED <<account, tab, missed>>

Restored ==
  /\ api[Boot].pc = "next" /\ api[Boot].todo = {}
  /\ Done(Boot)
  /\ UNCHANGED <<workerVars, account, tab, contended, missed>>

----------------------------------------------------------------------------
(***************************************************************************)
(* Failures of the API's side.                                             *)
(***************************************************************************)
\* A query rejects: the request ends with an error.
RejectQuery(r) ==
  /\ "reject" \in Faults
  /\ api[r].pc \in {"pick", "find", "write", "clear"}
  /\ Done(r)
  /\ missed' = missed \cup ({api[r].phone} \ {NoPhone})
  /\ UNCHANGED <<workerVars, account, tab, contended>>

\* The API dies and starts again; the sidecar goes on.
ApiCrash ==
  /\ "crash" \in Faults
  /\ api' = [r \in Requests |->
               IF r = Boot
               THEN [NoRequest EXCEPT !.pc = "next", !.op = "restore", !.todo = Connected]
               ELSE NoRequest]
  /\ missed' = missed \cup ({api[r].phone : r \in Requests} \ {NoPhone})
  /\ UNCHANGED <<workerVars, account, tab, contended>>

TabStep(r) ==
  \/ \E p \in Phones : StartLogin(r, p)
  \/ SubmitCode(r) \/ SubmitPassword(r)
  \/ \E op \in {"reconnect", "logout"} : ReconnectOrLogout(r, op)
  \/ Reload(r)

ApiStep(r) ==
  \/ Pick(r) \/ PickNone(r) \/ AskForSession(r) \/ Hear(r) \/ GiveUp(r)
  \/ FindAccount(r) \/ WriteAccount(r) \/ ClearAccount(r) \/ RejectQuery(r)

TelegramNext ==
  \/ \E r \in Tabs : TabStep(r)
  \/ \E r \in Requests : ApiStep(r)
  \/ RestoreNext \/ Restored
  \/ \E h \in Handlers : Discard(h)
  \/ ApiCrash
  \/ WorkerStep /\ UNCHANGED sessionVars

TelegramSpec == TelegramInit /\ [][TelegramNext]_telegramVars

----------------------------------------------------------------------------
(***************************************************************************)
(* Properties.                                                             *)
(***************************************************************************)
\* Every variable stays within its type; a request that awaits the sidecar has
\* a handler of its own, and a step has the locals it reads.
TelegramTypeOK ==
  /\ WorkerTypeOK
  /\ account \in [Accounts -> AccountRows]
  /\ api \in [Requests -> ApiStates]
  /\ tab \in [Tabs -> TabStates]
  /\ contended \subseteq Phones
  /\ missed \subseteq Phones
  /\ \A r \in Requests :
       /\ api[r].pc = "asked" <=> api[r].via # NoHandler
       /\ api[r].pc = "clear" => api[r].row # NoAccount
       /\ api[r].pc = "idle" => api[r] = NoRequest
       /\ api[r].via # NoHandler => /\ work[api[r].via].phone = api[r].phone
                                    /\ \A q \in Requests \ {r} : api[q].via # api[r].via

\* telegram-account.repository.ts:15: one account is expected per phone.  Find
\* and create are two queries and phone has no unique index, so this rests on
\* nobody else working on the phone meanwhile.
OneAccountPerPhone ==
  \A a, b \in Accounts :
     account[a].phone = account[b].phone /\ a # b
       => account[a].phone \in contended \cup {NoPhone}

\* The session of a connected account has signed in, so that a restored or
\* reconnected client can listen: save-session, a request of its own, returns
\* the session of whatever client is registered by then.  Only what was left by
\* the implementation before the sidecar is no session.
SessionsAreSignedIn ==
  \A a \in Connected :
     \/ account[a] = OldRow(account[a].phone)
     \/ account[a].phone \in contended \/ auth[account[a].session] = "in"

\* When nothing is under way for a phone, messages flow from it only if a row
\* says that it is connected, whatever failed in the sidecar: unless requests
\* for it ran at once, or the API gave up on one or could not store its result.
ListeningIsKnown ==
  \A c \in Clients :
     LET p == client[c].phone IN
     client[c].link = "up" /\ auth[client[c].key] = "in" /\ ~UnderWay(p)
       => p \in contended \cup missed \/ \E a \in Connected : account[a].phone = p

\* docs/telegram-gramjs-to-python-migration.md:157 and worker.py:105: a session is
\* live in at most one client, which another one would evict.  It holds whatever
\* requests, crashes and restorations bring a session up again, as long as no
\* two handlers replaced the client of its phone at once.
SessionLiveOnce ==
  \A c, d \in Clients :
     Live(c) /\ Live(d) /\ client[c].key = client[d].key /\ c # d
       => client[c].phone \in overlap
============================================================================
