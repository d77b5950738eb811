----------------------------- MODULE QqGateway ------------------------------
(***************************************************************************)
(* QqGatewayService (qq-gateway.service.ts): the WebSocket connection that *)
(* keeps the QQ bot online, with the token cache of QqClient and the sends *)
(* of the notification provider.                                           *)
(*                                                                         *)
(* A socket whose close() was called is closing until its onclose event;   *)
(* messages are delivered only while it is open (the WebSocket standard).  *)
(* The timer may fire at any time after it was set: a close handshake can  *)
(* take longer than the delay.  Heartbeats change no state and are left    *)
(* out, as are the delays, the sequence number and the session id, which   *)
(* no code reads to take a decision, and the age of the token that         *)
(* Identify sends: nothing bounds the time from connect() to the Hello.    *)
(***************************************************************************)
EXTENDS QqClient

CONSTANTS
  Connects,   \* executions of connect() that may be under way at once
  Sends,      \* executions of sendGroupMessage() that may be under way at once
  Sockets,    \* WebSocket objects that may exist at once
  NoSocket

ASSUME GatewayAssumption ==
  /\ Calls = Connects \cup Sends
  /\ Connects \cap Sends = {}
  /\ NoSocket \notin Sockets

VARIABLES
  ws,
  socket,           \* socket[s]: the connection of s, and what passed over it
  heartbeatTimer,   \* is the interval set?
  reconnectTimer,   \* is the timeout set?
  shuttingDown

socketVars == <<ws, socket, heartbeatTimer, reconnectTimer, shuttingDown>>
gatewayVars == <<clientVars, socketVars>>

----------------------------------------------------------------------------
SocketStates ==
  [link : {"none", "connecting", "open", "closing"}, hello : BOOLEAN, identified : BOOLEAN]

NoConnection == [link |-> "none", hello |-> FALSE, identified |-> FALSE]

\* onModuleInit: the cache is empty, so connect() first fetches a token.
GatewayInit ==
  /\ cachedToken = NoToken
  /\ dependable \in BOOLEAN
  /\ \E first \in Connects :
       call = [x \in Calls |-> IF x = first
                               THEN [NoCall EXCEPT !.pc = "token", !.then = "url"]
                               ELSE NoCall]
  /\ ws = NoSocket
  /\ socket = [s \in Sockets |-> NoConnection]
  /\ heartbeatTimer = FALSE
  /\ reconnectTimer = FALSE
  /\ shuttingDown = FALSE

IsOpen(s) == s # NoSocket /\ socket[s].link = "open"

Connecting == {x \in Connects : ~Idle(x)}

\* Nothing is scheduled twice, or after the module was destroyed.
ScheduleReconnect == reconnectTimer' = (reconnectTimer \/ ~shuttingDown)

\* this.ws.close(), if there is one.
WsClosed ==
  IF ws = NoSocket THEN socket
  ELSE [socket EXCEPT ![ws] = [NoConnection EXCEPT !.link = "closing"]]

----------------------------------------------------------------------------
(***************************************************************************)
(* connect                                                                 *)
(***************************************************************************)
TimerFires ==
  /\ reconnectTimer
  /\ reconnectTimer' = FALSE
  /\ \E x \in Connects : Idle(x) /\ GetAccessToken(x, "url")
  /\ UNCHANGED <<ws, socket, heartbeatTimer, shuttingDown>>

\* A plausible bug: the error is logged and that is all.
PreparationFailsForGood(x) ==
  /\ Fails(x)
  /\ UNCHANGED socketVars

PreparationFails(x) ==
  /\ Fails(x)
  /\ ScheduleReconnect
  /\ UNCHANGED <<ws, socket, heartbeatTimer, shuttingDown>>

\* The answer of /gateway/bot; the token is then taken once more.
UrlArrives(x) ==
  /\ call[x].pc = "url"
  /\ GetAccessToken(x, "open")
  /\ UNCHANGED socketVars

\* Whatever socket there was, and whether or not the module was destroyed.
OpenSocket(x) ==
  /\ call[x].pc = "open"
  /\ EndCall(x)
  /\ \E s \in Sockets :
       /\ socket[s].link = "none"
       /\ socket' = [socket EXCEPT ![s].link = "connecting"]
       /\ ws' = s
  /\ UNCHANGED <<cachedToken, dependable, heartbeatTimer, reconnectTimer, shuttingDown>>

----------------------------------------------------------------------------
(***************************************************************************)
(* The events of a socket, which need not be the one in use.               *)
(***************************************************************************)
Opened(s) ==
  /\ socket[s].link = "connecting"
  /\ socket' = [socket EXCEPT ![s].link = "open"]
  /\ UNCHANGED <<clientVars, ws, heartbeatTimer, reconnectTimer, shuttingDown>>

StartHeartbeat == heartbeatTimer' = TRUE

ClearHeartbeat == heartbeatTimer' = FALSE

\* send: over the socket in use, if it is open.
Identify(s) ==
  socket' = IF IsOpen(ws)
            THEN [socket EXCEPT ![s].hello = TRUE, ![ws].identified = TRUE]
            ELSE [socket EXCEPT ![s].hello = TRUE]

\* A plausible bug: only the first Hello of the process starts the heartbeat
\* and is answered.
HelloOnce(s) ==
  /\ IsOpen(s) /\ ~socket[s].hello
  /\ heartbeatTimer' = TRUE
  /\ socket' = IF heartbeatTimer \/ ~IsOpen(ws)
               THEN [socket EXCEPT ![s].hello = TRUE]
               ELSE [socket EXCEPT ![s].hello = TRUE, ![ws].identified = TRUE]
  /\ UNCHANGED <<clientVars, ws, reconnectTimer, shuttingDown>>

Hello(s) ==
  /\ IsOpen(s) /\ ~socket[s].hello
  /\ StartHeartbeat
  /\ Identify(s)
  /\ UNCHANGED <<clientVars, ws, reconnectTimer, shuttingDown>>

\* A plausible bug: the field keeps the socket that is closing.
ToldToReconnectAndKeeps(s) ==
  /\ IsOpen(s)
  /\ heartbeatTimer' = FALSE
  /\ socket' = WsClosed
  /\ ScheduleReconnect
  /\ UNCHANGED <<clientVars, ws, shuttingDown>>

\* Of the socket in use.
CloseAndReconnect ==
  /\ ClearHeartbeat
  /\ socket' = WsClosed
  /\ ws' = NoSocket
  /\ ScheduleReconnect

\* Reconnect and InvalidSession.
ToldToReconnect(s) ==
  /\ IsOpen(s)
  /\ CloseAndReconnect
  /\ UNCHANGED <<clientVars, shuttingDown>>

\* A plausible bug: the close of a socket that is going away anyway is followed
\* by a connection even when the module was destroyed.
HandleCloseAlways(s) ==
  /\ socket[s].link # "none"
  /\ socket' = [socket EXCEPT ![s] = NoConnection]
  /\ heartbeatTimer' = FALSE
  /\ ws' = NoSocket
  /\ reconnectTimer' = TRUE
  /\ UNCHANGED <<clientVars, shuttingDown>>

\* A plausible bug: a connection that was lost is not replaced.
HandleCloseForGood(s) ==
  /\ socket[s].link # "none"
  /\ socket' = [socket EXCEPT ![s] = NoConnection]
  /\ heartbeatTimer' = FALSE
  /\ ws' = NoSocket
  /\ UNCHANGED <<clientVars, reconnectTimer, shuttingDown>>

\* handleClose: however the connection ended, and whichever socket it was.
HandleClose(s) ==
  /\ socket[s].link # "none"
  /\ socket' = [socket EXCEPT ![s] = NoConnection]
  /\ ClearHeartbeat
  /\ ws' = NoSocket
  /\ ScheduleReconnect
  /\ UNCHANGED <<clientVars, shuttingDown>>

OnModuleDestroy ==
  /\ ~shuttingDown
  /\ shuttingDown' = TRUE
  /\ ClearHeartbeat
  /\ reconnectTimer' = FALSE
  /\ socket' = WsClosed
  /\ ws' = NoSocket
  /\ UNCHANGED clientVars

SocketStep(s) == Opened(s) \/ Hello(s) \/ ToldToReconnect(s) \/ HandleClose(s)

ConnectStep(x) ==
  \/ TokenArrives(x) /\ UNCHANGED socketVars
  \/ PreparationFails(x) \/ UrlArrives(x) \/ OpenSocket(x)

SendStep(x) ==
  /\ SendGroupMessage(x) \/ TokenArrives(x) \/ Sent(x) \/ Fails(x)
  /\ UNCHANGED socketVars

GatewayNext ==
  \/ TimerFires
  \/ \E x \in Connects : ConnectStep(x)
  \/ \E x \in Sends : SendStep(x)
  \/ \E s \in Sockets : SocketStep(s)
  \/ OnModuleDestroy
  \/ Tick /\ UNCHANGED socketVars

GatewaySpec == GatewayInit /\ [][GatewayNext]_gatewayVars

TokenSucceeds(then) ==
  \E x \in Connects : call[x].then = then /\ TokenArrives(x) /\ UNCHANGED socketVars

\* Node fires the timer and runs the continuations; each kind of request to the
\* platform succeeds again and again; sockets that are not in use get no
\* heartbeats, so that the platform closes them.
GatewayFairSpec ==
  /\ GatewaySpec
  /\ WF_gatewayVars(TimerFires)
  /\ WF_gatewayVars(\E x \in Connects : OpenSocket(x))
  /\ SF_gatewayVars(TokenSucceeds("url"))
  /\ SF_gatewayVars(TokenSucceeds("open"))
  /\ SF_gatewayVars(\E x \in Connects : UrlArrives(x))
  /\ SF_gatewayVars(\E s \in Sockets : s = ws /\ Opened(s))
  /\ WF_gatewayVars(\E s \in Sockets : s # ws /\ HandleClose(s))

----------------------------------------------------------------------------
(***************************************************************************)
(* Properties.                                                             *)
(***************************************************************************)
\* Every variable stays within its type, and the socket in use is one that
\* nobody has closed.
GatewayTypeOK ==
  /\ ClientTypeOK
  /\ ws \in Sockets \cup {NoSocket}
  /\ socket \in [Sockets -> SocketStates]
  /\ heartbeatTimer \in BOOLEAN
  /\ reconnectTimer \in BOOLEAN
  /\ shuttingDown \in BOOLEAN
  /\ ws # NoSocket => socket[ws].link \in {"connecting", "open"}

\* The gateway never gives up: without a socket there is a timer or a connect()
\* under way that will bring one, whichever socket's close came when, and
\* whatever preparation failed.
NeverAbandoned ==
  ws = NoSocket => reconnectTimer \/ Connecting # {} \/ shuttingDown

\* The socket in use, once it has said Hello, is identified and has a heartbeat,
\* although Hello, closes and reconnections of older sockets act on the same
\* timer and the same field.
HelloIsAnswered ==
  ws # NoSocket /\ socket[ws].hello => heartbeatTimer /\ socket[ws].identified

\* Once the module is destroyed the reconnect timer is not set, no connect()
\* begins, and a socket comes into use only as the end of a connect() that was
\* under way, whatever socket closes and whatever preparation fails then.  Such
\* a socket the code does open, and its Hello starts the heartbeat.
QuietAfterDestroy ==
  [][shuttingDown =>
       /\ ~reconnectTimer'
       /\ Connecting' \subseteq Connecting
       /\ ws' \notin {ws, NoSocket} => Connecting' # Connecting]_gatewayVars

\* qq.provider.ts:21: the gateway keeps the bot online.  It is online again and
\* again until the module is destroyed, however many sockets are lost.
ComesBack == []<>(IsOpen(ws) \/ shuttingDown)
============================================================================
