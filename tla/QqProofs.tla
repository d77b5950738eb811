------------------------------ MODULE QqProofs ------------------------------
(***************************************************************************)
(* The token cache and the gateway, for any number of calls and sockets    *)
(* and any margin that is twice the timeout of a request; what tokens live *)
(* is bounded by nothing but what a dependable platform keeps to.          *)
(***************************************************************************)
EXTENDS QqGateway, TLAPS

----------------------------------------------------------------------------
(***************************************************************************)
(* The token cache.                                                        *)
(***************************************************************************)
\* What call x awaits; a token is fetched to do something with it.
CallOK(x) ==
  /\ call[x] \in CallStates
  /\ call[x].waited <= Timeout
  /\ call[x].pc = "token" => call[x].then \in {"url", "open", "post"}
  /\ dependable /\ call[x].pc \in {"url", "post"}
       => call[x].life + call[x].waited > Timeout

\* The cache overestimates a token of a dependable platform by at most the
\* duration of one request; a token that is used lives longer than what the
\* request has left.
ClientInv ==
  /\ dependable \in BOOLEAN
  /\ cachedToken \in Tokens
  /\ dependable => cachedToken.expires <= cachedToken.life + Timeout
  /\ DOMAIN call = Calls /\ call = [x \in Calls |-> call[x]]
  /\ \A x \in Calls : CallOK(x)

\* A step of call x that leaves it as it should be.
LEMMA CallStepInv ==
  ASSUME ClientInv, NEW x \in Calls, NEW c, call' = [call EXCEPT ![x] = c], CallOK(x)',
         cachedToken' \in Tokens, UNCHANGED dependable,
         dependable => cachedToken'.expires <= cachedToken'.life + Timeout
  PROVE  ClientInv' /\ call'[x] = c /\ \A y \in Calls \ {x} : call'[y] = call[y]
<1>1. call'[x] = c /\ \A y \in Calls \ {x} : call'[y] = call[y]
  BY DEF ClientInv
<1>2. \A y \in Calls \ {x} : CallOK(y)'
  BY <1>1 DEF ClientInv, CallOK
<1>3. DOMAIN call' = Calls /\ call' = [y \in Calls |-> call'[y]]
  BY DEF ClientInv
<1>4. QED
  BY <1>1, <1>2, <1>3 DEF ClientInv

LEMMA NoCallType == NoCall \in CallStates
  BY DEF NoCall, CallStates, CallSteps

LEMMA EndCallInv ==
  ASSUME ClientInv, NEW x \in Calls, EndCall(x), UNCHANGED <<cachedToken, dependable>>
  PROVE  ClientInv' /\ Idle(x)' /\ \A y \in Calls \ {x} : call'[y] = call[y]
<1>1. call'[x] = NoCall
  BY DEF EndCall, ClientInv
<1>2. CallOK(x)'
  BY <1>1, NoCallType, ClientAssumption DEF CallOK, NoCall
<1>3. QED
  BY <1>1, <1>2, CallStepInv DEF EndCall, ClientInv, Idle, NoCall

LEMMA GoInv ==
  ASSUME ClientInv, NEW x \in Calls, NEW pc \in {"url", "open", "post"}, NEW token \in Tokens,
         dependable => token.life > Timeout, Go(x, pc, token),
         cachedToken' \in Tokens, UNCHANGED dependable,
         dependable => cachedToken'.expires <= cachedToken'.life + Timeout
  PROVE  ClientInv' /\ ~Idle(x)' /\ \A y \in Calls \ {x} : call'[y] = call[y]
<1> DEFINE c == IF pc = "open" THEN [NoCall EXCEPT !.pc = pc]
                ELSE [NoCall EXCEPT !.pc = pc, !.life = token.life]
<1>1. call' = [call EXCEPT ![x] = c]
  BY DEF Go
<1>2. /\ c.pc = pc /\ c.waited = 0
      /\ pc # "open" => c.life = token.life
      /\ c \in CallStates
  BY NoCallType DEF NoCall, CallStates, CallSteps, Tokens
<1> HIDE DEF c
<1>3. call'[x] = c
  BY <1>1 DEF ClientInv
<1>4. CallOK(x)'
  <2>1. call'[x].waited = 0 /\ call'[x].pc = pc
    BY <1>2, <1>3
  <2>2. dependable' /\ call'[x].pc \in {"url", "post"}
          => call'[x].life + call'[x].waited > Timeout
    <3>1. SUFFICES ASSUME dependable, pc \in {"url", "post"}
                   PROVE  token.life + 0 > Timeout
      BY <1>2, <1>3, <2>1
    <3>2. QED
      BY <3>1, ClientAssumption DEF Tokens
  <2>3. QED
    BY <1>2, <1>3, <2>1, <2>2, ClientAssumption DEF CallOK
<1>5. QED
  BY <1>1, <1>2, <1>3, <1>4, CallStepInv DEF Idle

LEMMA GetAccessTokenInv ==
  ASSUME ClientInv, NEW x \in Calls, NEW then \in {"url", "open", "post"},
         GetAccessToken(x, then)
  PROVE  ClientInv' /\ ~Idle(x)' /\ \A y \in Calls \ {x} : call'[y] = call[y]
<1>1. CASE cachedToken.expires > Margin
  <2>1. dependable => cachedToken.life > Timeout
    BY <1>1, ClientAssumption DEF ClientInv, Tokens
  <2>2. QED
    BY <1>1, <2>1, GoInv DEF GetAccessToken, ClientInv
<1>2. CASE ~(cachedToken.expires > Margin)
  <2> DEFINE c == [NoCall EXCEPT !.pc = "token", !.then = then]
  <2>1. call' = [call EXCEPT ![x] = c]
    BY <1>2 DEF GetAccessToken
  <2>2. /\ c.pc = "token" /\ c.waited = 0 /\ c.then = then
        /\ c \in CallStates
    BY NoCallType DEF NoCall, CallStates, CallSteps
  <2>3. call'[x] = c
    BY <2>1 DEF ClientInv
  <2>4. CallOK(x)'
    BY <2>2, <2>3, ClientAssumption DEF CallOK
  <2>5. QED
    BY <2>1, <2>2, <2>3, <2>4, CallStepInv DEF Idle, GetAccessToken, ClientInv
<1>3. QED
  BY <1>1, <1>2

LEMMA TokenArrivesInv ==
  ASSUME ClientInv, NEW x \in Calls, TokenArrives(x)
  PROVE  ClientInv' /\ ~Idle(x)' /\ \A y \in Calls \ {x} : call'[y] = call[y]
<1> DEFINE issued(ttl, late, said) ==
             [life |-> IF dependable THEN ttl - late ELSE 0, expires |-> ExpiresIn(said)]
<1>1. PICK ttl \in Ttls, late \in 0 .. call[x].waited : \E said \in {0, ttl} :
         /\ dependable => ExpiresIn(said) <= ttl /\ ttl > 2 * Timeout
         /\ cachedToken' = issued(ttl, late, said)
         /\ Go(x, call[x].then, issued(ttl, late, said))
  BY DEF TokenArrives
<1>2. PICK said \in {0, ttl} :
         /\ dependable => ExpiresIn(said) <= ttl /\ ttl > 2 * Timeout
         /\ cachedToken' = issued(ttl, late, said)
         /\ Go(x, call[x].then, issued(ttl, late, said))
  BY <1>1
<1>3. call[x].then \in {"url", "open", "post"} /\ call[x].waited \in 0 .. Timeout
  BY DEF TokenArrives, ClientInv, CallOK, CallStates
<1>4. ttl \in Nat /\ ExpiresIn(said) \in Nat /\ late \in Nat /\ late <= Timeout
  BY <1>3, ClientAssumption DEF ExpiresIn
<1> DEFINE token == issued(ttl, late, said)
<1>5. /\ token \in Tokens
      /\ dependable => token.life > Timeout /\ token.expires <= token.life + Timeout
  BY <1>2, <1>4, ClientAssumption DEF ClientInv, Tokens
<1> HIDE DEF token
<1>6. cachedToken' = token /\ Go(x, call[x].then, token) /\ UNCHANGED dependable
  BY <1>2 DEF TokenArrives, token
<1>7. QED
  BY <1>3, <1>5, <1>6, GoInv

LEMMA LessType == \A n \in Nat : Less(n) \in Nat /\ Less(n) <= n /\ n <= Less(n) + 1
  BY DEF Less

LEMMA TickInv ==
  ASSUME ClientInv, Tick
  PROVE  ClientInv' /\ \A x \in Calls : call'[x].pc = call[x].pc
<1>1. Timeout \in Nat
  BY ClientAssumption
<1>2. cachedToken' \in Tokens
      /\ (dependable => cachedToken'.expires <= cachedToken'.life + Timeout)
  <2>1. cachedToken.life \in Nat /\ cachedToken.expires \in Nat
    BY DEF ClientInv, Tokens
  <2>2. /\ cachedToken'.life = Less(cachedToken.life)
        /\ cachedToken'.expires = Less(cachedToken.expires)
        /\ cachedToken' \in Tokens
    BY <2>1, LessType DEF Tick, ClientInv, Tokens
  <2>3. dependable => Less(cachedToken.expires) <= Less(cachedToken.life) + Timeout
    BY <1>1, <2>1 DEF ClientInv, Less
  <2>4. QED
    BY <2>2, <2>3
<1>3. ASSUME NEW x \in Calls
      PROVE  CallOK(x)' /\ call'[x].pc = call[x].pc
  <2>1. call[x] \in CallStates /\ call[x].waited < Timeout
    BY <1>3 DEF ClientInv, CallOK, Tick
  <2>2. call'[x] = [call[x] EXCEPT !.life = Less(@),
                                   !.waited = IF Waits(x) THEN @ + 1 ELSE @]
    BY <1>3 DEF Tick
  <2>3. /\ call'[x].pc = call[x].pc /\ call'[x].then = call[x].then
        /\ call'[x].life = Less(call[x].life)
        /\ call'[x].waited = IF Waits(x) THEN call[x].waited + 1 ELSE call[x].waited
    BY <2>1, <2>2 DEF CallStates
  <2>4. call'[x] \in CallStates
    <3>1. /\ call[x].waited + 1 \in Nat /\ Less(call[x].life) \in Nat
      BY <2>1, LessType DEF CallStates
    <3>2. QED
      BY <2>1, <2>2, <3>1 DEF CallStates
  <2>5. call'[x].waited <= Timeout
    BY <1>1, <2>1, <2>3 DEF CallStates
  <2>6. dependable /\ call[x].pc \in {"url", "post"}
          => call'[x].life + call'[x].waited > Timeout
    <3>1. SUFFICES ASSUME dependable, call[x].pc \in {"url", "post"}
                   PROVE  call'[x].life + call'[x].waited > Timeout
      OBVIOUS
    <3>2. Waits(x) /\ call[x].life + call[x].waited > Timeout
      BY <1>3, <3>1 DEF Waits, ClientInv, CallOK
    <3>3. QED
      BY <1>1, <2>1, <2>3, <3>2 DEF CallStates, Less
  <2>7. QED
    BY <1>3, <2>3, <2>4, <2>5, <2>6 DEF Tick, ClientInv, CallOK
<1>4. QED
  BY <1>2, <1>3 DEF ClientInv, Tick

LEMMA AliveOfInv == ClientInv => ClientTypeOK /\ TokenIsAlive
  BY ClientAssumption DEF ClientInv, CallOK, CallStates, ClientTypeOK, TokenIsAlive

----------------------------------------------------------------------------
(***************************************************************************)
(* The gateway.                                                            *)
(***************************************************************************)
\* The socket in use is not closing; a socket says Hello while it is open only.
WsInv ==
  /\ ws \in Sockets \cup {NoSocket}
  /\ socket \in [Sockets -> SocketStates]
  /\ heartbeatTimer \in BOOLEAN /\ reconnectTimer \in BOOLEAN /\ shuttingDown \in BOOLEAN
  /\ ws # NoSocket => socket[ws].link \in {"connecting", "open"}
  /\ \A s \in Sockets : socket[s].link \in {"none", "connecting"} => ~socket[s].hello
  /\ shuttingDown => ~reconnectTimer

GatewayInv == ClientInv /\ WsInv /\ HelloIsAnswered /\ NeverAbandoned

LEMMA IdleCallOK == \A x \in Calls : call[x] = NoCall => CallOK(x)
  BY NoCallType, ClientAssumption DEF CallOK, NoCall

LEMMA GatewayInitInv == GatewayInit => GatewayInv
<1>1. SUFFICES ASSUME GatewayInit
               PROVE  GatewayInv
  OBVIOUS
<1>2. PICK first \in Connects :
         call = [x \in Calls |-> IF x = first
                                 THEN [NoCall EXCEPT !.pc = "token", !.then = "url"]
                                 ELSE NoCall]
  BY <1>1 DEF GatewayInit
<1>3. first \in Calls
  BY GatewayAssumption
<1>4. /\ call[first] \in CallStates /\ call[first].waited = 0
      /\ call[first].pc = "token" /\ call[first].then = "url"
  BY <1>2, <1>3, NoCallType DEF NoCall, CallStates, CallSteps
<1>5. \A x \in Calls : CallOK(x)
  <2>1. CallOK(first)
    BY <1>4, ClientAssumption DEF CallOK
  <2>2. \A x \in Calls \ {first} : call[x] = NoCall
    BY <1>2
  <2>3. QED
    BY <2>1, <2>2, IdleCallOK
<1>6. ClientInv
  <2>1. NoToken \in Tokens /\ NoToken.expires <= NoToken.life + Timeout
    BY ClientAssumption DEF NoToken, Tokens
  <2>2. QED
    BY <1>1, <1>2, <1>5, <2>1 DEF GatewayInit, ClientInv
<1>7. WsInv
  BY <1>1 DEF GatewayInit, WsInv, NoConnection, SocketStates
<1>8. NeverAbandoned
  BY <1>4 DEF NeverAbandoned, Connecting, Idle
<1>9. HelloIsAnswered
  BY <1>1 DEF GatewayInit, HelloIsAnswered
<1>10. QED
  BY <1>6, <1>7, <1>8, <1>9 DEF GatewayInv

LEMMA WsClosedType ==
  ASSUME WsInv
  PROVE  /\ WsClosed \in [Sockets -> SocketStates]
         /\ \A s \in Sockets : WsClosed[s].link \in {"none", "connecting"} => ~WsClosed[s].hello
<1>1. [NoConnection EXCEPT !.link = "closing"] \in SocketStates
  BY DEF NoConnection, SocketStates
<1>2. [NoConnection EXCEPT !.link = "closing"].hello = FALSE
  BY DEF NoConnection
<1>3. QED
  BY <1>1, <1>2 DEF WsClosed, WsInv

\* A call that goes on, or a clock that ticks, leaves the sockets alone.
LEMMA SocketsUnchanged ==
  ASSUME WsInv, HelloIsAnswered, UNCHANGED socketVars
  PROVE  WsInv' /\ HelloIsAnswered'
  BY DEF WsInv, HelloIsAnswered, socketVars

LEMMA ConnectStepInv ==
  ASSUME GatewayInv, NEW x \in Connects, ConnectStep(x)
  PROVE  GatewayInv'
<1>1. x \in Calls /\ \A y \in Connects : y \in Calls
  BY GatewayAssumption
<1>2. CASE TokenArrives(x) /\ UNCHANGED socketVars
  <2>1. ClientInv' /\ ~Idle(x)'
    BY <1>1, <1>2, TokenArrivesInv DEF GatewayInv
  <2>2. NeverAbandoned'
    BY <2>1 DEF NeverAbandoned, Connecting
  <2>3. QED
    BY <1>2, <2>1, <2>2, SocketsUnchanged DEF GatewayInv
<1>3. CASE PreparationFails(x)
  <2>1. ClientInv'
    BY <1>1, <1>3, EndCallInv DEF PreparationFails, Fails, GatewayInv
  <2>2. reconnectTimer' \in BOOLEAN /\ (reconnectTimer' \/ shuttingDown)
        /\ (shuttingDown => ~reconnectTimer')
    BY <1>3 DEF PreparationFails, ScheduleReconnect, GatewayInv, WsInv
  <2>3. WsInv' /\ HelloIsAnswered' /\ NeverAbandoned'
    BY <1>3, <2>2 DEF PreparationFails, GatewayInv, WsInv, HelloIsAnswered, NeverAbandoned
  <2>4. QED
    BY <2>1, <2>3 DEF GatewayInv
<1>4. CASE UrlArrives(x)
  <2>1. ClientInv' /\ ~Idle(x)'
    BY <1>1, <1>4, GetAccessTokenInv DEF UrlArrives, GatewayInv
  <2>2. NeverAbandoned'
    BY <2>1 DEF NeverAbandoned, Connecting
  <2>3. QED
    BY <1>4, <2>1, <2>2, SocketsUnchanged DEF UrlArrives, GatewayInv
<1>5. CASE OpenSocket(x)
  <2>1. ClientInv'
    BY <1>1, <1>5, EndCallInv DEF OpenSocket, GatewayInv
  <2>2. PICK s \in Sockets : /\ socket[s].link = "none"
                             /\ socket' = [socket EXCEPT ![s].link = "connecting"]
                             /\ ws' = s
    BY <1>5 DEF OpenSocket
  <2>3. /\ socket' \in [Sockets -> SocketStates]
        /\ socket'[s].link = "connecting" /\ socket'[s].hello = socket[s].hello
        /\ \A r \in Sockets \ {s} : socket'[r] = socket[r]
    BY <2>2 DEF GatewayInv, WsInv, SocketStates
  <2>4. ws' # NoSocket
    BY <2>2, GatewayAssumption
  <2>5. ~socket'[s].hello
    BY <2>2, <2>3 DEF GatewayInv, WsInv
  <2>6. WsInv' /\ HelloIsAnswered' /\ NeverAbandoned'
    BY <1>5, <2>2, <2>3, <2>4, <2>5
    DEF OpenSocket, GatewayInv, WsInv, HelloIsAnswered, NeverAbandoned
  <2>7. QED
    BY <2>1, <2>6 DEF GatewayInv
<1>6. QED
  BY <1>2, <1>3, <1>4, <1>5 DEF ConnectStep

LEMMA TimerInv ==
  ASSUME GatewayInv, TimerFires
  PROVE  GatewayInv'
<1>1. PICK x \in Connects : Idle(x) /\ GetAccessToken(x, "url")
  BY DEF TimerFires
<1>2. ClientInv' /\ ~Idle(x)'
  BY <1>1, GatewayAssumption, GetAccessTokenInv DEF GatewayInv
<1>3. WsInv' /\ HelloIsAnswered'
  BY DEF TimerFires, GatewayInv, WsInv, HelloIsAnswered
<1>4. NeverAbandoned'
  BY <1>2 DEF NeverAbandoned, Connecting
<1>5. QED
  BY <1>2, <1>3, <1>4 DEF GatewayInv

\* A send touches neither the sockets nor the executions of connect.
LEMMA SendStepInv ==
  ASSUME GatewayInv, NEW x \in Sends, SendStep(x)
  PROVE  GatewayInv'
<1>1. x \in Calls /\ x \notin Connects /\ \A y \in Connects : y \in Calls \ {x}
  BY GatewayAssumption
<1>2. ClientInv' /\ \A y \in Calls \ {x} : call'[y] = call[y]
  BY <1>1, GetAccessTokenInv, TokenArrivesInv, EndCallInv
  DEF SendStep, SendGroupMessage, Sent, Fails, GatewayInv
<1>3. Connecting' = Connecting
  BY <1>1, <1>2 DEF Connecting, Idle
<1>4. NeverAbandoned'
  BY <1>3 DEF SendStep, socketVars, GatewayInv, NeverAbandoned
<1>5. QED
  BY <1>2, <1>4, SocketsUnchanged DEF SendStep, GatewayInv

LEMMA SocketStepInv ==
  ASSUME GatewayInv, NEW s \in Sockets, SocketStep(s)
  PROVE  GatewayInv'
<1>1. ClientInv' /\ Connecting' = Connecting
  BY DEF SocketStep, Opened, Hello, ToldToReconnect, HandleClose, clientVars, GatewayInv,
         ClientInv, CallOK, Connecting, Idle
<1>2. CASE Opened(s)
  <2>1. /\ socket' \in [Sockets -> SocketStates]
        /\ socket'[s].link = "open" /\ socket'[s].hello = socket[s].hello
        /\ socket'[s].identified = socket[s].identified
        /\ \A r \in Sockets \ {s} : socket'[r] = socket[r]
    BY <1>2 DEF Opened, GatewayInv, WsInv, SocketStates
  <2>2. WsInv' /\ HelloIsAnswered' /\ NeverAbandoned'
    BY <1>1, <1>2, <2>1 DEF Opened, GatewayInv, WsInv, HelloIsAnswered, NeverAbandoned
  <2>3. QED
    BY <1>1, <2>2 DEF GatewayInv
<1>3. CASE Hello(s)
  <2>1. /\ socket' \in [Sockets -> SocketStates]
        /\ \A r \in Sockets : /\ socket'[r].link = socket[r].link
                              /\ r # s => socket'[r].hello = socket[r].hello
    BY <1>3 DEF Hello, StartHeartbeat, Identify, IsOpen, GatewayInv, WsInv, SocketStates
  <2>2. IsOpen(ws) => socket'[ws].identified
    BY <1>3 DEF Hello, StartHeartbeat, Identify, IsOpen, GatewayInv, WsInv, SocketStates
  <2>3. ws # NoSocket /\ socket'[ws].hello => IsOpen(ws)
    BY <1>3, <2>1 DEF Hello, StartHeartbeat, Identify, IsOpen, GatewayInv, WsInv
  <2>4. HelloIsAnswered'
    BY <1>3, <2>2, <2>3 DEF Hello, StartHeartbeat, Identify, HelloIsAnswered
  <2>5. WsInv'
    BY <1>3, <2>1 DEF Hello, StartHeartbeat, Identify, IsOpen, GatewayInv, WsInv
  <2>6. NeverAbandoned'
    BY <1>1, <1>3 DEF Hello, StartHeartbeat, Identify, GatewayInv, NeverAbandoned
  <2>7. QED
    BY <1>1, <2>4, <2>5, <2>6 DEF GatewayInv
<1>4. CASE ToldToReconnect(s) \/ HandleClose(s)
  <2>1. /\ reconnectTimer' \in BOOLEAN
        /\ reconnectTimer' \/ shuttingDown'
        /\ shuttingDown' => ~reconnectTimer'
    <3>1. shuttingDown' = shuttingDown /\ reconnectTimer' = (reconnectTimer \/ ~shuttingDown)
      BY <1>4 DEF ToldToReconnect, CloseAndReconnect, ClearHeartbeat, HandleClose, ScheduleReconnect
    <3>2. (shuttingDown => ~reconnectTimer) /\ shuttingDown \in BOOLEAN
      BY DEF GatewayInv, WsInv
    <3>3. QED
      BY <3>1, <3>2
  <2>2. /\ socket' \in [Sockets -> SocketStates]
        /\ \A r \in Sockets : socket'[r].link \in {"none", "connecting"} => ~socket'[r].hello
    <3>1. CASE ToldToReconnect(s)
      BY <3>1, WsClosedType DEF ToldToReconnect, CloseAndReconnect, ClearHeartbeat, GatewayInv
    <3>2. CASE HandleClose(s)
      BY <3>2 DEF HandleClose, ClearHeartbeat, GatewayInv, WsInv, NoConnection, SocketStates
    <3>3. QED
      BY <1>4, <3>1, <3>2
  <2>3. ws' = NoSocket /\ heartbeatTimer' = FALSE /\ shuttingDown' = shuttingDown
    BY <1>4 DEF ToldToReconnect, CloseAndReconnect, HandleClose, ClearHeartbeat
  <2>4. WsInv' /\ HelloIsAnswered' /\ NeverAbandoned'
    BY <2>1, <2>2, <2>3 DEF GatewayInv, WsInv, HelloIsAnswered, NeverAbandoned
  <2>5. QED
    BY <1>1, <2>4 DEF GatewayInv
<1>5. QED
  BY <1>2, <1>3, <1>4 DEF SocketStep

LEMMA DestroyInv ==
  ASSUME GatewayInv, OnModuleDestroy
  PROVE  GatewayInv'
<1>1. ClientInv'
  BY DEF OnModuleDestroy, clientVars, GatewayInv, ClientInv, CallOK
<1>2. WsInv' /\ HelloIsAnswered' /\ NeverAbandoned'
  BY WsClosedType DEF OnModuleDestroy, ClearHeartbeat, GatewayInv, WsInv, HelloIsAnswered, NeverAbandoned
<1>3. QED
  BY <1>1, <1>2 DEF GatewayInv

LEMMA GatewayTickInv ==
  ASSUME GatewayInv, Tick, UNCHANGED socketVars
  PROVE  GatewayInv'
<1>1. ClientInv' /\ \A x \in Calls : call'[x].pc = call[x].pc
  BY TickInv DEF GatewayInv
<1>2. Connecting' = Connecting
  BY <1>1, GatewayAssumption DEF Connecting, Idle
<1>3. NeverAbandoned'
  BY <1>2 DEF socketVars, GatewayInv, NeverAbandoned
<1>4. QED
  BY <1>1, <1>3, SocketsUnchanged DEF GatewayInv

LEMMA GatewayStutterInv ==
  ASSUME GatewayInv, UNCHANGED gatewayVars
  PROVE  GatewayInv'
<1>1. ClientInv' /\ Connecting' = Connecting
  BY DEF gatewayVars, clientVars, GatewayInv, ClientInv, CallOK, Connecting, Idle
<1>2. NeverAbandoned'
  BY <1>1 DEF gatewayVars, socketVars, GatewayInv, NeverAbandoned
<1>3. QED
  BY <1>1, <1>2, SocketsUnchanged DEF gatewayVars, GatewayInv

LEMMA GatewayStepInv ==
  ASSUME GatewayInv, [GatewayNext]_gatewayVars
  PROVE  GatewayInv'
  BY TimerInv, ConnectStepInv, SendStepInv, SocketStepInv, DestroyInv, GatewayTickInv,
     GatewayStutterInv
  DEF GatewayNext

\* Every variable stays within its type; nobody has closed the socket in use.
THEOREM GatewayTypeCorrect == GatewaySpec => []GatewayTypeOK
<1>1. GatewayInv => GatewayTypeOK
  BY AliveOfInv DEF GatewayInv, WsInv, GatewayTypeOK
<1>2. QED
  BY <1>1, GatewayInitInv, GatewayStepInv, PTL DEF GatewaySpec

\* On a platform whose tokens live as long as the cache believes, and longer
\* than two timeouts, no request is sent with a token that dies before its answer
\* (TOKEN_REFRESH_MARGIN_MS and REQUEST_TIMEOUT_MS of qq-client.service.ts).
THEOREM GatewayTokenIsAlive == GatewaySpec => []TokenIsAlive
<1>1. GatewayInv => TokenIsAlive
  BY AliveOfInv DEF GatewayInv
<1>2. QED
  BY <1>1, GatewayInitInv, GatewayStepInv, PTL DEF GatewaySpec

\* Whatever fails and whichever socket closes, a reconnection is on its way
\* (scheduleReconnect of qq-gateway.service.ts).
THEOREM GatewayNeverAbandoned == GatewaySpec => []NeverAbandoned
<1>1. GatewayInv => NeverAbandoned
  BY DEF GatewayInv
<1>2. QED
  BY <1>1, GatewayInitInv, GatewayStepInv, PTL DEF GatewaySpec

\* The socket in use has a heartbeat and is identified once it has said Hello.
THEOREM GatewayAnswersHello == GatewaySpec => []HelloIsAnswered
<1>1. GatewayInv => HelloIsAnswered
  BY DEF GatewayInv
<1>2. QED
  BY <1>1, GatewayInitInv, GatewayStepInv, PTL DEF GatewaySpec

\* A socket comes into use where a connect() ends.
LEMMA SocketEndsConnect ==
  ASSUME GatewayInv, [GatewayNext]_gatewayVars, ws' \notin {ws, NoSocket}
  PROVE  Connecting' # Connecting
<1>1. PICK x \in Connects : OpenSocket(x)
  BY DEF GatewayNext, TimerFires, ConnectStep, PreparationFails, UrlArrives, SendStep,
         SocketStep, Opened, Hello, CloseAndReconnect, ToldToReconnect, HandleClose,
         OnModuleDestroy, gatewayVars, socketVars
<1>2. Idle(x)'
  BY <1>1, EndCallInv, GatewayAssumption DEF OpenSocket, GatewayInv
<1>3. ~Idle(x)
  BY <1>1 DEF OpenSocket, Idle
<1>4. QED
  BY <1>2, <1>3 DEF Connecting

\* After onModuleDestroy no step sets the reconnect timer, begins a connect(), or
\* opens a socket but at the end of one.
LEMMA QuietStep ==
  ASSUME GatewayInv, shuttingDown, [GatewayNext]_gatewayVars
  PROVE  /\ ~reconnectTimer' /\ Connecting' \subseteq Connecting
         /\ ws' \notin {ws, NoSocket} => Connecting' # Connecting
<1>1. ~reconnectTimer
  BY DEF GatewayInv, WsInv
<1>2. ~reconnectTimer'
  <2>1. shuttingDown' /\ GatewayInv'
    BY <1>1, GatewayStepInv
    DEF GatewayNext, TimerFires, ConnectStep, PreparationFails, UrlArrives, OpenSocket,
        SendStep, SocketStep, Opened, Hello, StartHeartbeat,
        Identify, CloseAndReconnect, ClearHeartbeat, ToldToReconnect, HandleClose,
        OnModuleDestroy, gatewayVars, socketVars
  <2>2. QED
    BY <2>1 DEF GatewayInv, WsInv
<1>3. Connecting' \subseteq Connecting
  <2>1. CASE UNCHANGED clientVars
    BY <2>1 DEF clientVars, Connecting, Idle
  <2>2. ASSUME NEW x \in Connects, ConnectStep(x)
        PROVE  Connecting' \subseteq Connecting
    <3>1. x \in Calls /\ \A y \in Connects : y \in Calls
      BY GatewayAssumption
    <3>2. \A y \in Calls \ {x} : call'[y] = call[y]
      BY <2>2, <3>1, TokenArrivesInv, GetAccessTokenInv, EndCallInv
      DEF ConnectStep, PreparationFails, UrlArrives, OpenSocket, Fails, GatewayInv
    <3>3. ~Idle(x)
      BY <2>2 DEF ConnectStep, TokenArrives, PreparationFails, Fails, UrlArrives,
                  OpenSocket, Idle
    <3>4. QED
      BY <3>1, <3>2, <3>3 DEF Connecting, Idle
  <2>3. ASSUME NEW x \in Sends, SendStep(x)
        PROVE  Connecting' \subseteq Connecting
    <3>1. x \in Calls /\ \A y \in Connects : y \in Calls \ {x}
      BY GatewayAssumption
    <3>2. \A y \in Calls \ {x} : call'[y] = call[y]
      BY <2>3, <3>1, GetAccessTokenInv, TokenArrivesInv, EndCallInv
      DEF SendStep, SendGroupMessage, Sent, Fails, GatewayInv
    <3>3. QED
      BY <3>1, <3>2 DEF Connecting, Idle
  <2>4. CASE Tick
    BY <2>4, TickInv, GatewayAssumption DEF GatewayInv, Connecting, Idle
  <2>5. QED
    BY <1>1, <2>1, <2>2, <2>3, <2>4
    DEF GatewayNext, TimerFires, SocketStep, Opened, Hello, StartHeartbeat,
        Identify, CloseAndReconnect, ClearHeartbeat, ToldToReconnect, HandleClose,
        OnModuleDestroy, gatewayVars
<1>4. QED
  BY <1>2, <1>3, SocketEndsConnect

\* Once the module is destroyed the reconnect timer is not set and no connect()
\* begins; a connect() that was under way may still open a socket, and no other
\* socket comes into use (onModuleDestroy and scheduleReconnect of
\* qq-gateway.service.ts).
THEOREM GatewayQuietAfterDestroy == GatewaySpec => QuietAfterDestroy
<1>1. GatewayInv /\ [GatewayNext]_gatewayVars
        => [shuttingDown =>
              /\ ~reconnectTimer' /\ Connecting' \subseteq Connecting
              /\ ws' \notin {ws, NoSocket} => Connecting' # Connecting]_gatewayVars
  BY QuietStep
<1>2. QED
  BY <1>1, GatewayInitInv, GatewayStepInv, PTL DEF GatewaySpec, QuietAfterDestroy
=============================================================================
