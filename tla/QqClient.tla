------------------------------ MODULE QqClient ------------------------------
(***************************************************************************)
(* QqClientService (qq-client.service.ts): the cache of the QQ access      *)
(* token, and the requests that are sent with a token.                     *)
(*                                                                         *)
(* Time passes in Ticks.  Instead of a clock, a token carries the time it  *)
(* has left: life at the platform, counted from the moment it was issued,  *)
(* and expires in the cache, counted from the moment its answer arrived.   *)
(* A request is given up after Timeout, so no Tick can pass it by.         *)
(***************************************************************************)
EXTENDS Naturals

CONSTANTS
  Calls,       \* calls of the service that may be under way at once
  Ttls,        \* how long the platform may let a token live
  DefaultTtl,  \* DEFAULT_TOKEN_TTL_SECONDS
  Margin,      \* TOKEN_REFRESH_MARGIN_MS
  Timeout      \* REQUEST_TIMEOUT_MS

\* The code has two hours, 60 s and 10 s; nothing bounds Ttls.
ASSUME ClientAssumption ==
  /\ Timeout \in Nat \ {0}
  /\ Margin \in Nat /\ Margin >= 2 * Timeout
  /\ DefaultTtl \in Nat
  /\ Ttls \subseteq Nat \ {0}

VARIABLES
  cachedToken,
  call,       \* call[x]: what call x awaits, and the token it has
  dependable  \* what the platform is like, see TokenArrives; the code cannot tell

clientVars == <<cachedToken, call, dependable>>

----------------------------------------------------------------------------
\* "token" awaits fetchAccessToken; "url" and "post" a request with the token;
\* "open" is about to open a socket with it.
CallSteps == {"idle", "token", "url", "post", "open"}

CallStates == [pc : CallSteps, then : CallSteps, life : Nat, waited : Nat]

NoCall == [pc |-> "idle", then |-> "idle", life |-> 0, waited |-> 0]

Tokens == [life : Nat, expires : Nat]

NoToken == [life |-> 0, expires |-> 0]

Idle(x) == call[x].pc = "idle"

\* A socket is opened at once: only a request has to outlive its token.
Go(x, pc, token) ==
  call' = [call EXCEPT ![x] =
             IF pc = "open" THEN [NoCall EXCEPT !.pc = pc]
             ELSE [NoCall EXCEPT !.pc = pc, !.life = token.life]]

EndCall(x) == call' = [call EXCEPT ![x] = NoCall]

\* A plausible bug: a token is used up to the last moment.
GetAnyToken(x, then) ==
  /\ IF cachedToken.expires > 0
     THEN Go(x, then, cachedToken)
     ELSE call' = [call EXCEPT ![x] = [NoCall EXCEPT !.pc = "token", !.then = then]]
  /\ UNCHANGED <<cachedToken, dependable>>

GetAccessToken(x, then) ==
  /\ IF cachedToken.expires > Margin
     THEN Go(x, then, cachedToken)
     ELSE call' = [call EXCEPT ![x] = [NoCall EXCEPT !.pc = "token", !.then = then]]
  /\ UNCHANGED <<cachedToken, dependable>>

\* Number(body.expires_in) || DEFAULT_TOKEN_TTL_SECONDS, with 0 for a field that
\* is missing, zero or no number.
ExpiresIn(said) == IF said = 0 THEN DefaultTtl ELSE said

\* The platform issued it at some moment since it was asked for.  Of a dependable
\* platform a token lives at least as long as the cache believes, and longer than
\* two timeouts; of another one any token is taken for as long as the answer
\* says, or for DefaultTtl, and how long it really lives is left open.
TokenArrives(x) ==
  /\ call[x].pc = "token"
  /\ \E ttl \in Ttls, late \in 0 .. call[x].waited :
       \E said \in {0, ttl} :
         LET token == [life |-> IF dependable THEN ttl - late ELSE 0,
                       expires |-> ExpiresIn(said)]
         IN  /\ dependable => ExpiresIn(said) <= ttl /\ ttl > 2 * Timeout
             /\ cachedToken' = token
             /\ Go(x, call[x].then, token)
  /\ UNCHANGED dependable

\* The network, the platform's refusal, or AbortSignal.timeout.
Fails(x) ==
  /\ call[x].pc \in {"token", "url", "post"}
  /\ EndCall(x)
  /\ UNCHANGED <<cachedToken, dependable>>

\* sendGroupMessage
SendGroupMessage(x) == Idle(x) /\ GetAccessToken(x, "post")

Sent(x) ==
  /\ call[x].pc = "post"
  /\ EndCall(x)
  /\ UNCHANGED <<cachedToken, dependable>>

Less(n) == IF n = 0 THEN 0 ELSE n - 1

Waits(x) == call[x].pc \in {"token", "url", "post"}

Tick ==
  /\ \A x \in Calls : call[x].waited < Timeout
  /\ cachedToken' = [cachedToken EXCEPT !.life = Less(@), !.expires = Less(@)]
  /\ call' = [x \in Calls |->
       [call[x] EXCEPT !.life = Less(@), !.waited = IF Waits(x) THEN @ + 1 ELSE @]]
  /\ UNCHANGED dependable

----------------------------------------------------------------------------
\* Every variable stays within its type.
ClientTypeOK ==
  /\ cachedToken \in Tokens
  /\ call \in [Calls -> CallStates]
  /\ dependable \in BOOLEAN

\* The token of an HTTP request is one a dependable platform still accepts,
\* however long the request takes, whether it was just fetched or comes from the
\* cache, although the cache dates a token from the arrival of the answer (the
\* reason given for TOKEN_REFRESH_MARGIN_MS).  On any other platform the code
\* ensures nothing of the kind.
TokenIsAlive ==
  dependable =>
    \A x \in Calls : call[x].pc \in {"url", "post"} => call[x].life > 0
============================================================================
