----------------------------- MODULE MCTelegram -----------------------------
(* Small instances of TelegramSession for TLC.                              *)
EXTENDS TelegramSession, TLC

MCSymmetry == Permutations(Clients) \cup Permutations(Handlers)
                \cup Permutations(Accounts) \cup Permutations(Tabs)

\* NoStrayClient says nothing of a phone once its client was replaced by two
\* handlers at once, so these states are not followed further; and requests for
\* one phone at once are followed as long as the API sees its requests through.
MCBound == overlap = {} /\ (contended = {} \/ missed = {})

\* What a login that nothing disturbed has left: client c of phone p is up, and
\* its session is stored in row a.
LoggedIn(p, c, a) ==
  /\ clients = [q \in Phones |-> IF q = p THEN c ELSE NoClient]
  /\ code_hashes = {}
  /\ current_phone = p
  /\ client = [d \in Clients |->
       IF d = c THEN [link |-> "up", phone |-> p, key |-> c] ELSE Unused]
  /\ auth = [d \in Clients |-> IF d = c THEN "in" ELSE "out"]
  /\ work = [h \in Handlers |-> NoWork]
  /\ overlap = {}
  /\ account = [b \in Accounts |->
       IF b = a THEN [phone |-> p, session |-> c, connected |-> TRUE] ELSE NoRow]
  /\ api = [r \in Requests |-> NoRequest]
  /\ tab = [r \in Tabs |-> NewTab]
  /\ contended = {} /\ missed = {}

LoggedInInit == \E p \in Phones, c \in Clients, a \in Accounts : LoggedIn(p, c, a)

LoggedInSpec == LoggedInInit /\ [][TelegramNext]_telegramVars
=============================================================================
