\* One phone, two tabs, an API that may crash and whose queries may reject, a
\* sidecar that may stop; two clients are created, three without contention.
CONSTANTS
  NoPhone = NoPhone
  NoClient = NoClient
  NoHandler = NoHandler
  NoAccount = NoAccount
  Boot = Boot
  Phones = {p1}
  Clients = {c1, c2, c3}
  Handlers = {h1, h2}
  Accounts = {a1, a2}
  Tabs = {r1, r2}
  Faults = {"crash", "reject"}
SPECIFICATION TelegramSpec
SYMMETRY MCSymmetry
CONSTRAINT MCBound
CHECK_DEADLOCK FALSE
INVARIANTS
  TelegramTypeOK
  NoStrayClient
  OneAccountPerPhone
  SessionsAreSignedIn
  ListeningIsKnown
  SessionLiveOnce
