\* A phone that is logged in, and two tabs: two requests to reconnect it leave
\* both clients of its session connected.
CONSTANTS
  NoPhone = NoPhone
  NoClient = NoClient
  NoHandler = NoHandler
  NoAccount = NoAccount
  Boot = Boot
  Phones = {p1}
  Clients = {c1, c2, c3, c4}
  Handlers = {h1, h2}
  Accounts = {a1}
  Tabs = {r1, r2}
  Faults = {}
SPECIFICATION LoggedInSpec
SYMMETRY MCSymmetry
INVARIANTS OneLiveClient
