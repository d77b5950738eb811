SPECIFICATION ConsoleSpec
CONSTANTS
  LastMessage = 3
  MaxItems = 2
  Filters = {f1, f2}
  NoFilter = f1
  MaxPages = 2
  Loads = {l1, l2}
  Rows = {r1}
  Runs = {t1, t2}
  NoRow = NoRow
  NoRun = NoRun
  Tokens = {k1, k2}
  NoToken = NoToken
CONSTRAINT
  MCBound
CHECK_DEADLOCK FALSE
INVARIANTS
  ConsoleTypeOK
  NoDuplicates
  ReceivedIsListed
  ShownIsWanted
  ShowsOwnChanges
  BusyMeansWork
PROPERTIES
  SessionEnds
