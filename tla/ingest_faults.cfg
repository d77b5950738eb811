\* Two concurrent requests for the same post, two rows its target can have
\* (the second after the first was deleted), two channels, crashes and
\* rejected database and Redis calls.
CONSTANTS
  chat = chat
  NoPost = NoPost
  NoTarget = NoTarget
  NoChat = NoChat
  Posts = {p1}
  Chats = {chat}
  TargetIds = {m1, m2}
  Channels = {c1, c2}
  Calls = {k1, k2}
  TypeOf <- MCTypeOf
  ChatOf <- MCChatOf
  Tasks <- MCTasks
  Faults = {"crash", "reject"}
SPECIFICATION IngestSpec
SYMMETRY MCSymmetry
INVARIANTS
  IngestTypeOK
  OneJobPerTask
  AnnouncedOnce
  IngestedMeansRouted
  IngestInv
