\* The composition with crashes and rejected calls: one post received by two
\* concurrent requests, one channel, one worker slot, one attempt.
CONSTANTS
  chat = chat
  NoPost = NoPost
  NoTarget = NoTarget
  NoChat = NoChat
  NoTask = NoTask
  Posts = {p1}
  Chats = {chat}
  TargetIds = {m1}
  Channels = {c1}
  Calls = {k1, k2}
  TypeOf <- MCTypeOf
  ChatOf <- MCChatOf
  Tasks <- MCTasks
  Workers = {w1}
  MaxAttempts = 1
  MaxStalled = 1
  Faults = {"crash", "reject"}
SPECIFICATION PipelineSpec
SYMMETRY MCSymmetry
PROPERTIES
  ImplementsDelivery
  ImplementsIngest
