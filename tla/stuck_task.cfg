\* One request, one worker slot and the code's limits; only the process may die.
CONSTANTS
  chat = chat
  NoPost = NoPost
  NoTarget = NoTarget
  NoChat = NoChat
  NoTask = NoTask
  Posts = {p1}
  Chats = {chat}
  TargetIds = {m1}
  Channels = {c1}
  Calls = {k1}
  TypeOf <- MCTypeOf
  ChatOf <- MCChatOf
  Tasks <- MCTasks
  Workers = {w1}
  MaxAttempts = 5
  MaxStalled = 1
  Faults = {"crash"}
SPECIFICATION PipelineSpec
INVARIANT ClosedIsNotProcessing
