\* A request whose queue.add is rejected, with two channels.
CONSTANTS
  chat = chat
  NoPost = NoPost
  NoTarget = NoTarget
  NoChat = NoChat
  Posts = {p1}
  Chats = {chat}
  TargetIds = {m1}
  Channels = {c1, c2}
  Calls = {k1, k2}
  TypeOf <- MCTypeOf
  ChatOf <- MCChatOf
  Tasks <- MCTasks
  Faults = {"reject"}
SPECIFICATION IngestSpec
INVARIANT PersistedMeansEnqueued
