\* No failure at all: an administrator deletes a channel while a request
\* routes its message to it and to another one.
CONSTANTS
  chat = chat
  NoPost = NoPost
  NoTarget = NoTarget
  NoChat = NoChat
  Posts = {p1}
  Chats = {chat}
  TargetIds = {m1}
  Channels = {c1, c2}
  Calls = {k1}
  TypeOf <- MCTypeOf
  ChatOf <- MCChatOf
  Tasks <- MCTasks
  Faults = {}
SPECIFICATION IngestSpec
INVARIANT SavedMeansRouted
