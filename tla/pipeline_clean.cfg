\* One post received by two concurrent requests, one target, one channel,
\* two worker slots; the provider may refuse, nothing else fails.
CONSTANTS
  chat = chat
  NoPost = NoPost
  NoTarget = NoTarget
  NoChat = NoChat
  NoTask = NoTask
  Posts = {p1}
  Chats = {chat}
  TargetIds = {m1}
  Channels = {c1}
  Calls = {k1, k2}
  TypeOf <- MCTypeOf
  ChatOf <- MCChatOf
  Tasks <- MCTasks
  Workers = {w1, w2}
  MaxAttempts = 3
  MaxStalled = 1
  Faults = {}
SPECIFICATION PipelineFairSpec
INVARIANTS
  PersistedMeansEnqueued
  NotifiedOnce
  StatusFollowsJob
  NoTaskForgotten
PROPERTIES
  SentIsFinal
  TasksSettle
