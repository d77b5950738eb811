----------------------------- MODULE MCPipeline -----------------------------
(* Small instances of Pipeline for TLC: every post is written in one chat.  *)
EXTENDS Pipeline, TLC

CONSTANTS chat

MCTypeOf == [i \in TargetIds |-> "TG_GROUP"]
MCChatOf == [p \in Posts |-> chat]
MCTasks == [post : Posts, target : TargetIds, channel : Channels]

\* Requests are interchangeable.
MCSymmetry == Permutations(Calls)
============================================================================
