------------------------------ MODULE MCIngest ------------------------------
(* Small instances of Ingest for TLC, with the inductive invariant of its   *)
(* proofs: every post is written in one chat, so every call competes for it. *)
EXTENDS IngestProofs, TLC

CONSTANTS chat

MCTypeOf == [i \in TargetIds |-> "TG_GROUP"]
MCChatOf == [p \in Posts |-> chat]
MCTasks == [post : Posts, target : TargetIds, channel : Channels]

\* Requests are interchangeable, and so are channels; target ids of one type
\* are too.
MCSymmetry ==
  Permutations(Calls) \cup Permutations(Channels) \cup Permutations(TargetIds)
============================================================================
