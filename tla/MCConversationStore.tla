----------------------- MODULE MCConversationStore --------------------------
(* Instances of the conversation store for TLC. *)
EXTENDS ConversationJournal, TLC

(* Workers, actors and tool calls are interchangeable: no definition names *)
(* one of them or chooses among them.                                      *)
Interchangeable == Permutations(Workers) \cup Permutations(Actors) \cup Permutations(Tools)
=============================================================================
