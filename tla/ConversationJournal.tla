------------------------ MODULE ConversationJournal -------------------------
(***************************************************************************)
(* The journal as the interface of the store: what a reader reconstructs   *)
(* from the committed events of a run, and nothing else, behaves like the  *)
(* turns of ConversationTurns.                                             *)
(***************************************************************************)
EXTENDS ConversationStore

told(r, kind) == Event(kind) \in committed[r]

(* The latest stage of the run that the journal tells of. *)
journal_phase(r) ==
    IF \E k \in Terminals : told(r, k) THEN CHOOSE k \in Terminals : told(r, k)
    ELSE IF told(r, "started") THEN "running"
    ELSE IF told(r, "submitted") THEN "queued"
    ELSE "none"

Turn == INSTANCE ConversationTurns WITH
    phase <- [r \in Runs |-> journal_phase(r)],
    place <- [r \in Runs |-> runs[r].conv],
    wanted <- [r \in Runs |-> told(r, "cancel_requested")],
    doubt <- [r \in Runs |-> Uncertain(r)]

(* The store implements the abstract turns: whatever the replicas do, the  *)
(* journal of every run tells of an accepted turn that started at most     *)
(* once, never beside another turn of its conversation, obeyed a request   *)
(* to stop, ended once and left no tool call in doubt.                     *)
ImplementsTurns == Turn!TurnsSpec
=============================================================================
