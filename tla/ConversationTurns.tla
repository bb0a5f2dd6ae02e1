------------------------- MODULE ConversationTurns --------------------------
(***************************************************************************)
(* What the conversation store promises, without replicas, leases, clocks, *)
(* retries or authorization: turns are accepted, run one at a time in each *)
(* conversation, may be asked to stop, and end once, with nothing left     *)
(* open.                                                                   *)
(***************************************************************************)
CONSTANTS Runs, Conversations, Tools, None

VARIABLES
    phase,   \* of each turn: not accepted, queued, running, or how it ended
    place,   \* the conversation of each turn
    wanted,  \* whether a stop was asked for
    doubt    \* tool calls of the turn that were started and have no outcome

turnVars == <<phase, place, wanted, doubt>>

Outcomes == {"completed", "failed", "cancelled", "interrupted"}

TurnsInit ==
    /\ phase = [r \in Runs |-> "none"]
    /\ place = [r \in Runs |-> None]
    /\ wanted = [r \in Runs |-> FALSE]
    /\ doubt = [r \in Runs |-> {}]

Accept(r, c) ==
    /\ phase[r] = "none"
    /\ phase' = [phase EXCEPT ![r] = "queued"]
    /\ place' = [place EXCEPT ![r] = c]
    /\ UNCHANGED <<wanted, doubt>>

Begin(r) ==
    /\ phase[r] = "queued"
    /\ \A s \in Runs : phase[s] = "running" => place[s] # place[r]
    /\ phase' = [phase EXCEPT ![r] = "running"]
    /\ UNCHANGED <<place, wanted, doubt>>

Ask(r) ==
    /\ phase[r] = "running"
    /\ wanted' = [wanted EXCEPT ![r] = TRUE]
    /\ UNCHANGED <<phase, place, doubt>>

Use(r, t) ==
    /\ phase[r] = "running"
    /\ \E new \in {doubt[r] \cup {t}, doubt[r] \ {t}} : doubt' = [doubt EXCEPT ![r] = new]
    /\ UNCHANGED <<phase, place, wanted>>

(* A turn that was asked to stop ends as cancelled; one that never ran     *)
(* ends as cancelled, by such a request, or as interrupted.                *)
End(r, outcome) ==
    /\ phase[r] \in {"queued", "running"}
    /\ phase[r] = "queued" => outcome \in {"cancelled", "interrupted"}
    /\ wanted[r] => outcome = "cancelled"
    /\ phase' = [phase EXCEPT ![r] = outcome]
    /\ wanted' = [wanted EXCEPT ![r] = @ \/ (phase[r] = "queued" /\ outcome = "cancelled")]
    /\ doubt' = [doubt EXCEPT ![r] = {}]
    /\ UNCHANGED place

TurnsNext ==
    \E r \in Runs :
        \/ \E c \in Conversations : Accept(r, c)
        \/ Begin(r)
        \/ Ask(r)
        \/ \E t \in Tools : Use(r, t)
        \/ \E outcome \in Outcomes : End(r, outcome)

TurnsSpec == TurnsInit /\ [][TurnsNext]_turnVars
=============================================================================
