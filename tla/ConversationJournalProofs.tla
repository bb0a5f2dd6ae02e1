--------------------- MODULE ConversationJournalProofs ----------------------
(***************************************************************************)
(* The proof that the journal of the store implements the abstract turns,  *)
(* for every value of the constants.  On top of the invariant IInv of the  *)
(* store it needs to know how the journal and the row of a run are tied    *)
(* together while the run is open (JInv); then the stage that the journal  *)
(* tells of is the state of the row, and each step of the store is a step  *)
(* of the abstract turns or leaves them alone.                             *)
(***************************************************************************)
EXTENDS ConversationStoreProofs, ConversationJournal

(* A run that is accepted was told to be, it has a started event when and  *)
(* only when a claim raised its fence, and no tool call starts before.     *)
JInv ==
    \A r \in Runs :
        /\ Exists(r) => told(r, "submitted")
        /\ told(r, "started") <=> runs[r].fence = 1
        /\ runs[r].state = "running" => runs[r].fence = 1
        /\ runs[r].state = "queued" =>
               \A t \in Tools : ToolEvent("tool_started", t) \notin committed[r]

(* The stage of a run that the journal tells of is the state of its row. *)
LEMMA PhaseIsState ==
    IInv /\ JInv => \A r \in Runs : journal_phase(r) = runs[r].state
<1>. SUFFICES ASSUME IInv, JInv, NEW r \in Runs PROVE journal_phase(r) = runs[r].state
  OBVIOUS
<1>1. /\ {k \in Terminals : told(r, k)} =
             IF is_terminal(runs[r].state) THEN {runs[r].state} ELSE {}
      /\ runs[r].state \in RunState \cup {"none"}
  BY DEF IInv, ProjectionAgrees, TypeOK, RunRows, told
<1>2. CASE is_terminal(runs[r].state)
  <2>1. \A k \in Terminals : told(r, k) <=> k = runs[r].state
    BY <1>1, <1>2
  <2>2. runs[r].state \in Terminals
    BY <1>2 DEF is_terminal, RunState, Terminals
  <2>. QED BY <2>1, <2>2 DEF journal_phase
<1>3. CASE ~is_terminal(runs[r].state)
  <2>1. ~ \E k \in Terminals : told(r, k)
    BY <1>1, <1>3
  <2>2. runs[r].state \in {"none", "queued", "running"}
    BY <1>1, <1>3 DEF is_terminal, RunState
  <2>3. runs[r].state = "none" => ~told(r, "submitted") /\ ~told(r, "started")
    BY DEF IInv, RowsSound, told
  <2>4. runs[r].state = "queued" => told(r, "submitted") /\ ~told(r, "started")
    BY DEF IInv, RowsSound, JInv, Exists
  <2>5. runs[r].state = "running" => told(r, "started")
    BY DEF JInv
  <2>. QED BY <2>1, <2>2, <2>3, <2>4, <2>5 DEF journal_phase
<1>. QED BY <1>2, <1>3

(* In an open or unknown run only a running one has a tool call in doubt. *)
LEMMA DoubtOnlyRunning ==
    ASSUME IInv, JInv, NEW r \in Runs, runs[r].state # "running"
    PROVE  Uncertain(r) = {}
<1>1. CASE runs[r].state = "none"
  BY <1>1 DEF IInv, RowsSound, Uncertain
<1>2. CASE runs[r].state = "queued"
  BY <1>2 DEF JInv, Uncertain
<1>3. CASE is_terminal(runs[r].state)
  BY <1>3 DEF IInv, ToolsSettled, Uncertain
<1>4. runs[r].state \in RunState \cup {"none"}
  BY DEF IInv, TypeOK, RunRows
<1>. QED BY <1>1, <1>2, <1>3, <1>4 DEF is_terminal, RunState

-----------------------------------------------------------------------------
(* The empty store tells of no turn at all. *)
LEMMA InitJInv == Init => JInv
<1>. SUFFICES ASSUME Init, NEW r \in Runs
              PROVE  /\ runs[r].state = "none" /\ runs[r].fence = 0 /\ committed[r] = {}
  BY DEF JInv, Exists, told
<1>. QED BY DEF Init, NoRun

(* What a turn gains when it advances or ends says nothing of its start. *)
LEMMA OpenStepJInv ==
    ASSUME IInv, JInv, NEW r \in Runs, Ends(r) \/ Advances(r),
           told(r, "started")' <=> told(r, "started")
    PROVE  JInv'
<1>1. /\ committed \in [Runs -> SUBSET Events]
      /\ runs'[r].fence = runs[r].fence
      /\ \A s \in Runs \ {r} : runs'[s] = runs[s] /\ committed'[s] = committed[s]
      /\ committed[r] \subseteq committed'[r]
      /\ runs[r].state \in {"queued", "running"}
      /\ runs'[r].state \in {"running"} \cup Terminals
      /\ runs'[r].state = "running" => runs[r].state = "running"
  BY DEF IInv, TypeOK, Ends, Advances, WritesRow, Open, Terminals
<1>. SUFFICES ASSUME NEW s \in Runs
              PROVE  /\ Exists(s)' => told(s, "submitted")'
                     /\ told(s, "started")' <=> runs'[s].fence = 1
                     /\ runs'[s].state = "running" => runs'[s].fence = 1
                     /\ runs'[s].state = "queued" =>
                            \A t \in Tools : ToolEvent("tool_started", t) \notin committed'[s]
  BY DEF JInv
<1>2. CASE s = r
  <2>1. told(r, "submitted") /\ (told(r, "started") <=> runs[r].fence = 1)
        /\ (runs[r].state = "running" => runs[r].fence = 1)
    BY <1>1 DEF JInv, Exists
  <2>2. told(r, "submitted")'
    BY <1>1, <2>1 DEF told
  <2>3. runs'[r].state # "queued"
    BY <1>1 DEF Terminals
  <2>. QED BY <1>1, <1>2, <2>1, <2>2, <2>3
<1>3. CASE s # r
  BY <1>1, <1>3 DEF JInv, Exists, told
<1>. QED BY <1>2, <1>3

(* Accepting a turn ties its new journal to its new row. *)
LEMMA SubmitJInv ==
    ASSUME IInv, JInv, NEW r \in Runs, NEW c \in Conversations, NEW a \in Actors,
           NEW q \in Requests, NEW at \in Times, Submit(r, c, a, q, at)
    PROVE  JInv'
<1>1. /\ runs \in [Runs -> RunRows] /\ committed \in [Runs -> SUBSET Events]
      /\ runs' = [runs EXCEPT ![r] = queued_row(c, a, q, at)]
      /\ committed' = [committed EXCEPT ![r] = {Event("submitted"), Event("queued")}]
  BY DEF IInv, TypeOK, Submit
<1>2. /\ \A s \in Runs \ {r} : runs'[s] = runs[s] /\ committed'[s] = committed[s]
      /\ runs'[r].state = "queued" /\ runs'[r].fence = 0
      /\ committed'[r] = {Event("submitted"), Event("queued")}
  BY <1>1 DEF queued_row
<1>3. /\ told(r, "submitted")' /\ ~told(r, "started")'
      /\ \A t \in Tools : ToolEvent("tool_started", t) \notin committed'[r]
  <2>1. /\ Event("started") # Event("submitted") /\ Event("started") # Event("queued")
        /\ \A t \in Tools : /\ ToolEvent("tool_started", t) # Event("submitted")
                            /\ ToolEvent("tool_started", t) # Event("queued")
    BY EventsDiffer
  <2>. QED BY <1>2, <2>1 DEF told
<1>4. \A s \in Runs \ {r} :
          /\ Exists(s)' => told(s, "submitted")'
          /\ told(s, "started")' <=> runs'[s].fence = 1
          /\ runs'[s].state = "running" => runs'[s].fence = 1
          /\ runs'[s].state = "queued" =>
                 \A t \in Tools : ToolEvent("tool_started", t) \notin committed'[s]
  BY <1>2 DEF JInv, Exists, told
<1>. QED BY <1>2, <1>3, <1>4 DEF JInv

(* A claim raises the fence and writes the started event together. *)
LEMMA ClaimJInv ==
    ASSUME IInv, JInv, NEW r \in Runs, NEW w \in Workers, NEW now \in Times, Claim(r, w, now)
    PROVE  /\ JInv'
           /\ runs[r].state = "queued" /\ runs'[r].state = "running"
           /\ SameTurn(runs'[r], runs[r])
           /\ \A s \in Runs \ {r} : runs'[s] = runs[s] /\ committed'[s] = committed[s]
           /\ committed'[r] = committed[r] \cup {Event("started")}
<1>. DEFINE next == plan_claim(runs[r], w, now, TTL)
<1>1. /\ runs \in [Runs -> RunRows] /\ committed \in [Runs -> SUBSET Events]
      /\ runs' = [runs EXCEPT ![r] = next]
      /\ committed' = [committed EXCEPT ![r] = @ \cup {Event("started")}]
      /\ runs[r].state = "queued" /\ runs[r].fence = 0
  BY DEF IInv, TypeOK, Claim, claimable, RowsSound
<1>2. next.state = "running" /\ next.fence = 1 /\ SameTurn(next, runs[r])
  <2>1. runs[r] \in RunRows /\ now \in Int
    BY <1>1, StoreAssumption
  <2>2. next.state = "running" /\ next.fence = runs[r].fence + 1 /\ SameTurn(next, runs[r])
    BY <2>1, ClaimedRow
  <2>. HIDE DEF next
  <2>. QED BY <1>1, <2>2
<1>. HIDE DEF next
<1>3. /\ \A s \in Runs \ {r} : runs'[s] = runs[s] /\ committed'[s] = committed[s]
      /\ runs'[r] = next /\ committed'[r] = committed[r] \cup {Event("started")}
  BY <1>1
<1>4. told(r, "submitted")' /\ told(r, "started")'
  BY <1>1, <1>3 DEF JInv, Exists, told
<1>5. \A s \in Runs \ {r} :
          /\ Exists(s)' => told(s, "submitted")'
          /\ told(s, "started")' <=> runs'[s].fence = 1
          /\ runs'[s].state = "running" => runs'[s].fence = 1
          /\ runs'[s].state = "queued" =>
                 \A t \in Tools : ToolEvent("tool_started", t) \notin committed'[s]
  BY <1>3 DEF JInv, Exists, told
<1>6. JInv'
  BY <1>2, <1>3, <1>4, <1>5 DEF JInv
<1>. QED BY <1>1, <1>2, <1>3, <1>6

(* The end of a turn adds a terminal event, Unknown for the calls in doubt *)
(* and, when it ends a queued turn, perhaps the request to stop.           *)
LEMMA EndsTells ==
    ASSUME IInv, JInv, NEW r \in Runs, Ends(r)
    PROVE  /\ told(r, "started")' <=> told(r, "started")
           /\ told(r, "cancel_requested") => told(r, "cancel_requested")'
           /\ told(r, "cancel_requested")' => runs'[r].state = "cancelled"
           /\ Uncertain(r)' = {}
           /\ \A s \in Runs \ {r} : runs'[s] = runs[s] /\ committed'[s] = committed[s]
<1>1. PICK extra \in SUBSET {Event("cancel_requested")} :
          committed' = [committed EXCEPT ![r] =
              @ \cup extra
                \cup {ToolEvent("tool_unknown", t) : t \in Uncertain(r)}
                \cup {Event(runs'[r].state)}]
  BY DEF Ends
<1>2. /\ committed \in [Runs -> SUBSET Events] /\ runs'[r].state \in Terminals
      /\ \A s \in Runs \ {r} : runs'[s] = runs[s] /\ committed'[s] = committed[s]
      /\ told(r, "cancel_requested")' => runs'[r].state = "cancelled"
  BY <1>1 DEF IInv, TypeOK, Ends, WritesRow, told
<1>3. committed'[r] = committed[r] \cup extra
                      \cup {ToolEvent("tool_unknown", t) : t \in Uncertain(r)}
                      \cup {Event(runs'[r].state)}
  BY <1>1, <1>2
<1>4. told(r, "started")' <=> told(r, "started")
  <2>1. /\ Event("started") # Event("cancel_requested")
        /\ \A t \in Uncertain(r) : ToolEvent("tool_unknown", t) # Event("started")
        /\ Event("started") # Event(runs'[r].state)
    BY <1>2, EventsDiffer DEF Uncertain, Terminals
  <2>. QED BY <1>3, <2>1 DEF told
<1>5. told(r, "cancel_requested") => told(r, "cancel_requested")'
  BY <1>3 DEF told
<1>6. Uncertain(r)' = {}
  <2>. SUFFICES ASSUME NEW t \in Tools,
                       ToolEvent("tool_started", t) \in committed'[r],
                       ToolEvent("tool_outcome", t) \notin committed'[r],
                       ToolEvent("tool_unknown", t) \notin committed'[r]
                PROVE  FALSE
    BY DEF Uncertain
  <2>1. /\ ToolEvent("tool_started", t) # Event("cancel_requested")
        /\ ToolEvent("tool_started", t) # Event(runs'[r].state)
        /\ \A u \in Uncertain(r) : ToolEvent("tool_unknown", u) # ToolEvent("tool_started", t)
    BY EventsDiffer DEF Uncertain
  <2>2. t \in Uncertain(r)
    BY <1>3, <2>1 DEF Uncertain
  <2>. QED BY <1>3, <2>2
<1>. QED BY <1>2, <1>4, <1>5, <1>6

-----------------------------------------------------------------------------
(* What the journal says of a run before and after a step. *)
Phases == \A r \in Runs : journal_phase(r) = runs[r].state

(* The end of a turn is an end of the abstract turn. *)
LEMMA EndsTurn ==
    ASSUME IInv, JInv, Phases, Phases', NEW r \in Runs, Ends(r),
           runs[r].state = "queued" => runs'[r].state \in {"cancelled", "interrupted"},
           told(r, "cancel_requested")' <=>
               \/ told(r, "cancel_requested")
               \/ runs[r].state = "queued" /\ runs'[r].state = "cancelled"
    PROVE  Turn!End(r, runs'[r].state) /\ runs'[r].state \in Turn!Outcomes
<1>1. /\ told(r, "cancel_requested") => runs'[r].state = "cancelled"
      /\ Uncertain(r)' = {}
      /\ \A s \in Runs \ {r} : runs'[s] = runs[s] /\ committed'[s] = committed[s]
  BY EndsTells
<1>2. /\ runs[r].state \in {"queued", "running"} /\ SameTurn(runs'[r], runs[r])
      /\ runs'[r].state \in Turn!Outcomes
  BY DEF Ends, Open, WritesRow, Terminals, Turn!Outcomes
<1>3. \A s \in Runs \ {r} : /\ told(s, "cancel_requested")' <=> told(s, "cancel_requested")
                            /\ Uncertain(s)' = Uncertain(s)
  BY <1>1 DEF told, Uncertain
<1>4. [s \in Runs |-> journal_phase(s)]' =
          [[s \in Runs |-> journal_phase(s)] EXCEPT ![r] = runs'[r].state]
  BY <1>1 DEF Phases
<1>5. [s \in Runs |-> told(s, "cancel_requested")]' =
          [[s \in Runs |-> told(s, "cancel_requested")] EXCEPT
              ![r] = @ \/ (journal_phase(r) = "queued" /\ runs'[r].state = "cancelled")]
  <2>1. told(r, "cancel_requested")' =
            (told(r, "cancel_requested")
             \/ (journal_phase(r) = "queued" /\ runs'[r].state = "cancelled"))
    BY DEF Phases, told
  <2>2. \A s \in Runs \ {r} : told(s, "cancel_requested")' = told(s, "cancel_requested")
    BY <1>3 DEF told
  <2>. QED BY <2>1, <2>2
<1>6. [s \in Runs |-> Uncertain(s)]' = [[s \in Runs |-> Uncertain(s)] EXCEPT ![r] = {}]
  BY <1>1, <1>3
<1>7. [s \in Runs |-> runs[s].conv]' = [s \in Runs |-> runs[s].conv]
  BY <1>1, <1>2 DEF SameTurn
<1>8. journal_phase(r) = runs[r].state
  BY DEF Phases
<1>. QED BY <1>1, <1>2, <1>4, <1>5, <1>6, <1>7, <1>8 DEF Turn!End

(* An end that was not asked for in the same step tells of no request. *)
LEMMA QuietEnd ==
    ASSUME IInv, NEW r \in Runs, NEW next, next.state \in Terminals,
           write_terminal(r, next, {})
    PROVE  told(r, "cancel_requested")' <=> told(r, "cancel_requested")
<1>1. committed \in [Runs -> SUBSET Events]
  BY DEF IInv, TypeOK
<1>2. committed'[r] = committed[r] \cup {}
                      \cup {ToolEvent("tool_unknown", t) : t \in Uncertain(r)}
                      \cup {Event(next.state)}
  BY <1>1 DEF write_terminal
<1>3. /\ \A t \in Uncertain(r) : ToolEvent("tool_unknown", t) # Event("cancel_requested")
      /\ Event("cancel_requested") # Event(next.state)
  BY EventsDiffer DEF Uncertain, Terminals
<1>. QED BY <1>2, <1>3 DEF told

(* The owner's finish ends the abstract turn. *)
LEMMA FinishTurn ==
    ASSUME IInv, JInv, Phases, Phases', NEW lease \in granted, NEW now \in Times,
           NEW state \in Finalizable, Finish(lease, now, state)
    PROVE  lease.run \in Runs /\ Ends(lease.run) /\ Turn!TurnsNext
<1>. DEFINE r == lease.run
            next == plan_finalize(runs[r], state)
<1>1. r \in Runs /\ Ends(r)
  BY FinishEnds
<1>2. runs[r].state = "running" /\ write_terminal(r, next, {}) /\ runs \in [Runs -> RunRows]
  BY DEF Finish, owned, validate_ownership, IInv, TypeOK
<1>. HIDE DEF r, next
<1>3. runs'[r] = next /\ runs'[r].state \in Terminals
  BY <1>1, <1>2 DEF write_terminal, Ends
<1>4. told(r, "cancel_requested")' <=> told(r, "cancel_requested")
  BY <1>1, <1>2, <1>3, QuietEnd
<1>5. Turn!End(r, runs'[r].state) /\ runs'[r].state \in Turn!Outcomes
  BY <1>1, <1>2, <1>4, EndsTurn
<1>. QED BY <1>1, <1>5 DEF Turn!TurnsNext, r

(* A recovery ends the abstract turn, a queued one as interrupted. *)
LEMMA ExpireTurn ==
    ASSUME IInv, JInv, Phases, Phases', NEW r \in Runs, NEW now \in Times, Expire(r, now)
    PROVE  Ends(r) /\ Turn!TurnsNext
<1>1. Ends(r) /\ runs \in [Runs -> RunRows]
  BY ExpireEnds DEF IInv, TypeOK
<1>2. PICK next \in {plan_interrupt_queued(runs[r]), plan_expire(runs[r])} :
          /\ write_terminal(r, next, {})
          /\ runs[r].state = "queued" => next = plan_interrupt_queued(runs[r])
  BY DEF Expire, expired
<1>3. runs'[r] = next /\ runs'[r].state \in Terminals
  BY <1>1, <1>2 DEF write_terminal, Ends
<1>4. told(r, "cancel_requested")' <=> told(r, "cancel_requested")
  BY <1>2, <1>3, QuietEnd
<1>5. runs[r].state = "queued" => runs'[r].state = "interrupted"
  <2>. SUFFICES ASSUME runs[r].state = "queued" PROVE next.state = "interrupted"
    BY <1>3
  <2>1. runs[r] \in RunRows /\ "interrupted" \in RunState
    BY <1>1 DEF RunState
  <2>2. terminal(runs[r], "interrupted").state = "interrupted"
    BY <2>1, TerminalRow
  <2>. QED BY <1>2, <2>2 DEF plan_interrupt_queued
<1>6. Turn!End(r, runs'[r].state) /\ runs'[r].state \in Turn!Outcomes
  BY <1>1, <1>4, <1>5, EndsTurn
<1>. QED BY <1>1, <1>6 DEF Turn!TurnsNext

(* A cancel request ends a queued abstract turn and asks a running one. *)
LEMMA CancelTurn ==
    ASSUME IInv, JInv, Phases, Phases', NEW r \in Runs, Cancel(r)
    PROVE  Turn!TurnsNext
<1>. DEFINE next == plan_cancel(runs[r])
            asked == Event("cancel_requested")
<1>1. /\ runs \in [Runs -> RunRows] /\ committed \in [Runs -> SUBSET Events]
      /\ runs[r].state \in {"queued", "running"}
  BY DEF IInv, TypeOK, Cancel, cancel_changes
<1>2. /\ next.state = IF runs[r].state = "queued" THEN "cancelled" ELSE runs[r].state
      /\ SameTurn(next, runs[r])
  BY <1>1, CancelledRow
<1>3. IF is_terminal(next.state)
      THEN write_terminal(r, next, {asked})
      ELSE /\ runs' = [runs EXCEPT ![r] = next]
           /\ committed' = [committed EXCEPT ![r] = @ \cup {asked}]
  BY DEF Cancel
<1>. HIDE DEF next
<1>4. told(r, "cancel_requested")' /\ runs'[r] = next
  BY <1>1, <1>3 DEF told, write_terminal
<1>5. CASE runs[r].state = "queued"
  <2>1. Ends(r)
    BY <1>5, CancelSteps DEF Advances
  <2>2. Turn!End(r, runs'[r].state) /\ runs'[r].state \in Turn!Outcomes
    BY <1>2, <1>4, <1>5, <2>1, EndsTurn
  <2>. QED BY <2>2 DEF Turn!TurnsNext
<1>6. CASE runs[r].state = "running"
  <2>1. /\ runs' = [runs EXCEPT ![r] = next]
        /\ committed' = [committed EXCEPT ![r] = @ \cup {asked}]
    BY <1>2, <1>3, <1>6 DEF is_terminal
  <2>2. /\ \A s \in Runs : runs'[s].state = runs[s].state /\ runs'[s].conv = runs[s].conv
        /\ \A s \in Runs \ {r} : committed'[s] = committed[s]
        /\ committed'[r] = committed[r] \cup {asked}
    BY <1>1, <1>2, <1>6, <2>1 DEF SameTurn
  <2>3. \A s \in Runs : Uncertain(s)' = Uncertain(s)
    <3>1. \A j \in ToolKinds, t \in Tools : ToolEvent(j, t) # asked
      BY EventsDiffer
    <3>. HIDE DEF asked
    <3>2. \A s \in Runs, j \in ToolKinds, t \in Tools :
              ToolEvent(j, t) \in committed'[s] <=> ToolEvent(j, t) \in committed[s]
      BY <2>2, <3>1
    <3>. QED BY <3>2 DEF Uncertain, ToolKinds
  <2>4. [s \in Runs |-> told(s, "cancel_requested")]' =
            [[s \in Runs |-> told(s, "cancel_requested")] EXCEPT ![r] = TRUE]
    <3>1. told(r, "cancel_requested")' = TRUE
      BY <1>4 DEF told
    <3>2. \A s \in Runs \ {r} : told(s, "cancel_requested")' = told(s, "cancel_requested")
      BY <2>2 DEF told
    <3>. QED BY <3>1, <3>2
  <2>5. /\ [s \in Runs |-> journal_phase(s)]' = [s \in Runs |-> journal_phase(s)]
        /\ [s \in Runs |-> runs[s].conv]' = [s \in Runs |-> runs[s].conv]
        /\ [s \in Runs |-> Uncertain(s)]' = [s \in Runs |-> Uncertain(s)]
        /\ journal_phase(r) = "running"
    BY <1>6, <2>2, <2>3 DEF Phases
  <2>6. Turn!Ask(r)
    BY <2>4, <2>5 DEF Turn!Ask
  <2>. QED BY <2>6 DEF Turn!TurnsNext
<1>. QED BY <1>1, <1>5, <1>6

(* An event of the executor starts or settles a tool call, or tells of     *)
(* nothing that the abstract turn has.                                     *)
LEMMA EventTurn ==
    ASSUME IInv, JInv, Phases, Phases', NEW lease \in granted, NEW now \in Times,
           NEW e \in ExecutionEvents, FencedEvent(lease, now, e)
    PROVE  /\ \A k \in {"started", "cancel_requested"}, s \in Runs : told(s, k)' <=> told(s, k)
           /\ Turn!TurnsNext \/ UNCHANGED Turn!turnVars
<1>. DEFINE r == lease.run
<1>1. /\ r \in Runs /\ runs[r].state = "running"
      /\ committed \in [Runs -> SUBSET Events]
      /\ runs' = runs /\ committed' = [committed EXCEPT ![r] = @ \cup {e}]
  BY DEF FencedEvent, owned, validate_ownership, IInv, TypeOK, Leases
<1>. HIDE DEF r
<1>2. /\ \A s \in Runs \ {r} : committed'[s] = committed[s]
      /\ committed'[r] = committed[r] \cup {e}
  BY <1>1
<1>3. \/ e = Event("record")
      \/ \E j \in {"tool_started", "tool_outcome"}, t \in Tools : e = ToolEvent(j, t)
  BY DEF ExecutionEvents, ToolEvent
<1>4. \A k \in {"started", "cancel_requested"}, s \in Runs : told(s, k)' <=> told(s, k)
  <2>1. \A k \in {"started", "cancel_requested"} : e # Event(k)
    BY <1>3, EventsDiffer
  <2>. QED BY <1>2, <2>1 DEF told
<1>5. /\ [s \in Runs |-> journal_phase(s)]' = [s \in Runs |-> journal_phase(s)]
      /\ [s \in Runs |-> runs[s].conv]' = [s \in Runs |-> runs[s].conv]
      /\ journal_phase(r) = "running"
  BY <1>1 DEF Phases
<1>6. [s \in Runs |-> told(s, "cancel_requested")]' = [s \in Runs |-> told(s, "cancel_requested")]
  <2>1. \A s \in Runs : told(s, "cancel_requested")' = told(s, "cancel_requested")
    BY <1>4 DEF told
  <2>. QED BY <2>1
<1>7. \A s \in Runs \ {r} : Uncertain(s)' = Uncertain(s)
  BY <1>2 DEF Uncertain
<1>8. CASE e = Event("record")
  <2>1. \A j \in ToolKinds, t \in Tools :
            ToolEvent(j, t) \in committed'[r] <=> ToolEvent(j, t) \in committed[r]
    BY <1>2, <1>8, EventsDiffer
  <2>2. Uncertain(r)' = Uncertain(r)
    BY <2>1 DEF Uncertain, ToolKinds
  <2>3. [s \in Runs |-> Uncertain(s)]' = [s \in Runs |-> Uncertain(s)]
    BY <1>7, <2>2
  <2>. QED BY <1>4, <1>5, <1>6, <2>3 DEF Turn!turnVars
<1>9. ASSUME NEW j \in {"tool_started", "tool_outcome"}, NEW t \in Tools, e = ToolEvent(j, t)
      PROVE  Turn!Use(r, t)
  <2>1. \A i \in ToolKinds, u \in Tools :
            ToolEvent(i, u) \in committed'[r] <=>
                ToolEvent(i, u) \in committed[r] \/ (i = j /\ u = t)
    <3>. SUFFICES ASSUME NEW i \in ToolKinds, NEW u \in Tools
                  PROVE  ToolEvent(i, u) \in committed'[r] <=>
                             ToolEvent(i, u) \in committed[r] \/ (i = j /\ u = t)
      OBVIOUS
    <3>1. ToolEvent(i, u) = ToolEvent(j, t) <=> i = j /\ u = t
      BY DEF ToolEvent
    <3>. QED BY <1>2, <1>9, <3>1
  <2>2. Uncertain(r)' \in {Uncertain(r) \cup {t}, Uncertain(r) \ {t}}
    <3>1. CASE j = "tool_outcome"
      BY <2>1, <3>1 DEF Uncertain, ToolKinds
    <3>2. CASE j = "tool_started" /\ \/ ToolEvent("tool_outcome", t) \in committed[r]
                                     \/ ToolEvent("tool_unknown", t) \in committed[r]
      BY <2>1, <3>2 DEF Uncertain, ToolKinds
    <3>3. CASE j = "tool_started" /\ ToolEvent("tool_outcome", t) \notin committed[r]
                                  /\ ToolEvent("tool_unknown", t) \notin committed[r]
      BY <2>1, <3>3 DEF Uncertain, ToolKinds
    <3>. QED BY <3>1, <3>2, <3>3
  <2>3. [s \in Runs |-> Uncertain(s)]' =
            [[s \in Runs |-> Uncertain(s)] EXCEPT ![r] = Uncertain(r)']
    BY <1>7
  <2>4. [s \in Runs |-> Uncertain(s)][r] = Uncertain(r)
    BY <1>1
  <2>. QED BY <1>1, <1>5, <1>6, <2>2, <2>3, <2>4 DEF Turn!Use
<1>. QED BY <1>1, <1>3, <1>4, <1>8, <1>9 DEF Turn!TurnsNext

(* Accepting a run accepts an abstract turn. *)
LEMMA SubmitTurn ==
    ASSUME IInv, JInv, Phases, Phases', JInv', IInv', NEW r \in Runs,
           NEW c \in Conversations, NEW a \in Actors,
           NEW q \in Requests, NEW at \in Times, Submit(r, c, a, q, at)
    PROVE  Turn!TurnsNext
<1>1. /\ runs \in [Runs -> RunRows] /\ committed \in [Runs -> SUBSET Events]
      /\ runs' = [runs EXCEPT ![r] = queued_row(c, a, q, at)]
      /\ committed' = [committed EXCEPT ![r] = {Event("submitted"), Event("queued")}]
      /\ runs[r].state = "none"
  BY DEF IInv, TypeOK, Submit, Exists
<1>2. /\ \A s \in Runs \ {r} : runs'[s] = runs[s] /\ committed'[s] = committed[s]
      /\ runs'[r].state = "queued" /\ runs'[r].conv = c
      /\ committed'[r] = {Event("submitted"), Event("queued")}
      /\ committed[r] = {}
  BY <1>1 DEF queued_row, IInv, RowsSound
<1>3. [s \in Runs |-> journal_phase(s)]' =
          [[s \in Runs |-> journal_phase(s)] EXCEPT ![r] = "queued"]
      /\ journal_phase(r) = "none"
  BY <1>1, <1>2 DEF Phases
<1>4. [s \in Runs |-> runs[s].conv]' = [[s \in Runs |-> runs[s].conv] EXCEPT ![r] = c]
  BY <1>1, <1>2
<1>5. [s \in Runs |-> told(s, "cancel_requested")]' = [s \in Runs |-> told(s, "cancel_requested")]
  <2>1. ~told(r, "cancel_requested") /\ ~told(r, "cancel_requested")'
    BY <1>2, EventsDiffer DEF told
  <2>2. \A s \in Runs : told(s, "cancel_requested")' = told(s, "cancel_requested")
    BY <1>2, <2>1 DEF told
  <2>. QED BY <2>2
<1>6. [s \in Runs |-> Uncertain(s)]' = [s \in Runs |-> Uncertain(s)]
  <2>1. \A s \in Runs \ {r} : Uncertain(s)' = Uncertain(s)
    BY <1>2 DEF Uncertain
  <2>2. Uncertain(r)' = {} /\ Uncertain(r) = {}
    <3>1. Uncertain(r) = {}
      BY <1>1, DoubtOnlyRunning
    <3>2. \A t \in Tools : ToolEvent("tool_started", t) \notin committed'[r]
      BY <1>2, EventsDiffer
    <3>. QED BY <3>1, <3>2 DEF Uncertain
  <2>. QED BY <2>1, <2>2
<1>7. Turn!Accept(r, c)
  BY <1>3, <1>4, <1>5, <1>6 DEF Turn!Accept
<1>. QED BY <1>7 DEF Turn!TurnsNext

(* A claim begins an abstract turn: no other one of its conversation runs. *)
LEMMA ClaimTurn ==
    ASSUME IInv, JInv, Phases, Phases', NEW r \in Runs, NEW w \in Workers,
           NEW now \in Times, Claim(r, w, now)
    PROVE  Turn!TurnsNext
<1>1. /\ runs[r].state = "queued" /\ runs'[r].state = "running"
      /\ SameTurn(runs'[r], runs[r])
      /\ \A s \in Runs \ {r} : runs'[s] = runs[s] /\ committed'[s] = committed[s]
      /\ committed'[r] = committed[r] \cup {Event("started")}
  BY ClaimJInv
<1>2. \A s \in Runs : runs[s].state = "running" => runs[s].conv # runs[r].conv
  BY DEF Claim, conversation_active, Turns, Exists
<1>3. /\ [s \in Runs |-> journal_phase(s)]' =
             [[s \in Runs |-> journal_phase(s)] EXCEPT ![r] = "running"]
      /\ \A s \in Runs : journal_phase(s) = runs[s].state
  BY <1>1 DEF Phases
<1>4. [s \in Runs |-> runs[s].conv]' = [s \in Runs |-> runs[s].conv]
  BY <1>1 DEF SameTurn
<1>5. [s \in Runs |-> told(s, "cancel_requested")]' = [s \in Runs |-> told(s, "cancel_requested")]
  <2>1. Event("started") # Event("cancel_requested")
    BY EventsDiffer
  <2>2. \A s \in Runs : told(s, "cancel_requested")' = told(s, "cancel_requested")
    BY <1>1, <2>1 DEF told
  <2>. QED BY <2>2
<1>6. [s \in Runs |-> Uncertain(s)]' = [s \in Runs |-> Uncertain(s)]
  <2>1. \A s \in Runs, j \in ToolKinds, t \in Tools :
            ToolEvent(j, t) \in committed'[s] <=> ToolEvent(j, t) \in committed[s]
    BY <1>1, EventsDiffer
  <2>2. \A s \in Runs : Uncertain(s)' = Uncertain(s)
    BY <2>1 DEF Uncertain, ToolKinds
  <2>. QED BY <2>2
<1>7. Turn!Begin(r)
  BY <1>1, <1>2, <1>3, <1>4, <1>5, <1>6 DEF Turn!Begin
<1>. QED BY <1>7 DEF Turn!TurnsNext

(* A step that writes neither a journal nor a row changes no abstract turn; *)
(* a heartbeat writes only the expiry of a lease.                           *)
LEMMA QuietTurn ==
    ASSUME Phases, Phases', UNCHANGED committed,
           \A s \in Runs : runs'[s].state = runs[s].state /\ SameTurn(runs'[s], runs[s])
    PROVE  UNCHANGED Turn!turnVars
<1>1. \A s \in Runs : /\ journal_phase(s)' = journal_phase(s)
                      /\ runs'[s].conv = runs[s].conv
                      /\ Uncertain(s)' = Uncertain(s)
  BY DEF Phases, SameTurn, Uncertain
<1>2. \A s \in Runs : told(s, "cancel_requested")' = told(s, "cancel_requested")
  BY DEF told
<1>. QED BY <1>1, <1>2 DEF Turn!turnVars

-----------------------------------------------------------------------------
(* Every step of the store keeps the journal tied to the rows. *)
LEMMA NextJInv == IInv /\ JInv /\ [Next]_vars => JInv'
<1>. SUFFICES ASSUME IInv, JInv, [Next]_vars PROVE JInv'
  OBVIOUS
<1>1. ASSUME NEW r \in Runs, Ends(r)
      PROVE  JInv'
  BY <1>1, EndsTells, OpenStepJInv
<1>2. ASSUME NEW r \in Runs, Cancel(r)
      PROVE  JInv'
  <2>1. CASE Ends(r)
    BY <1>1, <2>1
  <2>2. CASE Advances(r)
    <3>1. runs[r].state = "running" /\ committed \in [Runs -> SUBSET Events]
      BY <2>2 DEF Advances, IInv, TypeOK
    <3>2. /\ committed' = [committed EXCEPT ![r] = @ \cup {Event("cancel_requested")}]
      BY <1>2, <2>2, <3>1 DEF Cancel, plan_cancel, is_terminal, Advances, write_terminal
    <3>3. Event("started") # Event("cancel_requested")
      BY EventsDiffer
    <3>4. told(r, "started")' <=> told(r, "started")
      BY <3>1, <3>2, <3>3 DEF told
    <3>. QED BY <2>2, <3>4, OpenStepJInv
  <2>. QED BY <1>2, <2>1, <2>2, CancelSteps
<1>3. ASSUME NEW lease \in granted, NEW now \in Times, Heartbeat(lease, now)
      PROVE  JInv'
  <2>1. lease.run \in Runs /\ Advances(lease.run)
    BY <1>3, OwnerAdvances
  <2>2. told(lease.run, "started")' <=> told(lease.run, "started")
    BY <1>3 DEF Heartbeat, told
  <2>. QED BY <2>1, <2>2, OpenStepJInv
<1>4. ASSUME NEW lease \in granted, NEW now \in Times, NEW e \in ExecutionEvents,
             FencedEvent(lease, now, e)
      PROVE  JInv'
  <2>1. lease.run \in Runs /\ Advances(lease.run)
    BY <1>4, OwnerAdvances
  <2>2. e # Event("started")
    <3>1. \/ e = Event("record")
          \/ \E j \in {"tool_started", "tool_outcome"}, t \in Tools : e = ToolEvent(j, t)
      BY DEF ExecutionEvents, ToolEvent
    <3>. QED BY <3>1, EventsDiffer
  <2>3. told(lease.run, "started")' <=> told(lease.run, "started")
    BY <1>4, <2>1, <2>2 DEF FencedEvent, told, IInv, TypeOK
  <2>. QED BY <2>1, <2>3, OpenStepJInv
<1>5. ASSUME NEW lease \in granted, NEW now \in Times, NEW state \in Finalizable,
             Finish(lease, now, state)
      PROVE  JInv'
  BY <1>1, <1>5, FinishEnds
<1>6. ASSUME NEW r \in Runs, NEW now \in Times, Expire(r, now)
      PROVE  JInv'
  BY <1>1, <1>6, ExpireEnds
<1>7. ASSUME UNCHANGED <<runs, committed>>
      PROVE  JInv'
  BY <1>7 DEF JInv, Exists, told
<1>8. ASSUME \/ \E c \in Conversations, a \in Actors, q \in Requests : Resubmit(c, a, q)
             \/ \E a \in Actors, c \in Conversations : Revoke(a, c) \/ Restore(a, c)
             \/ UNCHANGED vars
      PROVE  UNCHANGED <<runs, committed>>
  BY <1>8 DEF Resubmit, Revoke, Restore, vars
<1>. QED BY <1>2, <1>3, <1>4, <1>5, <1>6, <1>7, <1>8, SubmitJInv, ClaimJInv DEF Next

(* Every step of the store is a step of the abstract turns or leaves them  *)
(* alone.                                                                  *)
LEMMA NextTurn ==
    ASSUME IInv, JInv, IInv', JInv', Phases, Phases', [Next]_vars
    PROVE  Turn!TurnsNext \/ UNCHANGED Turn!turnVars
<1>1. ASSUME NEW lease \in granted, NEW now \in Times, Heartbeat(lease, now)
      PROVE  UNCHANGED Turn!turnVars
  <2>1. lease.run \in Runs /\ Advances(lease.run)
    BY <1>1, OwnerAdvances
  <2>2. \A s \in Runs : runs'[s].state = runs[s].state /\ SameTurn(runs'[s], runs[s])
    BY <2>1 DEF Advances, WritesRow, SameTurn
  <2>3. UNCHANGED committed
    BY <1>1 DEF Heartbeat
  <2>. QED BY <2>2, <2>3, QuietTurn
<1>2. ASSUME \/ \E c \in Conversations, a \in Actors, q \in Requests : Resubmit(c, a, q)
             \/ \E a \in Actors, c \in Conversations : Revoke(a, c) \/ Restore(a, c)
             \/ UNCHANGED vars
      PROVE  UNCHANGED Turn!turnVars
  <2>1. UNCHANGED <<runs, committed>>
    BY <1>2 DEF Resubmit, Revoke, Restore, vars
  <2>2. \A s \in Runs : runs'[s].state = runs[s].state /\ SameTurn(runs'[s], runs[s])
    BY <2>1 DEF SameTurn
  <2>. QED BY <2>1, <2>2, QuietTurn
<1>3. ASSUME NEW r \in Runs, NEW c \in Conversations, NEW a \in Actors, NEW q \in Requests,
             NEW at \in Times, Submit(r, c, a, q, at)
      PROVE  Turn!TurnsNext
  BY <1>3, SubmitTurn
<1>4. ASSUME NEW r \in Runs, NEW w \in Workers, NEW now \in Times, Claim(r, w, now)
      PROVE  Turn!TurnsNext
  BY <1>4, ClaimTurn
<1>5. ASSUME NEW lease \in granted, NEW now \in Times, NEW e \in ExecutionEvents,
             FencedEvent(lease, now, e)
      PROVE  Turn!TurnsNext \/ UNCHANGED Turn!turnVars
  BY <1>5, EventTurn
<1>6. ASSUME NEW lease \in granted, NEW now \in Times, NEW state \in Finalizable,
             Finish(lease, now, state)
      PROVE  Turn!TurnsNext
  BY <1>6, FinishTurn
<1>7. ASSUME NEW r \in Runs, Cancel(r) \/ \E now \in Times : Expire(r, now)
      PROVE  Turn!TurnsNext
  BY <1>7, CancelTurn, ExpireTurn
<1>. QED BY <1>1, <1>2, <1>3, <1>4, <1>5, <1>6, <1>7 DEF Next

(* The journal of the store implements the abstract turns. *)
THEOREM JournalImplementsTurns == Spec => ImplementsTurns
<1>1. Init => Turn!TurnsInit
  <2>. SUFFICES ASSUME Init PROVE Turn!TurnsInit
    OBVIOUS
  <2>1. \A r \in Runs : runs[r].state = "none" /\ runs[r].conv = None /\ committed[r] = {}
    BY DEF Init, NoRun
  <2>2. \A r \in Runs : journal_phase(r) = "none" /\ Uncertain(r) = {}
    BY <2>1 DEF journal_phase, told, Uncertain
  <2>3. \A r \in Runs : told(r, "cancel_requested") = FALSE
    BY <2>1 DEF told
  <2>. QED BY <2>1, <2>2, <2>3 DEF Turn!TurnsInit
<1>2. IInv /\ JInv => Phases
  BY PhaseIsState DEF Phases
<1>3. IInv /\ JInv /\ IInv' /\ JInv' /\ Phases /\ Phases' /\ [Next]_vars
          => [Turn!TurnsNext]_Turn!turnVars
  BY NextTurn
<1>4. Spec => [](IInv /\ JInv)
  BY InitIInv, NextIInv, InitJInv, NextJInv, PTL DEF Spec
<1>. QED BY <1>1, <1>2, <1>3, <1>4, PTL DEF Spec, ImplementsTurns, Turn!TurnsSpec
=============================================================================
