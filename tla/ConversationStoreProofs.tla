---------------------- MODULE ConversationStoreProofs -----------------------
(***************************************************************************)
(* Proofs about the conversation store, for every set of runs, actors,     *)
(* requests, workers and tool calls, every lease length and every reading  *)
(* of the replicas' clocks.                                                *)
(*                                                                         *)
(* The argument has three layers.  The lemmas about the lifecycle policy   *)
(* and about the vocabulary of events come first.  Then each action is     *)
(* reduced to what it does to one row: four actions end a turn and share   *)
(* the lemma Ending.  The inductive invariant is proved over that view.    *)
(***************************************************************************)
EXTENDS ConversationStore, TLAPS

-----------------------------------------------------------------------------
(* Events of different kinds, or of different tool calls, are different. *)
LEMMA EventsDiffer ==
    ASSUME NEW j, NEW k
    PROVE  /\ Event(j) = Event(k) <=> j = k
           /\ \A t \in Tools : ToolEvent(j, t) # Event(k)
           /\ \A t, u \in Tools : ToolEvent(j, t) = ToolEvent(k, u) <=> j = k /\ t = u
<1>1. Event(j) = Event(k) <=> j = k
  BY DEF Event
<1>2. \A t \in Tools : ToolEvent(j, t) # Event(k)
  <2>. SUFFICES ASSUME NEW t \in Tools, ToolEvent(j, t) = Event(k) PROVE FALSE
    OBVIOUS
  <2>1. ToolEvent(j, t).tool = t /\ Event(k).tool = None
    BY DEF Event, ToolEvent
  <2>. QED BY <2>1, StoreAssumption
<1>3. \A t, u \in Tools : ToolEvent(j, t) = ToolEvent(k, u) <=> j = k /\ t = u
  BY DEF ToolEvent
<1>. QED BY <1>1, <1>2, <1>3

(* Every event is in the vocabulary the journal stores. *)
LEMMA EventsTyped ==
    /\ \A k \in PlainKinds : Event(k) \in Events
    /\ \A k \in ToolKinds, t \in Tools : ToolEvent(k, t) \in Events
    /\ ExecutionEvents \subseteq Events
BY DEF Event, ToolEvent, Events, ExecutionEvents, PlainKinds, ToolKinds

(* A row stays a row when one column is written. *)
LEMMA RowUpdates ==
    ASSUME NEW run \in RunRows
    PROVE  /\ \A x \in RunState : [run EXCEPT !.state = x] \in RunRows
           /\ \A x \in Workers \cup {None} : [run EXCEPT !.owner = x] \in RunRows
           /\ \A x \in Int : [run EXCEPT !.expires = x] \in RunRows
           /\ \A x \in Nat : [run EXCEPT !.fence = x] \in RunRows
           /\ [run EXCEPT !.cancel = TRUE] \in RunRows
<1>1. \A x \in RunState : [run EXCEPT !.state = x] \in RunRows
  BY DEF RunRows
<1>2. \A x \in Workers \cup {None} : [run EXCEPT !.owner = x] \in RunRows
  BY DEF RunRows
<1>3. \A x \in Int : [run EXCEPT !.expires = x] \in RunRows
  BY DEF RunRows
<1>4. \A x \in Nat : [run EXCEPT !.fence = x] \in RunRows
  BY DEF RunRows
<1>5. [run EXCEPT !.cancel = TRUE] \in RunRows
  BY DEF RunRows
<1>. QED BY <1>1, <1>2, <1>3, <1>4, <1>5

(* Two rows with the same identity: the turn they stand for is the same. *)
SameTurn(row, run) ==
    /\ row.conv = run.conv
    /\ row.actor = run.actor
    /\ row.request = run.request
    /\ row.queued_at = run.queued_at

(* What ends a turn keeps its identity, its fence and its cancel request. *)
LEMMA TerminalRow ==
    ASSUME NEW run \in RunRows, NEW state \in RunState
    PROVE  /\ terminal(run, state) \in RunRows
           /\ SameTurn(terminal(run, state), run)
           /\ terminal(run, state).state = state
           /\ terminal(run, state).cancel = run.cancel
           /\ terminal(run, state).fence = run.fence
<1>. DEFINE one == [run EXCEPT !.state = state]
            two == [one EXCEPT !.owner = None]
<1>1. one \in RunRows
  BY RowUpdates
<1>2. two \in RunRows
  <2>. HIDE DEF one
  <2>. QED BY <1>1, RowUpdates
<1>3. [two EXCEPT !.expires = 0] \in RunRows
  <2>. HIDE DEF two
  <2>1. 0 \in Int
    OBVIOUS
  <2>. QED BY <1>2, <2>1, RowUpdates, Zenon
<1>4. terminal(run, state) = [two EXCEPT !.expires = 0]
  BY DEF terminal, RunRows
<1>5. terminal(run, state) \in RunRows
  BY <1>3, <1>4, Zenon
<1>6. /\ SameTurn(terminal(run, state), run)
      /\ terminal(run, state).state = state
      /\ terminal(run, state).cancel = run.cancel
      /\ terminal(run, state).fence = run.fence
  BY DEF terminal, RunRows, SameTurn
<1>. QED BY <1>5, <1>6

(* A claim starts the turn under the next fence. *)
LEMMA ClaimedRow ==
    ASSUME NEW run \in RunRows, NEW w \in Workers, NEW now \in Int
    PROVE  /\ plan_claim(run, w, now, TTL) \in RunRows
           /\ SameTurn(plan_claim(run, w, now, TTL), run)
           /\ plan_claim(run, w, now, TTL).state = "running"
           /\ plan_claim(run, w, now, TTL).cancel = run.cancel
           /\ plan_claim(run, w, now, TTL).fence = run.fence + 1
<1>. DEFINE one == [run EXCEPT !.state = "running"]
            two == [one EXCEPT !.fence = run.fence + 1]
            three == [two EXCEPT !.owner = w]
<1>1. one \in RunRows
  BY RowUpdates DEF RunState
<1>2. two \in RunRows
  <2>. HIDE DEF one
  <2>1. run.fence + 1 \in Nat
    BY DEF RunRows
  <2>. QED BY <1>1, <2>1, RowUpdates
<1>3. three \in RunRows
  <2>. HIDE DEF two
  <2>. QED BY <1>2, RowUpdates
<1>4. [three EXCEPT !.expires = now + TTL] \in RunRows
  <2>. HIDE DEF three
  <2>1. now + TTL \in Int
    BY StoreAssumption
  <2>. QED BY <1>3, <2>1, RowUpdates
<1>5. plan_claim(run, w, now, TTL) = [three EXCEPT !.expires = now + TTL]
  BY DEF plan_claim, RunRows
<1>6. plan_claim(run, w, now, TTL) \in RunRows
  BY <1>4, <1>5, Zenon
<1>7. /\ SameTurn(plan_claim(run, w, now, TTL), run)
      /\ plan_claim(run, w, now, TTL).state = "running"
      /\ plan_claim(run, w, now, TTL).cancel = run.cancel
      /\ plan_claim(run, w, now, TTL).fence = run.fence + 1
  BY DEF plan_claim, RunRows, SameTurn
<1>. QED BY <1>6, <1>7

(* A heartbeat moves the expiry only. *)
LEMMA HeartbeatRow ==
    ASSUME NEW run \in RunRows, NEW now \in Int
    PROVE  /\ plan_heartbeat(run, now, TTL) \in RunRows
           /\ SameTurn(plan_heartbeat(run, now, TTL), run)
           /\ plan_heartbeat(run, now, TTL).state = run.state
           /\ plan_heartbeat(run, now, TTL).cancel = run.cancel
           /\ plan_heartbeat(run, now, TTL).fence = run.fence
<1>. DEFINE e == IF run.expires > now + TTL THEN run.expires ELSE now + TTL
<1>1. e \in Int
  BY StoreAssumption DEF RunRows
<1>2. plan_heartbeat(run, now, TTL) = [run EXCEPT !.expires = e]
  BY DEF plan_heartbeat, RunRows
<1>. HIDE DEF e
<1>3. [run EXCEPT !.expires = e] \in RunRows
  BY <1>1, RowUpdates
<1>4. /\ SameTurn([run EXCEPT !.expires = e], run)
      /\ [run EXCEPT !.expires = e].state = run.state
      /\ [run EXCEPT !.expires = e].cancel = run.cancel
      /\ [run EXCEPT !.expires = e].fence = run.fence
  BY DEF RunRows, SameTurn
<1>. QED BY <1>2, <1>3, <1>4, Zenon

(* A cancel request marks a running turn and ends a queued one. *)
LEMMA CancelledRow ==
    ASSUME NEW run \in RunRows
    PROVE  /\ plan_cancel(run) \in RunRows
           /\ SameTurn(plan_cancel(run), run)
           /\ plan_cancel(run).state =
                  IF run.state = "queued" THEN "cancelled" ELSE run.state
           /\ plan_cancel(run).cancel
           /\ plan_cancel(run).fence = run.fence
<1>. DEFINE requested == [run EXCEPT !.cancel = TRUE]
<1>1. requested \in RunRows
  BY RowUpdates
<1>2. /\ SameTurn(requested, run)
      /\ requested.state = run.state
      /\ requested.cancel
      /\ requested.fence = run.fence
  BY DEF RunRows, SameTurn
<1>3. plan_cancel(run) =
          IF run.state = "queued" THEN terminal(requested, "cancelled") ELSE requested
  BY DEF plan_cancel
<1>. HIDE DEF requested
<1>4. CASE run.state = "queued"
  <2>1. "cancelled" \in RunState
    BY DEF RunState
  <2>2. /\ terminal(requested, "cancelled") \in RunRows
        /\ SameTurn(terminal(requested, "cancelled"), requested)
        /\ terminal(requested, "cancelled").state = "cancelled"
        /\ terminal(requested, "cancelled").cancel = requested.cancel
        /\ terminal(requested, "cancelled").fence = requested.fence
    BY <1>1, <2>1, TerminalRow
  <2>3. plan_cancel(run) = terminal(requested, "cancelled")
    BY <1>3, <1>4
  <2>. QED BY <1>2, <1>4, <2>2, <2>3 DEF SameTurn
<1>5. CASE run.state # "queued"
  BY <1>1, <1>2, <1>3, <1>5
<1>. QED BY <1>4, <1>5

-----------------------------------------------------------------------------
(* What every step that writes the row of an accepted turn r has in common. *)
WritesRow(r) ==
    /\ runs' \in [Runs -> RunRows]
    /\ \A s \in Runs \ {r} : runs'[s] = runs[s]
    /\ SameTurn(runs'[r], runs[r])

(* The end of turn r, as its row, journal and message show it. *)
Ends(r) ==
    /\ Open(r)
    /\ WritesRow(r)
    /\ runs'[r].state \in Terminals
    /\ runs'[r].fence = runs[r].fence
    /\ \E extra \in SUBSET {Event("cancel_requested")} :
           committed' = [committed EXCEPT ![r] =
               @ \cup extra
                 \cup {ToolEvent("tool_unknown", t) : t \in Uncertain(r)}
                 \cup {Event(runs'[r].state)}]
    /\ Event("cancel_requested") \in committed'[r] =>
           runs'[r].cancel /\ runs'[r].state = "cancelled"
    /\ message' = [message EXCEPT ![r] = projection_status(runs'[r].state)]
    /\ UNCHANGED <<context, access, granted, accepted, ahead>>

(* Every turn that ends is written through write_terminal. *)
LEMMA WriteTerminalEnds ==
    ASSUME TypeOK, NEW r \in Runs, Open(r),
           NEW next \in RunRows, SameTurn(next, runs[r]),
           next.state \in Terminals, next.fence = runs[r].fence,
           NEW extra \in SUBSET {Event("cancel_requested")},
           Event("cancel_requested") \in committed[r] \cup extra =>
               next.cancel /\ next.state = "cancelled",
           write_terminal(r, next, extra),
           UNCHANGED <<context, access, granted, accepted, ahead>>
    PROVE  Ends(r)
<1>1. runs' = [runs EXCEPT ![r] = next] /\ runs \in [Runs -> RunRows]
  BY DEF write_terminal, TypeOK
<1>2. runs' \in [Runs -> RunRows] /\ runs'[r] = next
      /\ \A s \in Runs \ {r} : runs'[s] = runs[s]
  BY <1>1
<1>3. WritesRow(r)
  BY <1>2 DEF WritesRow
<1>4. committed' = [committed EXCEPT ![r] =
          @ \cup extra \cup {ToolEvent("tool_unknown", t) : t \in Uncertain(r)}
            \cup {Event(next.state)}]
  BY DEF write_terminal
<1>5. Event("cancel_requested") \in committed'[r] =>
          Event("cancel_requested") \in committed[r] \cup extra
  <2>1. \A t \in Uncertain(r) : ToolEvent("tool_unknown", t) # Event("cancel_requested")
    BY EventsDiffer DEF Uncertain
  <2>2. Event(next.state) # Event("cancel_requested")
    BY EventsDiffer DEF Terminals
  <2>3. committed \in [Runs -> SUBSET Events]
    BY DEF TypeOK
  <2>. QED BY <1>4, <2>1, <2>2, <2>3
<1>6. message' = [message EXCEPT ![r] = projection_status(next.state)]
  BY DEF write_terminal
<1>. QED BY <1>2, <1>3, <1>4, <1>5, <1>6 DEF Ends

-----------------------------------------------------------------------------
(* The facts that make the invariants inductive.  A row that was never     *)
(* claimed has fence 0 and no cancel request, a run that was never         *)
(* accepted has no events, and Unknown is only ever written at the end.    *)
RowsSound ==
    \A r \in Runs :
        /\ runs[r].fence \in {0, 1}
        /\ runs[r].state \in {"none", "queued"} => runs[r].fence = 0 /\ ~runs[r].cancel
        /\ runs[r].state = "none" => committed[r] = {}
        /\ \A t \in Tools : ToolEvent("tool_unknown", t) \in committed[r] =>
               is_terminal(runs[r].state)

(* A lease in a worker's hands names a run that was claimed. *)
LeasesSound ==
    /\ \A k \in granted : runs[k.run].fence = 1
    /\ \A k, l \in granted : k.run = l.run => k = l

(* The turns that were ahead of a turn are accepted turns of its conversation. *)
AheadSound ==
    \A r \in Runs : \A s \in ahead[r] : Exists(s) /\ runs[s].conv = runs[r].conv

(* The unique index over (workspace, actor, request). *)
RequestsSound ==
    /\ \A p \in Actors \X Requests : \A r \in accepted[p] :
           Exists(r) /\ p = <<runs[r].actor, runs[r].request>>
    /\ \A r, s \in Runs :
           /\ Exists(r) /\ Exists(s)
           /\ runs[r].actor = runs[s].actor /\ runs[r].request = runs[s].request
           => r = s

IInv ==
    /\ TypeOK
    /\ RowsSound
    /\ LeasesSound
    /\ AheadSound
    /\ RequestsSound
    /\ OneRunning
    /\ CancelWins
    /\ ProjectionAgrees
    /\ ToolsSettled
    /\ QueueOrder
    /\ ContextSettled

(* The invariant holds of the empty store. *)
LEMMA InitIInv == Init => IInv
<1>. SUFFICES ASSUME Init PROVE IInv
  OBVIOUS
<1>. USE DEF Init
<1>1. \A r \in Runs : /\ runs[r].state = "none" /\ runs[r].fence = 0 /\ ~runs[r].cancel
                      /\ committed[r] = {} /\ message[r] = "none"
  BY DEF NoRun
<1>2. NoRun \in RunRows
  BY DEF NoRun, RunRows
<1>3. TypeOK
  BY <1>2 DEF TypeOK, MessageStatus
<1>4. RowsSound /\ OneRunning /\ CancelWins /\ ToolsSettled /\ QueueOrder
  BY <1>1 DEF RowsSound, OneRunning, CancelWins, ToolsSettled, QueueOrder,
              is_terminal, RunState
<1>5. ProjectionAgrees
  BY <1>1 DEF ProjectionAgrees, is_terminal, RunState, Open
<1>6. LeasesSound /\ AheadSound /\ ContextSettled
  BY DEF LeasesSound, AheadSound, ContextSettled
<1>7. RequestsSound
  BY <1>1 DEF RequestsSound, Exists
<1>. QED BY <1>3, <1>4, <1>5, <1>6, <1>7 DEF IInv

-----------------------------------------------------------------------------
(* Accepting a turn preserves the invariant. *)
LEMMA SubmitIInv ==
    ASSUME IInv, NEW r \in Runs, NEW c \in Conversations, NEW a \in Actors,
           NEW q \in Requests, NEW at \in Times, Submit(r, c, a, q, at)
    PROVE  IInv'
<1>. USE DEF Submit
<1>1. /\ runs \in [Runs -> RunRows]
      /\ committed \in [Runs -> SUBSET Events]
      /\ message \in [Runs -> MessageStatus]
      /\ ahead \in [Runs -> SUBSET Runs]
      /\ accepted \in [Actors \X Requests -> SUBSET Runs]
  BY DEF IInv, TypeOK
<1>2. /\ runs[r].state = "none" /\ runs[r].fence = 0 /\ ~runs[r].cancel
  BY DEF IInv, RowsSound, Exists
<1>3. /\ runs' \in [Runs -> RunRows]
      /\ \A s \in Runs \ {r} : runs'[s] = runs[s]
      /\ runs'[r].state = "queued" /\ runs'[r].conv = c
      /\ runs'[r].actor = a /\ runs'[r].request = q
      /\ runs'[r].cancel = FALSE /\ runs'[r].fence = 0
  <2>1. at \in Int
    BY StoreAssumption
  <2>2. runs' = [runs EXCEPT ![r] = queued_row(c, a, q, at)]
    OBVIOUS
  <2>3. queued_row(c, a, q, at) \in RunRows
    BY <2>1 DEF queued_row, RunRows, RunState
  <2>4. /\ runs'[r] = queued_row(c, a, q, at) /\ runs' \in [Runs -> RunRows]
        /\ \A s \in Runs \ {r} : runs'[s] = runs[s]
    BY <1>1, <2>2, <2>3
  <2>5. /\ queued_row(c, a, q, at).state = "queued"
        /\ queued_row(c, a, q, at).conv = c
        /\ queued_row(c, a, q, at).actor = a
        /\ queued_row(c, a, q, at).request = q
        /\ queued_row(c, a, q, at).cancel = FALSE
        /\ queued_row(c, a, q, at).fence = 0
    BY DEF queued_row
  <2>. QED BY <2>4, <2>5
<1>4. /\ committed' \in [Runs -> SUBSET Events]
      /\ \A s \in Runs \ {r} : committed'[s] = committed[s]
      /\ committed'[r] = {Event("submitted"), Event("queued")}
  BY <1>1, EventsTyped DEF PlainKinds
<1>5. /\ message' \in [Runs -> MessageStatus]
      /\ \A s \in Runs \ {r} : message'[s] = message[s]
      /\ message'[r] = "in_progress"
  BY <1>1 DEF MessageStatus
<1>6. /\ ahead' \in [Runs -> SUBSET Runs]
      /\ \A s \in Runs \ {r} : ahead'[s] = ahead[s]
      /\ ahead'[r] = {s \in Turns(c) : Open(s)}
  BY <1>1 DEF Turns
<1>7. TypeOK'
  <2>1. accepted' \in [Actors \X Requests -> SUBSET Runs]
    BY <1>1
  <2>. QED BY <1>3, <1>4, <1>5, <1>6, <2>1 DEF IInv, TypeOK
<1>8. /\ \A k \in {"cancel_requested"} \cup Terminals : Event(k) \notin committed'[r]
      /\ \A k \in ToolKinds, t \in Tools : ToolEvent(k, t) \notin committed'[r]
  <2>1. ASSUME NEW k \in {"cancel_requested"} \cup Terminals
        PROVE  Event(k) # Event("submitted") /\ Event(k) # Event("queued")
    BY EventsDiffer DEF Terminals
  <2>2. ASSUME NEW k \in ToolKinds, NEW t \in Tools
        PROVE  ToolEvent(k, t) # Event("submitted") /\ ToolEvent(k, t) # Event("queued")
    BY EventsDiffer
  <2>. QED BY <1>4, <2>1, <2>2
<1>9. RowsSound'
  BY <1>3, <1>4, <1>8 DEF IInv, RowsSound, ToolKinds
<1>10. \A s \in Runs : Exists(s) => s # r /\ runs'[s] = runs[s]
  BY <1>2, <1>3 DEF Exists
<1>11. LeasesSound'
  <2>1. \A k \in granted : k.run \in Runs
    BY DEF IInv, TypeOK, Leases
  <2>2. \A k \in granted : runs'[k.run].fence = 1
    BY <1>2, <1>3, <2>1 DEF IInv, LeasesSound
  <2>. QED BY <2>2 DEF IInv, LeasesSound
<1>12. AheadSound'
  <2>1. \A s \in Runs \ {r} : \A t \in ahead'[s] : Exists(t)' /\ runs'[t].conv = runs'[s].conv
    BY <1>1, <1>3, <1>6, <1>10 DEF IInv, AheadSound, Exists
  <2>2. \A t \in ahead'[r] : Exists(t)' /\ runs'[t].conv = runs'[r].conv
    BY <1>3, <1>6, <1>10 DEF Turns, Exists
  <2>. QED BY <2>1, <2>2 DEF AheadSound
<1>13. RequestsSound'
  <2>1. \A p \in Actors \X Requests : \A s \in accepted'[p] :
            \/ s \in accepted[p]
            \/ s = r /\ p = <<a, q>>
    BY <1>1
  <2>2. \A p \in Actors \X Requests : \A s \in accepted'[p] :
            Exists(s)' /\ p = <<runs'[s].actor, runs'[s].request>>
    BY <1>1, <1>3, <1>10, <2>1 DEF IInv, RequestsSound, Exists
  <2>3. \A s \in Runs : Exists(s) => ~(runs[s].actor = a /\ runs[s].request = q)
    BY DEF existing
  <2>4. \A s, t \in Runs :
            /\ Exists(s)' /\ Exists(t)'
            /\ runs'[s].actor = runs'[t].actor /\ runs'[s].request = runs'[t].request
            => s = t
    BY <1>3, <2>3 DEF IInv, RequestsSound, Exists
  <2>. QED BY <2>2, <2>4 DEF RequestsSound
<1>14. OneRunning'
  BY <1>3 DEF IInv, OneRunning
<1>15. CancelWins'
  BY <1>3, <1>4, <1>8 DEF IInv, CancelWins
<1>16. ProjectionAgrees'
  <2>. SUFFICES ASSUME NEW s \in Runs
                PROVE  /\ {k \in Terminals : Event(k) \in committed'[s]} =
                              IF is_terminal(runs'[s].state) THEN {runs'[s].state} ELSE {}
                       /\ Open(s)' <=> message'[s] = "in_progress"
                       /\ is_terminal(runs'[s].state) =>
                              message'[s] = projection_status(runs'[s].state)
    BY DEF ProjectionAgrees
  <2>1. CASE s = r
    <3>1. ~is_terminal(runs'[r].state) /\ Open(r)'
      BY <1>3 DEF Open, is_terminal
    <3>2. \A k \in Terminals : Event(k) \notin committed'[r]
      BY <1>8
    <3>. QED BY <1>5, <2>1, <3>1, <3>2
  <2>2. CASE s # r
    <3>1. runs'[s] = runs[s] /\ committed'[s] = committed[s] /\ message'[s] = message[s]
      BY <1>3, <1>4, <1>5, <2>2
    <3>. QED BY <3>1 DEF IInv, ProjectionAgrees, Open
  <2>. QED BY <2>1, <2>2
<1>17. ToolsSettled'
  BY <1>3, <1>4 DEF IInv, ToolsSettled, is_terminal
<1>18. QueueOrder'
  BY <1>1, <1>3, <1>6, <1>10 DEF IInv, AheadSound, QueueOrder, Before
<1>19. ContextSettled'
  <2>1. \A s \in Runs : is_terminal(runs[s].state) => Exists(s)
    BY DEF is_terminal, RunState, Exists
  <2>. QED BY <1>10, <2>1 DEF IInv, ContextSettled, TypeOK
<1>. QED BY <1>7, <1>9, <1>11, <1>12, <1>13, <1>14, <1>15, <1>16, <1>17, <1>18, <1>19
         DEF IInv

(* A claim preserves the invariant: it is refused while another turn runs  *)
(* or an earlier one waits, so what it loads and passes over is settled.   *)
LEMMA ClaimIInv ==
    ASSUME IInv, NEW r \in Runs, NEW w \in Workers, NEW now \in Times, Claim(r, w, now)
    PROVE  IInv'
<1>. DEFINE next == plan_claim(runs[r], w, now, TTL)
<1>1. /\ runs \in [Runs -> RunRows]
      /\ committed \in [Runs -> SUBSET Events]
      /\ context \in [Runs -> SUBSET Runs]
      /\ ahead \in [Runs -> SUBSET Runs]
      /\ granted \subseteq Leases
  BY DEF IInv, TypeOK
<1>2. runs[r].state = "queued" /\ runs[r].fence = 0 /\ ~runs[r].cancel
  BY DEF Claim, claimable, IInv, RowsSound
<1>3. /\ next \in RunRows /\ SameTurn(next, runs[r]) /\ next.state = "running"
      /\ next.cancel = runs[r].cancel /\ next.fence = 1
  <2>1. runs[r] \in RunRows /\ now \in Int
    BY <1>1, StoreAssumption
  <2>2. /\ next \in RunRows /\ SameTurn(next, runs[r]) /\ next.state = "running"
        /\ next.cancel = runs[r].cancel /\ next.fence = runs[r].fence + 1
    BY <2>1, ClaimedRow
  <2>. HIDE DEF next
  <2>. QED BY <1>2, <2>2
<1>4. /\ runs' = [runs EXCEPT ![r] = next]
      /\ granted' = granted \cup {[run |-> r, owner |-> w, fence |-> next.fence]}
  BY DEF Claim
<1>. HIDE DEF next
<1>5. /\ WritesRow(r)
      /\ runs'[r].state = "running" /\ runs'[r].fence = 1 /\ ~runs'[r].cancel
  BY <1>1, <1>2, <1>3, <1>4 DEF WritesRow
<1>6. /\ committed' \in [Runs -> SUBSET Events]
      /\ \A s \in Runs \ {r} : committed'[s] = committed[s]
      /\ committed'[r] = committed[r] \cup {Event("started")}
  BY <1>1, EventsTyped DEF Claim, PlainKinds
<1>7. /\ context' \in [Runs -> SUBSET Runs]
      /\ \A s \in Runs \ {r} : context'[s] = context[s]
      /\ context'[r] = claimed_context(r)
  BY <1>1 DEF Claim, claimed_context, Turns
<1>8. UNCHANGED <<message, access, accepted, ahead>>
  BY DEF Claim
<1>9. /\ \A k \in {"cancel_requested"} \cup Terminals :
             Event(k) \in committed'[r] <=> Event(k) \in committed[r]
      /\ \A k \in ToolKinds, t \in Tools :
             ToolEvent(k, t) \in committed'[r] <=> ToolEvent(k, t) \in committed[r]
  BY <1>6, EventsDiffer DEF Terminals
<1>10. \A s \in Runs : /\ SameTurn(runs'[s], runs[s])
                       /\ Exists(s)' <=> Exists(s)
                       /\ is_terminal(runs'[s].state) <=> is_terminal(runs[s].state)
                       /\ Open(s)' <=> Open(s)
  BY <1>2, <1>5 DEF WritesRow, SameTurn, Exists, is_terminal, Open
<1>11. \A s \in Turns(runs[r].conv) :
          /\ runs[s].state # "running"
          /\ runs[s].state = "queued" => ~Before(s, r)
  BY DEF Claim, conversation_active
<1>12. TypeOK'
  <2>1. granted' \subseteq Leases
    BY <1>1, <1>3, <1>4 DEF Leases
  <2>. QED BY <1>5, <1>6, <1>7, <1>8, <2>1 DEF IInv, TypeOK, WritesRow
<1>13. RowsSound'
  BY <1>2, <1>5, <1>6, <1>9, <1>10 DEF IInv, RowsSound, WritesRow, ToolKinds
<1>14. LeasesSound'
  <2>1. \A k \in granted : k.run \in Runs /\ k.run # r
    BY <1>1, <1>2 DEF IInv, LeasesSound, Leases
  <2>2. \A k \in granted' : k \in granted \/ k = [run |-> r, owner |-> w, fence |-> next.fence]
    BY <1>4
  <2>3. \A k \in granted' : runs'[k.run].fence = 1
    BY <1>5, <2>1, <2>2 DEF IInv, LeasesSound, WritesRow
  <2>4. \A k, l \in granted' : k.run = l.run => k = l
    BY <2>1, <2>2 DEF IInv, LeasesSound
  <2>. QED BY <2>3, <2>4 DEF LeasesSound
<1>15. AheadSound'
  BY <1>1, <1>8, <1>10 DEF IInv, AheadSound, SameTurn
<1>16. RequestsSound'
  <2>1. \A p \in Actors \X Requests : accepted[p] \subseteq Runs
    BY DEF IInv, TypeOK
  <2>. QED BY <1>8, <1>10, <2>1 DEF IInv, RequestsSound, SameTurn
<1>17. OneRunning'
  <2>1. \A s \in Runs : runs[s].state = "running" => runs[s].conv # runs[r].conv
    BY <1>11 DEF Turns, Exists
  <2>. QED BY <1>5, <2>1 DEF IInv, OneRunning, WritesRow, SameTurn
<1>18. CancelWins'
  BY <1>2, <1>5, <1>6, <1>9 DEF IInv, CancelWins, WritesRow
<1>19. ProjectionAgrees'
  <2>1. \A s \in Runs : /\ is_terminal(runs[s].state) => runs'[s].state = runs[s].state
                        /\ {k \in Terminals : Event(k) \in committed'[s]}
                              = {k \in Terminals : Event(k) \in committed[s]}
    BY <1>2, <1>5, <1>6, <1>9 DEF WritesRow, is_terminal
  <2>. QED BY <1>8, <1>10, <2>1 DEF IInv, ProjectionAgrees
<1>20. ToolsSettled'
  BY <1>6, <1>9, <1>10 DEF IInv, ToolsSettled, ToolKinds
<1>21. \A s, t \in Runs : Before(s, t)' <=> Before(s, t)
  BY <1>10 DEF Before, SameTurn
<1>22. QueueOrder'
  <2>1. \A s \in ahead[r] : Before(s, r) => is_terminal(runs[s].state)
    <3>1. \A s \in ahead[r] : s \in Turns(runs[r].conv) /\ runs[s] \in RunRows
      BY <1>1 DEF IInv, AheadSound, Turns
    <3>. QED BY <1>11, <3>1 DEF is_terminal, RunRows, Turns, Exists
  <2>. QED BY <1>1, <1>5, <1>8, <1>10, <1>21, <2>1 DEF IInv, QueueOrder, WritesRow
<1>23. ContextSettled'
  <2>1. \A s \in claimed_context(r) : is_terminal(runs[s].state)
    <3>. SUFFICES ASSUME NEW s \in claimed_context(r) PROVE is_terminal(runs[s].state)
      OBVIOUS
    <3>1. s \in Turns(runs[r].conv) /\ s # r /\ ~Before(r, s) /\ s \in Runs
      BY DEF claimed_context, Turns
    <3>2. runs[s].queued_at \in Int /\ runs[r].queued_at \in Int /\ s \in Int /\ r \in Int
      BY <1>1, <3>1, StoreAssumption DEF RunRows
    <3>3. Before(s, r)
      BY <3>1, <3>2 DEF Before
    <3>4. runs[s].state \in RunState \cup {"none"}
      BY <1>1, <3>1 DEF RunRows
    <3>. QED BY <1>11, <3>1, <3>3, <3>4 DEF is_terminal, Turns, Exists
  <2>. QED BY <1>1, <1>7, <1>10, <2>1 DEF IInv, ContextSettled
<1>. QED BY <1>12, <1>13, <1>14, <1>15, <1>16, <1>17, <1>18, <1>19, <1>20, <1>22, <1>23
         DEF IInv

(* A step of a running turn that does not end it: a heartbeat, an event of *)
(* its executor, a cancel request.                                         *)
Advances(r) ==
    /\ runs[r].state = "running"
    /\ WritesRow(r)
    /\ runs'[r].state = "running"
    /\ runs'[r].fence = runs[r].fence
    /\ \E new \in SUBSET (Events \ ({Event(k) : k \in Terminals}
                                    \cup {ToolEvent("tool_unknown", t) : t \in Tools})) :
           committed' = [committed EXCEPT ![r] = @ \cup new]
    /\ Event("cancel_requested") \in committed'[r] => runs'[r].cancel
    /\ UNCHANGED <<message, context, access, granted, accepted, ahead>>

(* Steps of a running turn preserve the invariant. *)
LEMMA AdvancesIInv ==
    ASSUME IInv, NEW r \in Runs, Advances(r)
    PROVE  IInv'
<1>1. /\ runs \in [Runs -> RunRows]
      /\ committed \in [Runs -> SUBSET Events]
      /\ context \in [Runs -> SUBSET Runs]
      /\ ahead \in [Runs -> SUBSET Runs]
      /\ granted \subseteq Leases
  BY DEF IInv, TypeOK
<1>2. PICK new \in SUBSET (Events \ ({Event(k) : k \in Terminals}
                                   \cup {ToolEvent("tool_unknown", t) : t \in Tools})) :
          committed' = [committed EXCEPT ![r] = @ \cup new]
  BY DEF Advances
<1>3. /\ committed' \in [Runs -> SUBSET Events]
      /\ \A s \in Runs \ {r} : committed'[s] = committed[s]
      /\ committed'[r] = committed[r] \cup new
  BY <1>1, <1>2
<1>4. UNCHANGED <<message, context, access, granted, accepted, ahead>>
  BY DEF Advances
<1>5. \A s \in Runs : /\ SameTurn(runs'[s], runs[s])
                      /\ runs'[s].state = runs[s].state
                      /\ runs'[s].fence = runs[s].fence
                      /\ s # r => runs'[s] = runs[s]
  BY DEF Advances, WritesRow, SameTurn
<1>6. runs[r].state = "running" /\ ~is_terminal(runs[r].state)
  BY DEF Advances, is_terminal
<1>7. /\ \A k \in Terminals : Event(k) \in committed'[r] <=> Event(k) \in committed[r]
      /\ \A t \in Tools :
             ToolEvent("tool_unknown", t) \in committed'[r]
               <=> ToolEvent("tool_unknown", t) \in committed[r]
  BY <1>3
<1>8. TypeOK'
  BY <1>3, <1>4 DEF IInv, TypeOK, Advances, WritesRow
<1>9. RowsSound'
  BY <1>3, <1>5, <1>6, <1>7 DEF IInv, RowsSound
<1>10. LeasesSound'
  BY <1>1, <1>4, <1>5 DEF IInv, LeasesSound, Leases
<1>11. AheadSound'
  BY <1>1, <1>4, <1>5 DEF IInv, AheadSound, SameTurn, Exists
<1>12. RequestsSound'
  <2>1. \A p \in Actors \X Requests : accepted[p] \subseteq Runs
    BY DEF IInv, TypeOK
  <2>. QED BY <1>4, <1>5, <2>1 DEF IInv, RequestsSound, SameTurn, Exists
<1>13. OneRunning'
  BY <1>5 DEF IInv, OneRunning, SameTurn
<1>14. CancelWins'
  BY <1>3, <1>5, <1>6 DEF IInv, CancelWins, Advances
<1>15. ProjectionAgrees'
  <2>1. \A s \in Runs : {k \in Terminals : Event(k) \in committed'[s]}
                           = {k \in Terminals : Event(k) \in committed[s]}
    BY <1>3, <1>7
  <2>. QED BY <1>4, <1>5, <2>1 DEF IInv, ProjectionAgrees, Open
<1>16. ToolsSettled'
  BY <1>3, <1>5, <1>6 DEF IInv, ToolsSettled
<1>17. QueueOrder'
  BY <1>1, <1>4, <1>5 DEF IInv, QueueOrder, Before, SameTurn
<1>18. ContextSettled'
  BY <1>1, <1>4, <1>5 DEF IInv, ContextSettled
<1>. QED BY <1>8, <1>9, <1>10, <1>11, <1>12, <1>13, <1>14, <1>15, <1>16, <1>17, <1>18
         DEF IInv

(* The end of a turn preserves the invariant. *)
LEMMA EndsIInv ==
    ASSUME IInv, NEW r \in Runs, Ends(r)
    PROVE  IInv'
<1>1. /\ runs \in [Runs -> RunRows]
      /\ committed \in [Runs -> SUBSET Events]
      /\ message \in [Runs -> MessageStatus]
      /\ context \in [Runs -> SUBSET Runs]
      /\ ahead \in [Runs -> SUBSET Runs]
      /\ granted \subseteq Leases
  BY DEF IInv, TypeOK
<1>2. PICK extra \in SUBSET {Event("cancel_requested")} :
          committed' = [committed EXCEPT ![r] =
              @ \cup extra \cup {ToolEvent("tool_unknown", t) : t \in Uncertain(r)}
                \cup {Event(runs'[r].state)}]
  BY DEF Ends
<1>3. /\ runs'[r].state \in Terminals /\ is_terminal(runs'[r].state)
      /\ runs'[r].fence = runs[r].fence
      /\ Open(r) /\ ~is_terminal(runs[r].state) /\ Exists(r)
  BY DEF Ends, is_terminal, Terminals, Open, RunState, Exists
<1>4. /\ \A s \in Runs \ {r} : committed'[s] = committed[s]
      /\ committed'[r] = committed[r] \cup extra
             \cup {ToolEvent("tool_unknown", t) : t \in Uncertain(r)}
             \cup {Event(runs'[r].state)}
  BY <1>1, <1>2
<1>5. committed' \in [Runs -> SUBSET Events]
  <2>1. /\ extra \subseteq Events
        /\ {ToolEvent("tool_unknown", t) : t \in Uncertain(r)} \subseteq Events
        /\ Event(runs'[r].state) \in Events
    BY <1>3, EventsTyped DEF PlainKinds, ToolKinds, Uncertain, Terminals
  <2>2. committed'[r] \in SUBSET Events
    BY <1>1, <1>4, <2>1
  <2>. QED BY <1>1, <1>2, <1>4, <2>2
<1>6. UNCHANGED <<context, access, granted, accepted, ahead>>
  BY DEF Ends
<1>7. \A s \in Runs : /\ SameTurn(runs'[s], runs[s])
                      /\ Exists(s)' <=> Exists(s)
                      /\ is_terminal(runs[s].state) => is_terminal(runs'[s].state)
                      /\ runs'[s].state = "running" => runs[s].state = "running"
                      /\ s # r => runs'[s] = runs[s]
  BY <1>3 DEF Ends, WritesRow, SameTurn, Exists, Terminals
<1>8. /\ message' \in [Runs -> MessageStatus]
      /\ \A s \in Runs \ {r} : message'[s] = message[s]
      /\ message'[r] = projection_status(runs'[r].state)
      /\ message'[r] # "in_progress"
  <2>1. /\ projection_status(runs'[r].state) \in MessageStatus
        /\ projection_status(runs'[r].state) # "in_progress"
    BY <1>3 DEF projection_status, MessageStatus, Terminals
  <2>. QED BY <1>1, <2>1 DEF Ends
<1>9. \A k \in Terminals : Event(k) \in committed'[r] <=> k = runs'[r].state
  <2>1. \A k \in Terminals : Event(k) \notin committed[r]
    BY <1>3 DEF IInv, ProjectionAgrees
  <2>2. \A k \in Terminals : /\ Event(k) \notin extra
                             /\ \A t \in Uncertain(r) : ToolEvent("tool_unknown", t) # Event(k)
    BY EventsDiffer DEF Uncertain, Terminals
  <2>3. \A k \in Terminals : Event(k) = Event(runs'[r].state) <=> k = runs'[r].state
    BY EventsDiffer
  <2>. QED BY <1>3, <1>4, <2>1, <2>2, <2>3
<1>10. \A k \in ToolKinds, t \in Tools :
          ToolEvent(k, t) \in committed'[r] <=>
              ToolEvent(k, t) \in committed[r] \/ (k = "tool_unknown" /\ t \in Uncertain(r))
  <2>. SUFFICES ASSUME NEW k \in ToolKinds, NEW t \in Tools
                PROVE  ToolEvent(k, t) \in committed'[r] <=>
                           ToolEvent(k, t) \in committed[r]
                           \/ (k = "tool_unknown" /\ t \in Uncertain(r))
    OBVIOUS
  <2>1. ToolEvent(k, t) \notin extra /\ ToolEvent(k, t) # Event(runs'[r].state)
    BY EventsDiffer
  <2>2. \A u \in Uncertain(r) : ToolEvent(k, t) = ToolEvent("tool_unknown", u)
                                  <=> k = "tool_unknown" /\ t = u
    BY EventsDiffer DEF Uncertain
  <2>. QED BY <1>4, <2>1, <2>2
<1>11. TypeOK'
  BY <1>5, <1>6, <1>8 DEF IInv, TypeOK, Ends, WritesRow
<1>12. RowsSound'
  <2>1. \A s \in Runs \ {r} : runs'[s] = runs[s] /\ committed'[s] = committed[s]
    BY <1>4, <1>7
  <2>2. runs'[r].state \notin {"none", "queued"} /\ runs'[r].fence \in {0, 1}
    BY <1>3 DEF Terminals, IInv, RowsSound
  <2>. QED BY <1>3, <2>1, <2>2 DEF IInv, RowsSound
<1>13. LeasesSound'
  BY <1>1, <1>3, <1>6, <1>7 DEF IInv, LeasesSound, Leases
<1>14. AheadSound'
  BY <1>1, <1>6, <1>7 DEF IInv, AheadSound, SameTurn
<1>15. RequestsSound'
  <2>1. \A p \in Actors \X Requests : accepted[p] \subseteq Runs
    BY DEF IInv, TypeOK
  <2>. QED BY <1>6, <1>7, <2>1 DEF IInv, RequestsSound, SameTurn
<1>16. OneRunning'
  BY <1>7 DEF IInv, OneRunning, SameTurn
<1>17. CancelWins'
  BY <1>4, <1>7 DEF IInv, CancelWins, Ends
<1>18. ProjectionAgrees'
  <2>1. {k \in Terminals : Event(k) \in committed'[r]} = {runs'[r].state}
    BY <1>3, <1>9
  <2>2. ~Open(r)'
    BY <1>3 DEF Open, Terminals
  <2>. QED BY <1>3, <1>4, <1>7, <1>8, <2>1, <2>2 DEF IInv, ProjectionAgrees, Open
<1>19. ToolsSettled'
  <2>1. \A t \in Tools : ToolEvent("tool_unknown", t) \notin committed[r]
    BY <1>3 DEF IInv, RowsSound
  <2>2. \A t \in Tools : ToolEvent("tool_started", t) \in committed'[r] =>
            (ToolEvent("tool_outcome", t) \in committed'[r])
                # (ToolEvent("tool_unknown", t) \in committed'[r])
    BY <1>10, <2>1 DEF ToolKinds, Uncertain
  <2>. QED BY <1>4, <1>7, <2>2 DEF IInv, ToolsSettled
<1>20. QueueOrder'
  BY <1>1, <1>6, <1>7 DEF IInv, QueueOrder, Before, SameTurn
<1>21. ContextSettled'
  BY <1>1, <1>6, <1>7 DEF IInv, ContextSettled
<1>. QED BY <1>11, <1>12, <1>13, <1>14, <1>15, <1>16, <1>17, <1>18, <1>19, <1>20, <1>21
         DEF IInv

-----------------------------------------------------------------------------
(* The owner's heartbeat and events are steps of a running turn. *)
LEMMA OwnerAdvances ==
    ASSUME IInv, NEW lease \in granted, NEW now \in Times,
           \/ Heartbeat(lease, now)
           \/ \E e \in ExecutionEvents : FencedEvent(lease, now, e)
    PROVE  lease.run \in Runs /\ Advances(lease.run)
<1>. DEFINE r == lease.run
<1>1. /\ r \in Runs
      /\ runs \in [Runs -> RunRows] /\ runs[r] \in RunRows
      /\ committed \in [Runs -> SUBSET Events]
      /\ now \in Int
  BY StoreAssumption DEF IInv, TypeOK, Leases
<1>2. runs[r].state = "running"
  BY DEF Heartbeat, FencedEvent, owned, validate_ownership
<1>3. Event("cancel_requested") \in committed[r] => runs[r].cancel
  BY <1>1 DEF IInv, CancelWins
<1>. HIDE DEF r
<1>4. CASE Heartbeat(lease, now)
  <2>. DEFINE next == plan_heartbeat(runs[r], now, TTL)
  <2>1. /\ next \in RunRows /\ SameTurn(next, runs[r]) /\ next.state = runs[r].state
        /\ next.cancel = runs[r].cancel /\ next.fence = runs[r].fence
    BY <1>1, HeartbeatRow
  <2>2. runs' = [runs EXCEPT ![r] = next]
    BY <1>4 DEF Heartbeat, r
  <2>. HIDE DEF next
  <2>3. WritesRow(r) /\ runs'[r] = next
    BY <1>1, <2>1, <2>2 DEF WritesRow
  <2>4. UNCHANGED <<committed, message, context, access, granted, accepted, ahead>>
    BY <1>4 DEF Heartbeat
  <2>5. committed' = [committed EXCEPT ![r] = @ \cup {}]
    BY <1>1, <2>4
  <2>. QED BY <1>1, <1>2, <1>3, <2>1, <2>3, <2>4, <2>5 DEF Advances, r
<1>5. CASE \E e \in ExecutionEvents : FencedEvent(lease, now, e)
  <2>1. PICK e \in ExecutionEvents : FencedEvent(lease, now, e)
    BY <1>5
  <2>2. e # Event("cancel_requested")
        /\ {e} \subseteq Events \ ({Event(k) : k \in Terminals}
                                   \cup {ToolEvent("tool_unknown", t) : t \in Tools})
    <3>1. \/ e = Event("record")
          \/ \E j \in {"tool_started", "tool_outcome"}, t \in Tools : e = ToolEvent(j, t)
      BY DEF ExecutionEvents, ToolEvent
    <3>2. CASE e = Event("record")
      <4>1. \A k \in Terminals \cup {"cancel_requested"} : e # Event(k)
        BY <3>2, EventsDiffer DEF Terminals
      <4>2. \A t \in Tools : e # ToolEvent("tool_unknown", t)
        BY <3>2, EventsDiffer
      <4>3. e \in Events
        BY <3>2, EventsTyped DEF PlainKinds
      <4>. QED BY <4>1, <4>2, <4>3
    <3>3. ASSUME NEW j \in {"tool_started", "tool_outcome"}, NEW t \in Tools,
                 e = ToolEvent(j, t)
          PROVE  e # Event("cancel_requested")
                 /\ {e} \subseteq Events \ ({Event(k) : k \in Terminals}
                                            \cup {ToolEvent("tool_unknown", u) : u \in Tools})
      BY <3>3, EventsDiffer, EventsTyped DEF ToolKinds
    <3>. QED BY <3>1, <3>2, <3>3
  <2>3. /\ UNCHANGED <<runs, message, context, access, granted, accepted, ahead>>
        /\ committed' = [committed EXCEPT ![r] = @ \cup {e}]
    BY <2>1 DEF FencedEvent, r
  <2>4. WritesRow(r)
    BY <1>1, <2>3 DEF WritesRow, SameTurn
  <2>5. Event("cancel_requested") \in committed'[r] => runs'[r].cancel
    BY <1>1, <1>3, <2>2, <2>3
  <2>. QED BY <1>1, <1>2, <2>2, <2>3, <2>4, <2>5 DEF Advances, r
<1>. QED BY <1>4, <1>5

(* A cancel request ends a queued turn and marks a running one. *)
LEMMA CancelSteps ==
    ASSUME IInv, NEW r \in Runs, Cancel(r)
    PROVE  Ends(r) \/ Advances(r)
<1>. DEFINE next == plan_cancel(runs[r])
            extra == {Event("cancel_requested")}
<1>1. /\ runs \in [Runs -> RunRows] /\ runs[r] \in RunRows
      /\ committed \in [Runs -> SUBSET Events]
  BY DEF IInv, TypeOK
<1>2. /\ next \in RunRows /\ SameTurn(next, runs[r])
      /\ next.state = IF runs[r].state = "queued" THEN "cancelled" ELSE runs[r].state
      /\ next.cancel /\ next.fence = runs[r].fence
  BY <1>1, CancelledRow
<1>3. runs[r].state \in {"queued", "running"}
  BY DEF Cancel, cancel_changes
<1>4. IF is_terminal(next.state)
      THEN write_terminal(r, next, extra)
      ELSE /\ runs' = [runs EXCEPT ![r] = next]
           /\ committed' = [committed EXCEPT ![r] = @ \cup extra]
           /\ UNCHANGED message
  BY DEF Cancel
<1>5. UNCHANGED <<context, access, granted, accepted, ahead>>
  BY DEF Cancel
<1>. HIDE DEF next
<1>6. CASE runs[r].state = "queued"
  <2>1. next.state = "cancelled" /\ is_terminal(next.state) /\ next.state \in Terminals
    BY <1>2, <1>6 DEF is_terminal, RunState, Terminals
  <2>2. write_terminal(r, next, extra)
    BY <1>4, <2>1
  <2>3. Open(r) /\ extra \in SUBSET {Event("cancel_requested")}
    BY <1>6 DEF Open
  <2>4. TypeOK
    BY DEF IInv
  <2>. HIDE DEF extra
  <2>5. Ends(r)
    BY <1>2, <1>5, <2>1, <2>2, <2>3, <2>4, WriteTerminalEnds
  <2>. QED BY <2>5
<1>7. CASE runs[r].state = "running"
  <2>1. next.state = "running" /\ ~is_terminal(next.state)
    BY <1>2, <1>7 DEF is_terminal
  <2>2. /\ runs' = [runs EXCEPT ![r] = next]
        /\ committed' = [committed EXCEPT ![r] = @ \cup extra]
        /\ UNCHANGED message
    BY <1>4, <2>1
  <2>3. WritesRow(r) /\ runs'[r] = next
    BY <1>1, <1>2, <2>2 DEF WritesRow
  <2>4. extra \subseteq Events \ ({Event(k) : k \in Terminals}
                                 \cup {ToolEvent("tool_unknown", t) : t \in Tools})
    <3>1. Event("cancel_requested") \in Events
      BY EventsTyped DEF PlainKinds
    <3>2. \A k \in Terminals : Event("cancel_requested") # Event(k)
      BY EventsDiffer DEF Terminals
    <3>3. \A t \in Tools : ToolEvent("tool_unknown", t) # Event("cancel_requested")
      BY EventsDiffer
    <3>. QED BY <3>1, <3>2, <3>3
  <2>. HIDE DEF extra
  <2>. QED BY <1>2, <1>5, <1>7, <2>1, <2>2, <2>3, <2>4 DEF Advances
<1>. QED BY <1>3, <1>6, <1>7

(* The owner's finish ends its turn. *)
LEMMA FinishEnds ==
    ASSUME IInv, NEW lease \in granted, NEW now \in Times, NEW state \in Finalizable,
           Finish(lease, now, state)
    PROVE  lease.run \in Runs /\ Ends(lease.run)
<1>. DEFINE r == lease.run
            st == IF runs[r].cancel THEN "cancelled" ELSE state
            next == plan_finalize(runs[r], state)
<1>1. r \in Runs /\ runs[r] \in RunRows /\ TypeOK
  BY DEF IInv, TypeOK, Leases
<1>2. runs[r].state = "running"
  BY DEF Finish, owned, validate_ownership
<1>3. st \in RunState /\ st \in Terminals
  BY DEF Finalizable, RunState, Terminals
<1>4. next = terminal(runs[r], st)
  BY DEF plan_finalize
<1>5. Event("cancel_requested") \in committed[r] => st = "cancelled" /\ runs[r].cancel
  BY <1>1 DEF IInv, CancelWins
<1>6. write_terminal(r, next, {}) /\ UNCHANGED <<context, access, granted, accepted, ahead>>
  BY DEF Finish
<1>. HIDE DEF r, st, next
<1>7. /\ next \in RunRows /\ SameTurn(next, runs[r]) /\ next.state = st
      /\ next.cancel = runs[r].cancel /\ next.fence = runs[r].fence
  BY <1>1, <1>3, <1>4, TerminalRow
<1>8. Open(r) /\ next.state \in Terminals /\ {} \in SUBSET {Event("cancel_requested")}
  BY <1>2, <1>3, <1>7 DEF Open
<1>9. Event("cancel_requested") \in committed[r] \cup {} =>
          next.cancel /\ next.state = "cancelled"
  BY <1>5, <1>7
<1>10. Ends(r)
  BY <1>1, <1>6, <1>7, <1>8, <1>9, WriteTerminalEnds
<1>. QED BY <1>1, <1>10 DEF r

(* Recovery ends the turn it finds expired or unauthorized. *)
LEMMA ExpireEnds ==
    ASSUME IInv, NEW r \in Runs, NEW now \in Times, Expire(r, now)
    PROVE  Ends(r)
<1>1. runs[r] \in RunRows /\ TypeOK
  BY DEF IInv, TypeOK
<1>2. Event("cancel_requested") \in committed[r] =>
          runs[r].cancel /\ runs[r].state \in {"running", "cancelled"}
  BY DEF IInv, CancelWins
<1>3. PICK st \in Terminals :
          /\ Open(r)
          /\ Event("cancel_requested") \in committed[r] => st = "cancelled"
          /\ write_terminal(r, terminal(runs[r], st), {})
  <2>1. CASE /\ runs[r].state = "queued"
             /\ write_terminal(r, plan_interrupt_queued(runs[r]), {})
    <3>1. write_terminal(r, terminal(runs[r], "interrupted"), {})
      BY <2>1 DEF plan_interrupt_queued
    <3>2. Open(r) /\ Event("cancel_requested") \notin committed[r]
      BY <1>2, <2>1 DEF Open
    <3>. QED BY <3>1, <3>2 DEF Terminals
  <2>2. CASE /\ expired(runs[r], now)
             /\ write_terminal(r, plan_expire(runs[r]), {})
    <3>1. CASE runs[r].cancel
      <4>1. write_terminal(r, terminal(runs[r], "cancelled"), {})
        BY <2>2, <3>1 DEF plan_expire
      <4>. QED BY <2>2, <4>1 DEF Terminals, expired, Open
    <3>2. CASE ~runs[r].cancel
      <4>1. write_terminal(r, terminal(runs[r], "interrupted"), {})
        BY <2>2, <3>2 DEF plan_expire
      <4>. QED BY <1>2, <2>2, <3>2, <4>1 DEF Terminals, expired, Open
    <3>. QED BY <3>1, <3>2
  <2>. QED BY <2>1, <2>2 DEF Expire
<1>. DEFINE next == terminal(runs[r], st)
<1>4. write_terminal(r, next, {}) /\ UNCHANGED <<context, access, granted, accepted, ahead>>
  BY <1>3 DEF Expire
<1>5. /\ next \in RunRows /\ SameTurn(next, runs[r]) /\ next.state = st
      /\ next.cancel = runs[r].cancel /\ next.fence = runs[r].fence
  <2>1. st \in RunState
    BY DEF RunState, Terminals
  <2>. QED BY <1>1, <2>1, TerminalRow
<1>. HIDE DEF next
<1>6. /\ next.state \in Terminals /\ {} \in SUBSET {Event("cancel_requested")}
      /\ Event("cancel_requested") \in committed[r] \cup {} =>
             next.cancel /\ next.state = "cancelled"
  BY <1>2, <1>3, <1>5
<1>. QED BY <1>1, <1>3, <1>4, <1>5, <1>6, WriteTerminalEnds

(* Steps that write no row, event, message or lease preserve the invariant. *)
LEMMA FrameIInv ==
    ASSUME IInv, UNCHANGED <<runs, committed, message, context, granted, ahead>>,
           access' \subseteq Actors \X Conversations,
           \/ UNCHANGED accepted
           \/ \E c \in Conversations, a \in Actors, q \in Requests : Resubmit(c, a, q)
    PROVE  IInv'
<1>1. /\ accepted' \in [Actors \X Requests -> SUBSET Runs]
      /\ \A p \in Actors \X Requests : \A r \in accepted'[p] :
             r \in Runs /\ Exists(r) /\ p = <<runs[r].actor, runs[r].request>>
  <2>1. /\ accepted \in [Actors \X Requests -> SUBSET Runs]
        /\ \A p \in Actors \X Requests : \A r \in accepted[p] :
               r \in Runs /\ Exists(r) /\ p = <<runs[r].actor, runs[r].request>>
    BY DEF IInv, TypeOK, RequestsSound
  <2>2. ASSUME NEW a \in Actors, NEW q \in Requests, NEW r \in existing(a, q),
               accepted' = [accepted EXCEPT ![<<a, q>>] = @ \cup {r}]
        PROVE  /\ accepted' \in [Actors \X Requests -> SUBSET Runs]
               /\ \A p \in Actors \X Requests : \A s \in accepted'[p] :
                      s \in Runs /\ Exists(s) /\ p = <<runs[s].actor, runs[s].request>>
    <3>1. r \in Runs /\ Exists(r) /\ runs[r].actor = a /\ runs[r].request = q
      BY DEF existing
    <3>2. \A p \in Actors \X Requests : \A s \in accepted'[p] :
              s \in accepted[p] \/ (s = r /\ p = <<a, q>>)
      BY <2>1, <2>2
    <3>. QED BY <2>1, <2>2, <3>1, <3>2
  <2>. QED BY <2>1, <2>2 DEF Resubmit
<1>2. TypeOK'
  BY <1>1 DEF IInv, TypeOK
<1>3. RequestsSound'
  BY <1>1 DEF IInv, RequestsSound, Exists
<1>4. RowsSound' /\ LeasesSound' /\ AheadSound'
  BY DEF IInv, RowsSound, LeasesSound, AheadSound, Exists
<1>5. OneRunning' /\ CancelWins' /\ ToolsSettled' /\ QueueOrder' /\ ContextSettled'
  BY DEF IInv, OneRunning, CancelWins, ToolsSettled, QueueOrder, ContextSettled, Before
<1>6. ProjectionAgrees'
  BY DEF IInv, ProjectionAgrees, Open
<1>. QED BY <1>2, <1>3, <1>4, <1>5, <1>6 DEF IInv

(* Every step of the store preserves the invariant. *)
LEMMA NextIInv == IInv /\ [Next]_vars => IInv'
<1>. SUFFICES ASSUME IInv, [Next]_vars PROVE IInv'
  OBVIOUS
<1>1. ASSUME NEW r \in Runs, NEW c \in Conversations, NEW a \in Actors, NEW q \in Requests,
             NEW at \in Times, Submit(r, c, a, q, at)
      PROVE  IInv'
  BY <1>1, SubmitIInv
<1>2. ASSUME NEW c \in Conversations, NEW a \in Actors, NEW q \in Requests, Resubmit(c, a, q)
      PROVE  IInv'
  <2>1. UNCHANGED <<runs, committed, message, context, access, granted, ahead>>
    BY <1>2 DEF Resubmit
  <2>2. access' \subseteq Actors \X Conversations
    BY <2>1 DEF IInv, TypeOK
  <2>. QED BY <1>2, <2>1, <2>2, FrameIInv
<1>3. ASSUME NEW r \in Runs, NEW w \in Workers, NEW now \in Times, Claim(r, w, now)
      PROVE  IInv'
  BY <1>3, ClaimIInv
<1>4. ASSUME NEW lease \in granted, NEW now \in Times,
             \/ Heartbeat(lease, now)
             \/ \E e \in ExecutionEvents : FencedEvent(lease, now, e)
      PROVE  IInv'
  BY <1>4, OwnerAdvances, AdvancesIInv
<1>5. ASSUME NEW r \in Runs, Cancel(r)
      PROVE  IInv'
  BY <1>5, CancelSteps, EndsIInv, AdvancesIInv
<1>6. ASSUME NEW lease \in granted, NEW now \in Times, NEW state \in Finalizable,
             Finish(lease, now, state)
      PROVE  IInv'
  BY <1>6, FinishEnds, EndsIInv
<1>7. ASSUME NEW r \in Runs, NEW now \in Times, Expire(r, now)
      PROVE  IInv'
  BY <1>7, ExpireEnds, EndsIInv
<1>8. ASSUME NEW a \in Actors, NEW c \in Conversations, Revoke(a, c) \/ Restore(a, c)
      PROVE  IInv'
  <2>1. UNCHANGED <<runs, committed, message, context, granted, accepted, ahead>>
    BY <1>8 DEF Revoke, Restore
  <2>2. access' \subseteq Actors \X Conversations
    BY <1>8 DEF Revoke, Restore, IInv, TypeOK
  <2>. QED BY <2>1, <2>2, FrameIInv
<1>9. CASE UNCHANGED vars
  <2>1. UNCHANGED <<runs, committed, message, context, access, granted, accepted, ahead>>
    BY <1>9 DEF vars
  <2>2. access' \subseteq Actors \X Conversations
    BY <2>1 DEF IInv, TypeOK
  <2>. QED BY <2>1, <2>2, FrameIInv
<1>. QED BY <1>1, <1>2, <1>3, <1>4, <1>5, <1>6, <1>7, <1>8, <1>9 DEF Next

(* The inductive invariant holds in every reachable state of the store. *)
THEOREM StoreInvariant == Spec => []IInv
<1>. QED BY InitIInv, NextIInv, PTL DEF Spec

(* Every row, event, message status and lease keeps its type. *)
THEOREM Typed == Spec => []TypeOK
<1>1. IInv => TypeOK
  BY DEF IInv
<1>. QED BY <1>1, StoreInvariant, PTL

(* Claims of one conversation exclude each other. *)
THEOREM MutualExclusion == Spec => []OneRunning
<1>1. IInv => OneRunning
  BY DEF IInv
<1>. QED BY <1>1, StoreInvariant, PTL

(* Expired work is never handed to a second execution. *)
THEOREM AtMostOneExecution == Spec => []NeverReclaimed
<1>1. IInv => NeverReclaimed
  BY DEF IInv, RowsSound, LeasesSound, NeverReclaimed
<1>. QED BY <1>1, StoreInvariant, PTL

(* A cancel request that was committed decides how the turn ends. *)
THEOREM CancellationDecides == Spec => []CancelWins
<1>1. IInv => CancelWins
  BY DEF IInv
<1>. QED BY <1>1, StoreInvariant, PTL

(* The row, the journal and the message agree on how a turn ended. *)
THEOREM RecordsAgree == Spec => []ProjectionAgrees
<1>1. IInv => ProjectionAgrees
  BY DEF IInv
<1>. QED BY <1>1, StoreInvariant, PTL

(* No tool call of a finished turn is left in doubt or settled twice. *)
THEOREM NoToolInDoubt == Spec => []ToolsSettled
<1>1. IInv => ToolsSettled
  BY DEF IInv
<1>. QED BY <1>1, StoreInvariant, PTL

(* No turn runs over the head of an earlier one in its queue. *)
THEOREM QueueKept == Spec => []QueueOrder
<1>1. IInv => QueueOrder
  BY DEF IInv
<1>. QED BY <1>1, StoreInvariant, PTL

(* A prompt is built from finished turns only. *)
THEOREM PromptSettled == Spec => []ContextSettled
<1>1. IInv => ContextSettled
  BY DEF IInv
<1>. QED BY <1>1, StoreInvariant, PTL

(* All answers to one client request name one run. *)
THEOREM RequestsIdempotent == Spec => []OneRunPerRequest
<1>1. IInv => OneRunPerRequest
  <2>. SUFFICES ASSUME IInv, NEW p \in Actors \X Requests,
                       NEW r \in accepted[p], NEW s \in accepted[p]
                PROVE  r = s
    BY DEF OneRunPerRequest
  <2>1. r \in Runs /\ s \in Runs
    BY DEF IInv, TypeOK
  <2>2. /\ Exists(r) /\ Exists(s)
        /\ p = <<runs[r].actor, runs[r].request>> /\ p = <<runs[s].actor, runs[s].request>>
    BY DEF IInv, RequestsSound
  <2>3. runs[r].actor = runs[s].actor /\ runs[r].request = runs[s].request
    BY <2>2
  <2>. QED BY <2>1, <2>2, <2>3 DEF IInv, RequestsSound
<1>. QED BY <1>1, StoreInvariant, PTL

(* Each step touches at most one turn, and that turn was not finished. *)
LEMMA OnlyOpenTurns ==
    ASSUME IInv, [Next]_vars, NEW r \in Runs, is_terminal(runs[r].state)
    PROVE  runs'[r] = runs[r] /\ committed'[r] = committed[r] /\ message'[r] = message[r]
<1>1. /\ runs \in [Runs -> RunRows]
      /\ committed \in [Runs -> SUBSET Events]
      /\ message \in [Runs -> MessageStatus]
  BY DEF IInv, TypeOK
<1>2. runs[r].state \notin {"none", "queued", "running"}
  BY DEF is_terminal, RunState
<1>3. ASSUME NEW x \in Runs, Ends(x) \/ Advances(x)
      PROVE  runs'[r] = runs[r] /\ committed'[r] = committed[r] /\ message'[r] = message[r]
  <2>1. x # r
    BY <1>2, <1>3 DEF Ends, Advances, Open
  <2>. QED BY <1>1, <1>3, <2>1 DEF Ends, Advances, WritesRow
<1>4. ASSUME NEW x \in Runs, NEW c \in Conversations, NEW a \in Actors, NEW q \in Requests,
             NEW at \in Times, Submit(x, c, a, q, at)
      PROVE  runs'[r] = runs[r] /\ committed'[r] = committed[r] /\ message'[r] = message[r]
  <2>1. x # r
    BY <1>2, <1>4 DEF Submit, Exists
  <2>. QED BY <1>1, <1>4, <2>1 DEF Submit
<1>5. ASSUME NEW x \in Runs, NEW w \in Workers, NEW now \in Times, Claim(x, w, now)
      PROVE  runs'[r] = runs[r] /\ committed'[r] = committed[r] /\ message'[r] = message[r]
  <2>1. x # r
    BY <1>2, <1>5 DEF Claim, claimable
  <2>. QED BY <1>1, <1>5, <2>1 DEF Claim
<1>6. ASSUME UNCHANGED <<runs, committed, message>>
      PROVE  runs'[r] = runs[r] /\ committed'[r] = committed[r] /\ message'[r] = message[r]
  BY <1>6
<1>7. ASSUME NEW lease \in granted, NEW now \in Times,
             \/ Heartbeat(lease, now)
             \/ \E e \in ExecutionEvents : FencedEvent(lease, now, e)
             \/ \E state \in Finalizable : Finish(lease, now, state)
      PROVE  runs'[r] = runs[r] /\ committed'[r] = committed[r] /\ message'[r] = message[r]
  BY <1>3, <1>7, OwnerAdvances, FinishEnds
<1>8. ASSUME NEW x \in Runs, Cancel(x) \/ \E now \in Times : Expire(x, now)
      PROVE  runs'[r] = runs[r] /\ committed'[r] = committed[r] /\ message'[r] = message[r]
  BY <1>3, <1>8, CancelSteps, ExpireEnds
<1>9. ASSUME \/ \E c \in Conversations, a \in Actors, q \in Requests : Resubmit(c, a, q)
             \/ \E a \in Actors, c \in Conversations : Revoke(a, c) \/ Restore(a, c)
             \/ UNCHANGED vars
      PROVE  UNCHANGED <<runs, committed, message>>
  BY <1>9 DEF Resubmit, Revoke, Restore, vars
<1>. QED BY <1>4, <1>5, <1>6, <1>7, <1>8, <1>9 DEF Next

(* Nothing changes a turn that has ended. *)
THEOREM EndedTurnsFrozen == Spec => TerminalFrozen
<1>1. IInv /\ [Next]_vars =>
          [\A r \in Runs : is_terminal(runs[r].state) =>
              /\ runs'[r] = runs[r]
              /\ committed'[r] = committed[r]
              /\ message'[r] = message[r]]_vars
  BY OnlyOpenTurns
<1>. QED BY <1>1, StoreInvariant, PTL DEF Spec, TerminalFrozen
=============================================================================
