------------------------- MODULE ConversationStore --------------------------
(***************************************************************************)
(* The durable conversation store (crates/kyomi-auth, conversation_events) *)
(* shared by every API replica and every worker.                           *)
(*                                                                         *)
(* Each operation is one database transaction that holds the session row   *)
(* (PostgreSQL) or the write reservation (SQLite) from its first read to   *)
(* its commit, so one operation is one action and a failed one changes     *)
(* nothing.  An operation reads the wall clock of the replica that calls   *)
(* it: clocks are neither synchronized nor monotonic, so `now' is an input *)
(* of every action that takes it.  The same goes for submitted_at, which   *)
(* the API replica reads before it waits for the lock.                     *)
(*                                                                         *)
(* The journal is kept as the set of events committed for each run: the    *)
(* unique idempotency keys make an event of a run unrepeatable.  The order *)
(* in which readers see events is the subject of ConversationReads.        *)
(***************************************************************************)
EXTENDS RunLifecycle, FiniteSets

CONSTANTS
    Runs,           \* run ids; integers, for their lexical order
    Conversations,
    Actors,
    Requests,       \* client request ids
    Workers,        \* lease owners: one per worker process incarnation
    Tools,          \* tool call ids of a run
    Times,          \* values a replica's clock can show
    TTL             \* length of a lease

ASSUME StoreAssumption ==
    /\ Runs \subseteq Int
    /\ Times \subseteq Int
    /\ TTL \in Nat \ {0}
    /\ None \notin Workers \cup Tools \cup Conversations \cup Actors \cup Requests

VARIABLES
    runs,       \* conversation_runs: one row per accepted run
    committed,  \* conversation_events: the events of each run
    message,    \* status of the assistant message of each run
    context,    \* turns loaded into the prompt of each run by its claim
    access,     \* <<actor, conversation>> pairs that pass the authorization check
    granted,    \* leases returned by claims, still in some worker's hands
    accepted,   \* runs returned to the client for each <<actor, request>>
    ahead       \* turns of the conversation still open when the run was accepted

vars == <<runs, committed, message, context, access, granted, accepted, ahead>>

-----------------------------------------------------------------------------
Terminals == {"completed", "failed", "cancelled", "interrupted"}

(* Events without a tool, and the events of a tool call.  "record" stands  *)
(* for the owner's other events: provider responses, usage, planning, tool *)
(* intents and recorded messages.                                         *)
PlainKinds == {"submitted", "queued", "started", "cancel_requested", "record"} \cup Terminals
ToolKinds == {"tool_started", "tool_outcome", "tool_unknown"}

Event(kind) == [kind |-> kind, tool |-> None]
ToolEvent(kind, t) == [kind |-> kind, tool |-> t]

Events == [kind : PlainKinds, tool : {None}] \cup [kind : ToolKinds, tool : Tools]

(* What the executor of a run commits through its sink. *)
ExecutionEvents ==
    {Event("record")} \cup [kind : {"tool_started", "tool_outcome"}, tool : Tools]

MessageStatus == {"none", "in_progress", "complete", "error", "cancelled", "interrupted"}

projection_status_raw(state) == state                  \* bug: the run state is stored as is

projection_status(state) ==
    CASE state = "completed" -> "complete"
      [] state = "failed"    -> "error"
      [] OTHER               -> state

Leases == [run : Runs, owner : Workers, fence : Nat]

NoRun == [state |-> "none", conv |-> None, actor |-> None, request |-> None,
          queued_at |-> 0, cancel |-> FALSE, fence |-> 0, owner |-> None, expires |-> 0]

Exists(r) == runs[r].state # "none"
Open(r) == runs[r].state \in {"queued", "running"}

(* Queue position: (queued_at, run_id), lexicographically. *)
Before(r, s) ==
    \/ runs[r].queued_at < runs[s].queued_at
    \/ runs[r].queued_at = runs[s].queued_at /\ r < s

Turns(c) == {r \in Runs : Exists(r) /\ runs[r].conv = c}

authorized(r) == <<runs[r].actor, runs[r].conv>> \in access

(* A tool call with a committed start and no receipt. *)
Uncertain(r) ==
    {t \in Tools : /\ ToolEvent("tool_started", t) \in committed[r]
                   /\ ToolEvent("tool_outcome", t) \notin committed[r]
                   /\ ToolEvent("tool_unknown", t) \notin committed[r]}

-----------------------------------------------------------------------------
(* A terminal plan is committed with the outcome Unknown of every tool     *)
(* call in doubt, the terminal event and the assistant's message.          *)
write_terminal_forgets_tools(r, next, extra) ==        \* bug: calls in doubt stay in doubt
    /\ message[r] = "in_progress"
    /\ runs' = [runs EXCEPT ![r] = next]
    /\ committed' = [committed EXCEPT ![r] = @ \cup extra \cup {Event(next.state)}]
    /\ message' = [message EXCEPT ![r] = projection_status(next.state)]

write_terminal_forgets_message(r, next, extra) ==      \* bug: the placeholder is left behind
    /\ runs' = [runs EXCEPT ![r] = next]
    /\ committed' = [committed EXCEPT ![r] = @ \cup extra \cup {Event(next.state)}]
    /\ UNCHANGED message

write_terminal(r, next, extra) ==
    /\ message[r] = "in_progress"
    /\ runs' = [runs EXCEPT ![r] = next]
    /\ committed' = [committed EXCEPT ![r] =
           @ \cup extra
             \cup {ToolEvent("tool_unknown", t) : t \in Uncertain(r)}
             \cup {Event(next.state)}]
    /\ message' = [message EXCEPT ![r] = projection_status(next.state)]

Init ==
    /\ runs = [r \in Runs |-> NoRun]
    /\ committed = [r \in Runs |-> {}]
    /\ message = [r \in Runs |-> "none"]
    /\ context = [r \in Runs |-> {}]
    /\ access = Actors \X Conversations
    /\ granted = {}
    /\ accepted = [p \in Actors \X Requests |-> {}]
    /\ ahead = [r \in Runs |-> {}]

(* The row that an actor's earlier attempt at this request left behind. *)
existing_open(a, q) ==                                 \* bug: only open runs are looked up
    {r \in Runs : Open(r) /\ runs[r].actor = a /\ runs[r].request = q}

existing(a, q) == {r \in Runs : Exists(r) /\ runs[r].actor = a /\ runs[r].request = q}

queued_row(c, a, q, submitted_at) ==
    [state |-> "queued", conv |-> c, actor |-> a, request |-> q,
     queued_at |-> submitted_at, cancel |-> FALSE, fence |-> 0, owner |-> None,
     expires |-> 0]

(* Accept a turn: the Submitted and Queued events, the user's message, the *)
(* assistant's empty in_progress message and the queued row.               *)
Submit(r, c, a, q, submitted_at) ==
    /\ ~Exists(r)
    /\ existing(a, q) = {}
    /\ <<a, c>> \in access
    /\ runs' = [runs EXCEPT ![r] = queued_row(c, a, q, submitted_at)]
    /\ committed' = [committed EXCEPT ![r] = {Event("submitted"), Event("queued")}]
    /\ message' = [message EXCEPT ![r] = "in_progress"]
    /\ accepted' = [accepted EXCEPT ![<<a, q>>] = @ \cup {r}]
    /\ ahead' = [ahead EXCEPT ![r] = {s \in Turns(c) : Open(s)}]
    /\ UNCHANGED <<context, access, granted>>

(* A retry of an accepted request is answered with the stored run.  A      *)
(* retry that names another conversation is a conflict and gets no answer. *)
Resubmit(c, a, q) ==
    \E r \in existing(a, q) :
        /\ authorized(r)
        /\ runs[r].conv = c
        /\ accepted' = [accepted EXCEPT ![<<a, q>>] = @ \cup {r}]
        /\ UNCHANGED <<runs, committed, message, context, access, granted, ahead>>

(* Turns whose messages the claim loads: all but its own and later ones. *)
claimed_context(r) == {s \in Turns(runs[r].conv) : s # r /\ ~Before(r, s)}

conversation_active_skips_running(r) ==                \* bug: only the queue is looked at
    \E s \in Turns(runs[r].conv) : runs[s].state = "queued" /\ Before(s, r)

conversation_active_skips_queue(r) ==                  \* bug: only the running run is looked at
    \E s \in Turns(runs[r].conv) : runs[s].state = "running"

conversation_active(r) ==
    \E s \in Turns(runs[r].conv) :
        runs[s].state = "running" \/ (runs[s].state = "queued" /\ Before(s, r))

Claim(r, w, now) ==
    /\ Exists(r)
    /\ authorized(r)
    /\ claimable(runs[r])
    /\ ~conversation_active(r)
    /\ LET next == plan_claim(runs[r], w, now, TTL)
       IN  /\ runs' = [runs EXCEPT ![r] = next]
           /\ granted' = granted \cup {[run |-> r, owner |-> w, fence |-> next.fence]}
    /\ committed' = [committed EXCEPT ![r] = @ \cup {Event("started")}]
    /\ context' = [context EXCEPT ![r] = claimed_context(r)]
    /\ UNCHANGED <<message, access, accepted, ahead>>

(* The check every operation of an owner makes under the session lock. *)
owned(lease, now) ==
    /\ authorized(lease.run)
    /\ validate_ownership(runs[lease.run], lease, now)

Heartbeat(lease, now) ==
    /\ owned(lease, now)
    /\ runs' = [runs EXCEPT ![lease.run] = plan_heartbeat(@, now, TTL)]
    /\ UNCHANGED <<committed, message, context, access, granted, accepted, ahead>>

Cancel(r) ==
    /\ Exists(r)
    /\ authorized(r)
    /\ cancel_changes(runs[r])
    /\ LET next == plan_cancel(runs[r])
       IN  IF is_terminal(next.state)
           THEN write_terminal(r, next, {Event("cancel_requested")})
           ELSE /\ runs' = [runs EXCEPT ![r] = next]
                /\ committed' = [committed EXCEPT ![r] = @ \cup {Event("cancel_requested")}]
                /\ UNCHANGED message
    /\ UNCHANGED <<context, access, granted, accepted, ahead>>

Finish(lease, now, state) ==
    /\ owned(lease, now)
    /\ write_terminal(lease.run, plan_finalize(runs[lease.run], state), {})
    /\ UNCHANGED <<context, access, granted, accepted, ahead>>

(* Recovery needs no authorization: it ends queued work whose actor lost   *)
(* access, and running work whose lease ran out.                           *)
Expire(r, now) ==
    /\ Exists(r)
    /\ \/ /\ runs[r].state = "queued"
          /\ ~authorized(r)
          /\ write_terminal(r, plan_interrupt_queued(runs[r]), {})
       \/ /\ expired(runs[r], now)
          /\ write_terminal(r, plan_expire(runs[r]), {})
    /\ UNCHANGED <<context, access, granted, accepted, ahead>>

(* An event of the executor.  A repeated one returns the first receipt and *)
(* a second outcome of a tool call is a conflict: neither changes a row.   *)
FencedEvent(lease, now, e) ==
    /\ owned(lease, now)
    /\ e \notin committed[lease.run]
    /\ committed' = [committed EXCEPT ![lease.run] = @ \cup {e}]
    /\ UNCHANGED <<runs, message, context, access, granted, accepted, ahead>>

(* Membership, account status and sharing change under the store. *)
Revoke(a, c) ==
    /\ <<a, c>> \in access
    /\ access' = access \ {<<a, c>>}
    /\ UNCHANGED <<runs, committed, message, context, granted, accepted, ahead>>

Restore(a, c) ==
    /\ <<a, c>> \notin access
    /\ access' = access \cup {<<a, c>>}
    /\ UNCHANGED <<runs, committed, message, context, granted, accepted, ahead>>

Next ==
    \/ \E r \in Runs, c \in Conversations, a \in Actors, q \in Requests, at \in Times :
           Submit(r, c, a, q, at)
    \/ \E c \in Conversations, a \in Actors, q \in Requests : Resubmit(c, a, q)
    \/ \E r \in Runs, w \in Workers, now \in Times : Claim(r, w, now)
    \/ \E lease \in granted, now \in Times : Heartbeat(lease, now)
    \/ \E r \in Runs : Cancel(r)
    \/ \E lease \in granted, now \in Times, state \in Finalizable : Finish(lease, now, state)
    \/ \E r \in Runs, now \in Times : Expire(r, now)
    \/ \E lease \in granted, now \in Times, e \in ExecutionEvents : FencedEvent(lease, now, e)
    \/ \E a \in Actors, c \in Conversations : Revoke(a, c) \/ Restore(a, c)

Spec == Init /\ [][Next]_vars

-----------------------------------------------------------------------------
RunRows ==
    [state : RunState \cup {"none"}, conv : Conversations \cup {None},
     actor : Actors \cup {None}, request : Requests \cup {None}, queued_at : Int,
     cancel : BOOLEAN, fence : Nat, owner : Workers \cup {None}, expires : Int]

(* Every row, event, message status and lease has its type. *)
TypeOK ==
    /\ runs \in [Runs -> RunRows]
    /\ committed \in [Runs -> SUBSET Events]
    /\ message \in [Runs -> MessageStatus]
    /\ context \in [Runs -> SUBSET Runs]
    /\ access \subseteq Actors \X Conversations
    /\ granted \subseteq Leases
    /\ accepted \in [Actors \X Requests -> SUBSET Runs]
    /\ ahead \in [Runs -> SUBSET Runs]

(* A conversation has at most one running turn, whatever the clocks of the *)
(* replicas show and whichever claims race for it.                         *)
OneRunning ==
    \A r, s \in Runs :
        /\ runs[r].state = "running"
        /\ runs[s].state = "running"
        /\ runs[r].conv = runs[s].conv
        => r = s

(* No run is ever handed to a second model execution: the fence never      *)
(* passes 1, a queued run has never been claimed, and of all the leases    *)
(* handed out for a run only one names it.                                 *)
NeverReclaimed ==
    /\ \A r \in Runs : /\ runs[r].fence \in {0, 1}
                       /\ runs[r].state \in {"none", "queued"} => runs[r].fence = 0
    /\ \A k, l \in granted : k.run = l.run => k = l

(* A cancellation that reached the journal decides how the turn ends: the  *)
(* owner's completion and the expiry of its lease come too late.           *)
CancelWins ==
    \A r \in Runs :
        Event("cancel_requested") \in committed[r] =>
            /\ runs[r].state \in {"running", "cancelled"}
            /\ runs[r].cancel

(* The three records of how a turn ended agree at all times: the row, the  *)
(* one terminal event in the journal and the assistant's message.  An open *)
(* turn has an in_progress message and no terminal event.                  *)
ProjectionAgrees ==
    \A r \in Runs :
        /\ {k \in Terminals : Event(k) \in committed[r]} =
               IF is_terminal(runs[r].state) THEN {runs[r].state} ELSE {}
        /\ Open(r) <=> message[r] = "in_progress"
        /\ is_terminal(runs[r].state) => message[r] = projection_status(runs[r].state)

(* When a turn ends, every tool call that was started has exactly one      *)
(* outcome in the journal: the one its executor committed, or Unknown.     *)
ToolsSettled ==
    \A r \in Runs : is_terminal(runs[r].state) =>
        \A t \in Tools : ToolEvent("tool_started", t) \in committed[r] =>
            (ToolEvent("tool_outcome", t) \in committed[r])
                # (ToolEvent("tool_unknown", t) \in committed[r])

(* A running turn was not started over the head of an open turn that stood *)
(* before it in the queue when it was accepted.                            *)
QueueOrder ==
    \A r \in Runs : runs[r].state = "running" =>
        \A s \in ahead[r] : Before(s, r) => is_terminal(runs[s].state)

(* A turn is answered in the light of finished turns only: nothing in the  *)
(* prompt that its claim loaded can still change.                          *)
ContextSettled ==
    \A r \in Runs : \A s \in context[r] : is_terminal(runs[s].state)

(* Retries of one client request are all answered with one run. *)
OneRunPerRequest ==
    \A p \in Actors \X Requests : \A r, s \in accepted[p] : r = s

(* Once a turn has ended, nobody who still holds its lease, and no later   *)
(* cancel, finish or expiry, changes its row, its events or its message.   *)
TerminalFrozen ==
    [][\A r \in Runs : is_terminal(runs[r].state) =>
          /\ runs'[r] = runs[r]
          /\ committed'[r] = committed[r]
          /\ message'[r] = message[r]]_vars
=============================================================================
