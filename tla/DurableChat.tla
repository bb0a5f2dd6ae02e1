---------------------------- MODULE DurableChat -----------------------------
(***************************************************************************)
(* The workers that execute accepted turns (crates/kyomi-agent,            *)
(* durable_chat; crates/agent-runtime, execution) over the store they      *)
(* share.                                                                  *)
(*                                                                         *)
(* A worker is one incarnation of the scanner of an API process: `start'   *)
(* gives each one a fresh owner id.  It scans the store for rows it can    *)
(* claim or expire, and runs one task for each in one of MAX_ACTIVE slots. *)
(* A task claims the run, asks the provider, calls tools, and finishes,    *)
(* while a heartbeat runs beside it.  Between any two of these steps the   *)
(* process can die, the task can panic, the lease can run out, the user    *)
(* can cancel and the actor can lose access.                               *)
(*                                                                         *)
(* Time is relative to the present: every operation sees the time 0, and   *)
(* Tick brings every expiry nearer.  (Clocks that disagree are the subject *)
(* of ConversationStore itself.)                                           *)
(***************************************************************************)
EXTENDS ConversationStore

CONSTANTS
    Slots,          \* as many as MAX_ACTIVE
    MaxCalls,       \* bound: tool calls of one task (max_iterations)
    MaxFaults       \* bound: crashes, panics and storage failures

ASSUME WorkerAssumption ==
    /\ Slots # {}
    /\ MaxCalls \in Nat
    /\ MaxFaults \in Nat
    /\ 0 \notin Runs
    /\ 0 \in Times

VARIABLES
    started,        \* incarnations that have been started
    live,           \* the ones still running
    active,         \* run ids each scanner believes it has a task for
    task,           \* the task in each slot of each worker
    executed,       \* how often each tool call was really invoked
    delivered,      \* what was pushed to the client about each run
    faults

workers == <<started, live, active, task, executed, delivered, faults>>
all == <<vars, workers>>

-----------------------------------------------------------------------------
Driven == {"model", "call", "start", "execute", "outcome", "finish"}

Free == [phase |-> "free", run |-> 0, fence |-> 0, tool |-> None, attempt |-> 0,
         calls |-> 0, result |-> "none"]

Spawned(phase, r) == [Free EXCEPT !.phase = phase, !.run = r]

lease(w, i) == [run |-> task[w][i].run, owner |-> w, fence |-> task[w][i].fence]

Set(w, i, t) == task' = [task EXCEPT ![w][i] = t]
Goto(w, i, phase) == Set(w, i, [task[w][i] EXCEPT !.phase = phase, !.attempt = 0])
Conclude(w, i, result) ==
    Set(w, i, [task[w][i] EXCEPT !.phase = "finish", !.attempt = 0, !.result = result])

Fault == faults < MaxFaults /\ faults' = faults + 1

(* A sink commit that reaches the store: the event is in the journal,      *)
(* whether or not it was there before.                                     *)
Committed(w, i, e) ==
    /\ owned(lease(w, i), 0)
    /\ committed' = [committed EXCEPT ![task[w][i].run] = @ \cup {e}]
    /\ UNCHANGED <<runs, message, context, access, granted, accepted, ahead>>

Refused(w, i) == ~owned(lease(w, i), 0) /\ UNCHANGED vars

(* Storage is unavailable: the commit may or may not have taken effect.    *)
(* The sink tries again, twice, and then gives up.                         *)
Unavailable(w, i, e) ==
    /\ Fault
    /\ Committed(w, i, e) \/ UNCHANGED vars
    /\ IF task[w][i].attempt < 2
       THEN Set(w, i, [task[w][i] EXCEPT !.attempt = @ + 1])
       ELSE Conclude(w, i, "failed")

WInit ==
    /\ Init
    /\ started = {}
    /\ live = {}
    /\ active = [w \in Workers |-> {}]
    /\ task = [w \in Workers |-> [i \in Slots |-> Free]]
    /\ executed = [r \in Runs |-> [t \in Tools |-> 0]]
    /\ delivered = [r \in Runs |-> {}]
    /\ faults = 0

-----------------------------------------------------------------------------
(* The scanner. *)
discovered_claimable_only(r) ==                        \* bug: a row nobody may claim is skipped
    \/ expired(runs[r], 0)
    \/ runs[r].state = "queued" /\ authorized(r) /\ ~conversation_active(r)

discovered(r) ==
    \/ expired(runs[r], 0)
    \/ runs[r].state = "queued" /\ ~conversation_active(r)

(* Expired rows come first, then the queue in order. *)
ScanBefore(r, s) ==
    \/ runs[r].state = "running" /\ runs[s].state = "queued"
    \/ runs[r].state = runs[s].state /\ Before(r, s)

Scan(w) ==
    /\ w \in live
    /\ \E i \in Slots, r \in Runs \ active[w] :
          /\ task[w][i].phase = "free"
          /\ discovered(r)
          /\ \A s \in Runs \ active[w] : discovered(s) /\ s # r => ScanBefore(r, s)
          /\ active' = [active EXCEPT ![w] = @ \cup {r}]
          /\ Set(w, i, Spawned(IF runs[r].state = "running" \/ ~authorized(r)
                               THEN "expire" ELSE "claim", r))
    /\ UNCHANGED <<vars, started, live, executed, delivered, faults>>

Join_keeps_active(w, i) ==                             \* bug: a finished run stays active
    /\ task[w][i].phase \in {"done", "panicked"}
    /\ UNCHANGED active
    /\ Set(w, i, Free)
    /\ UNCHANGED <<vars, started, live, executed, delivered, faults>>

Join(w, i) ==
    /\ task[w][i].phase \in {"done", "panicked"}
    /\ active' = [active EXCEPT ![w] =
           IF task[w][i].phase = "done" THEN @ \ {task[w][i].run} ELSE {}]
    /\ Set(w, i, Free)
    /\ UNCHANGED <<vars, started, live, executed, delivered, faults>>

(* A new incarnation, and the end of one: a crash, or a shutdown that      *)
(* aborts every task.  A replacement can always be started.                *)
Start(w) ==
    /\ w \notin started
    /\ started' = started \cup {w}
    /\ live' = live \cup {w}
    /\ UNCHANGED <<vars, active, task, executed, delivered, faults>>

Stop(w) ==
    /\ w \in live
    /\ started # Workers \/ live # {w}
    /\ Fault
    /\ live' = live \ {w}
    /\ active' = [active EXCEPT ![w] = {}]
    /\ task' = [task EXCEPT ![w] = [i \in Slots |-> Free]]
    /\ UNCHANGED <<vars, started, executed, delivered>>

Panic(w, i) ==
    /\ task[w][i].phase \notin {"free", "done", "panicked"}
    /\ Fault
    /\ Goto(w, i, "panicked")
    /\ UNCHANGED <<vars, started, live, active, executed, delivered>>

-----------------------------------------------------------------------------
(* A task: recovery, or a claim. *)
TaskExpire(w, i) ==
    LET r == task[w][i].run
    IN  /\ task[w][i].phase = "expire"
        /\ \/ Expire(r, 0)
           \/ /\ ~expired(runs[r], 0)
              /\ runs[r].state = "queued" => authorized(r)
              /\ UNCHANGED vars
        /\ Goto(w, i, "done")
        /\ UNCHANGED <<started, live, active, executed, delivered, faults>>

(* A recovery that fails is left to the next scan. *)
TaskExpireFails(w, i) ==
    /\ task[w][i].phase = "expire"
    /\ Fault
    /\ Goto(w, i, "done")
    /\ UNCHANGED <<vars, started, live, active, executed, delivered>>

TaskClaim(w, i) ==
    LET r == task[w][i].run
    IN  /\ task[w][i].phase = "claim"
        /\ \/ /\ Claim(r, w, 0)
              /\ Set(w, i, [task[w][i] EXCEPT !.phase = "model", !.fence = runs'[r].fence])
              /\ UNCHANGED faults
           \/ /\ ~(authorized(r) /\ claimable(runs[r]) /\ ~conversation_active(r))
              /\ UNCHANGED <<vars, faults>>
              /\ Goto(w, i, "done")
           \/ /\ Fault                       \* the answer, or the claim itself, is lost
              /\ Claim(r, w, 0) \/ UNCHANGED vars
              /\ Goto(w, i, "done")
        /\ UNCHANGED <<started, live, active, executed, delivered>>

(* The provider answers, asks for a tool, or fails; its response is in the *)
(* journal before anything else happens.  A call it asked for before is    *)
(* answered from its receipt and is not made again.                        *)
Respond(w, i) ==
    /\ task[w][i].phase = "model"
    /\ \/ /\ Committed(w, i, Event("record"))
          /\ \/ Conclude(w, i, "completed")
             \/ \E t \in Tools :
                   /\ task[w][i].calls < MaxCalls
                   /\ Set(w, i, [task[w][i] EXCEPT !.phase = "call", !.tool = t,
                                                   !.calls = @ + 1, !.attempt = 0])
          /\ UNCHANGED faults
       \/ Refused(w, i) /\ Conclude(w, i, "failed") /\ UNCHANGED faults
       \/ Unavailable(w, i, Event("record"))
       \/ Fault /\ UNCHANGED vars /\ Conclude(w, i, "failed")
    /\ UNCHANGED <<started, live, active, executed, delivered>>

CallTool(w, i) ==
    LET t == task[w][i].tool
        receipt == ToolEvent("tool_outcome", t) \in committed[task[w][i].run]
    IN  /\ task[w][i].phase = "call"
        /\ \/ receipt /\ authorized(task[w][i].run) /\ UNCHANGED <<vars, faults>>
                /\ Goto(w, i, "model")
           \/ receipt /\ ~authorized(task[w][i].run) /\ UNCHANGED <<vars, faults>>
                /\ Conclude(w, i, "failed")
           \/ ~receipt /\ Committed(w, i, Event("record")) /\ Goto(w, i, "start")
                /\ UNCHANGED faults
           \/ ~receipt /\ Refused(w, i) /\ Conclude(w, i, "failed") /\ UNCHANGED faults
           \/ ~receipt /\ Unavailable(w, i, Event("record"))
        /\ UNCHANGED <<started, live, active, executed, delivered>>

(* The durable start is the fence of the invocation: no commit, or a       *)
(* commit that was there before, and the tool is not invoked.              *)
StartTool(w, i) ==
    LET e == ToolEvent("tool_started", task[w][i].tool)
    IN  /\ task[w][i].phase = "start"
        /\ \/ /\ Committed(w, i, e)
              /\ IF e \in committed[task[w][i].run] THEN Conclude(w, i, "failed")
                                                   ELSE Goto(w, i, "execute")
              /\ UNCHANGED faults
           \/ Refused(w, i) /\ Conclude(w, i, "failed") /\ UNCHANGED faults
           \/ Unavailable(w, i, e)
        /\ UNCHANGED <<started, live, active, executed, delivered>>

Invoke(w, i) ==
    /\ task[w][i].phase = "execute"
    /\ executed' = [executed EXCEPT ![task[w][i].run][task[w][i].tool] = @ + 1]
    /\ Goto(w, i, "outcome")
    /\ UNCHANGED <<vars, started, live, active, delivered, faults>>

RecordOutcome_reruns(w, i) ==                          \* bug: the tool is invoked again
    LET e == ToolEvent("tool_outcome", task[w][i].tool)
    IN  /\ task[w][i].phase = "outcome"
        /\ \/ Committed(w, i, e) /\ Goto(w, i, "model") /\ UNCHANGED faults
           \/ Refused(w, i) /\ Conclude(w, i, "failed") /\ UNCHANGED faults
           \/ Fault /\ UNCHANGED vars /\ Goto(w, i, "execute")
        /\ UNCHANGED <<started, live, active, executed, delivered>>

(* The receipt.  A call whose own outcome is unknown ends the turn. *)
RecordOutcome(w, i) ==
    LET e == ToolEvent("tool_outcome", task[w][i].tool)
    IN  /\ task[w][i].phase = "outcome"
        /\ \/ Committed(w, i, e) /\ Goto(w, i, "model") /\ UNCHANGED faults
           \/ Committed(w, i, e) /\ Conclude(w, i, "failed") /\ UNCHANGED faults
           \/ Refused(w, i) /\ Conclude(w, i, "failed") /\ UNCHANGED faults
           \/ Unavailable(w, i, e)
        /\ UNCHANGED <<started, live, active, executed, delivered>>

(* The heartbeat beside the execution.  A renewal that fails drops the     *)
(* execution, or its result, and leaves the turn to recovery; one that     *)
(* sees the cancel request does the same and finishes the turn.  Only the  *)
(* renewal in flight when the execution ends can follow it: `attempt'      *)
(* counts it.                                                              *)
Beat(w, i) ==
    LET t == task[w][i]
        last == t.phase = "finish" \/ runs[t.run].cancel
    IN  /\ t.phase \in Driven
        /\ t.phase = "finish" => t.attempt = 0
        /\ \/ /\ Heartbeat(lease(w, i), 0)
              /\ Set(w, i, [t EXCEPT !.phase = IF last THEN "finish" ELSE @,
                                     !.attempt = IF last THEN 1 ELSE @,
                                     !.result = IF runs[t.run].cancel THEN "failed" ELSE @])
              /\ UNCHANGED faults
           \/ Refused(w, i) /\ Goto(w, i, "done") /\ UNCHANGED faults
           \/ Fault /\ (Heartbeat(lease(w, i), 0) \/ UNCHANGED vars) /\ Goto(w, i, "done")
        /\ UNCHANGED <<started, live, active, executed, delivered>>

(* The committed winner determines what is delivered. *)
Delivery(state) == IF state = "cancelled" THEN "cancelled" ELSE "response"

TaskFinish_delivers_result(w, i) ==                    \* bug: the executor's own outcome is sent
    LET r == task[w][i].run
    IN  /\ task[w][i].phase = "finish"
        /\ \/ /\ Finish(lease(w, i), 0, task[w][i].result)
              /\ delivered' = [delivered EXCEPT ![r] = @ \cup {Delivery(task[w][i].result)}]
           \/ Refused(w, i) /\ UNCHANGED delivered
        /\ Goto(w, i, "done")
        /\ UNCHANGED <<started, live, active, executed, faults>>

TaskFinish(w, i) ==
    LET r == task[w][i].run
    IN  /\ task[w][i].phase = "finish"
        /\ \/ /\ Finish(lease(w, i), 0, task[w][i].result)
              /\ delivered' = [delivered EXCEPT ![r] = @ \cup {Delivery(runs'[r].state)}]
              /\ UNCHANGED faults
           \/ Refused(w, i) /\ UNCHANGED <<delivered, faults>>
           \/ /\ Fault
              /\ Finish(lease(w, i), 0, task[w][i].result) \/ UNCHANGED vars
              /\ UNCHANGED delivered
        /\ Goto(w, i, "done")
        /\ UNCHANGED <<started, live, active, executed>>

-----------------------------------------------------------------------------
(* The clients, the membership and the clock. *)
Accept(r, c, a, q) == Submit(r, c, a, q, 0) /\ UNCHANGED workers

CancelRequest(r) ==
    /\ Cancel(r)
    /\ delivered' = IF runs'[r].state = "cancelled"
                    THEN [delivered EXCEPT ![r] = @ \cup {"cancelled"}] ELSE delivered
    /\ UNCHANGED <<started, live, active, task, executed, faults>>

LoseAccess(a, c) == Revoke(a, c) /\ UNCHANGED workers

Tick ==
    /\ \E r \in Runs : runs[r].expires > 0
    /\ runs' = [r \in Runs |->
           [runs[r] EXCEPT !.expires = IF @ > 0 THEN @ - 1 ELSE 0]]
    /\ UNCHANGED <<committed, message, context, access, granted, accepted, ahead, workers>>

Step(w, i) ==
    \/ Join(w, i) \/ TaskExpire(w, i) \/ TaskClaim(w, i) \/ Respond(w, i) \/ CallTool(w, i)
    \/ StartTool(w, i) \/ Invoke(w, i) \/ RecordOutcome(w, i) \/ TaskFinish(w, i)

WNext ==
    \/ \E w \in Workers : Start(w) \/ Stop(w) \/ Scan(w)
    \/ \E w \in Workers, i \in Slots : Step(w, i) \/ Beat(w, i) \/ Panic(w, i)
                                          \/ TaskExpireFails(w, i)
    \/ \E r \in Runs, c \in Conversations, a \in Actors, q \in Requests : Accept(r, c, a, q)
    \/ \E r \in Runs : CancelRequest(r)
    \/ \E a \in Actors, c \in Conversations : LoseAccess(a, c)
    \/ Tick

(* The runtime schedules ready tasks and the scan timer, provider and tool *)
(* calls return, and time passes.  Nothing is assumed of heartbeats: a     *)
(* lease may run out while its owner is at work.                           *)
Fairness ==
    /\ \A w \in Workers : WF_all(Start(w)) /\ WF_all(Scan(w))
    /\ \A w \in Workers, i \in Slots : WF_all(Step(w, i))
    /\ WF_all(Tick)

WSpec == WInit /\ [][WNext]_all /\ Fairness

-----------------------------------------------------------------------------
(* A tool call is invoked at most once, and only behind a start that is in *)
(* the journal; a receipt is only ever the receipt of an invocation.       *)
InvokedOnce ==
    \A r \in Runs, t \in Tools :
        /\ executed[r][t] <= 1
        /\ executed[r][t] = 1 => ToolEvent("tool_started", t) \in committed[r]
        /\ ToolEvent("tool_outcome", t) \in committed[r] => executed[r][t] = 1

(* No run ever has two executions, not even when one of them has lost its  *)
(* lease and does not know it yet.                                         *)
OneExecution ==
    \A r \in Runs :
        Cardinality({p \in Workers \X Slots :
            task[p[1]][p[2]].phase \in Driven /\ task[p[1]][p[2]].run = r}) <= 1

(* What a client is told about a turn is how the turn ended in the store,  *)
(* and it is told nothing before that.                                     *)
DeliveryAgrees ==
    \A r \in Runs : \A d \in delivered[r] :
        is_terminal(runs[r].state) /\ d = Delivery(runs[r].state)

(* Every accepted turn ends, however many workers die with it on the way,  *)
(* and so does everything queued behind it.                                *)
EveryTurnEnds == \A r \in Runs : Exists(r) ~> is_terminal(runs[r].state)
=============================================================================
