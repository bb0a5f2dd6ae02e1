-------------------------- MODULE DurableChatProofs --------------------------
(***************************************************************************)
(* Proofs about the workers that execute accepted turns, for every number  *)
(* of workers, slots, runs and tool calls and every number of failures.    *)
(*                                                                         *)
(* The workers only touch the store through its own operations, so each of *)
(* their steps is a step of ConversationStore, or the clock, and keeps the *)
(* store's inductive invariant.  On top of it, a task that executes a turn *)
(* holds the one lease that the turn ever gets; the rest follows from that *)
(* and from the order of a tool call's start, invocation and receipt.      *)
(***************************************************************************)
EXTENDS DurableChat, ConversationStoreProofs, FiniteSetTheorems

Phases == {"free", "expire", "claim", "done", "panicked"} \cup Driven

TaskRows ==
    [phase : Phases, run : Runs \cup {0}, fence : Nat, tool : Tools \cup {None},
     attempt : Nat, calls : Nat, result : Finalizable \cup {"none"}]

WTypeOK ==
    /\ started \subseteq Workers /\ live \subseteq Workers
    /\ active \in [Workers -> SUBSET Runs]
    /\ task \in [Workers -> [Slots -> TaskRows]]
    /\ executed \in [Runs -> [Tools -> Nat]]
    /\ delivered \in [Runs -> SUBSET {"cancelled", "response"}]
    /\ faults \in Nat

(* What a task needs for the step it is at: a run, the lease of the run,   *)
(* a tool call, an outcome.                                                *)
Equipped(w, i) ==
    LET t == task[w][i]
    IN  /\ t.phase # "free" => t.run \in Runs
        /\ t.phase \in Driven => lease(w, i) \in granted
        /\ t.phase \in {"call", "start", "execute", "outcome"} => t.tool \in Tools
        /\ t.phase = "finish" => t.result \in Finalizable

TasksSound == \A w \in Workers, i \in Slots : Equipped(w, i)

(* A run is executed in one place. *)
OneDriver ==
    \A w, v \in Workers, i, j \in Slots :
        /\ task[w][i].phase \in Driven /\ task[v][j].phase \in Driven
        /\ task[w][i].run = task[v][j].run
        => w = v /\ i = j

(* A task about to invoke a tool has just made its start durable, and one  *)
(* about to record an outcome has one.                                     *)
Called(w, i) ==
    LET t == task[w][i]
    IN  /\ t.phase = "execute" =>
               /\ executed[t.run][t.tool] = 0
               /\ ToolEvent("tool_started", t.tool) \in committed[t.run]
        /\ t.phase = "outcome" => executed[t.run][t.tool] = 1

CallsSound == \A w \in Workers, i \in Slots : Called(w, i)

WInv ==
    /\ IInv
    /\ WTypeOK
    /\ TasksSound
    /\ OneDriver
    /\ CallsSound
    /\ InvokedOnce
    /\ DeliveryAgrees

-----------------------------------------------------------------------------
(* The store under the workers. *)

(* What the workers rely on in a step of the store: leases stay granted,   *)
(* ended turns stay as they ended, and receipts are those that were there. *)
StoreMoves ==
    /\ IInv'
    /\ granted \subseteq granted'
    /\ \A r \in Runs : is_terminal(runs[r].state) => runs'[r].state = runs[r].state

ToolsKept ==
    \A r \in Runs, t \in Tools, k \in {"tool_started", "tool_outcome"} :
        ToolEvent(k, t) \in committed'[r] <=> ToolEvent(k, t) \in committed[r]

(* A step of the store is one the workers can rely on. *)
LEMMA StoreStepMoves ==
    ASSUME IInv, [Next]_vars
    PROVE  StoreMoves
<1>1. granted \subseteq granted'
  BY DEF Next, Submit, Resubmit, Claim, Heartbeat, Cancel, Finish, Expire, FencedEvent, Revoke,
         Restore, vars
<1> QED
  BY <1>1, NextIInv, OnlyOpenTurns DEF StoreMoves

(* The clock brings expiries nearer and nothing else. *)
LEMMA TickMoves ==
    ASSUME IInv, Tick
    PROVE  StoreMoves /\ ToolsKept
<1>1. /\ runs \in [Runs -> RunRows]
      /\ context \in [Runs -> SUBSET Runs]
      /\ ahead \in [Runs -> SUBSET Runs]
      /\ accepted \in [Actors \X Requests -> SUBSET Runs]
      /\ granted \subseteq Leases
  BY DEF IInv, TypeOK
<1>2. UNCHANGED <<committed, message, context, access, granted, accepted, ahead>>
  BY DEF Tick
<1>3. ASSUME NEW r \in Runs
      PROVE  /\ runs'[r] \in RunRows
             /\ SameTurn(runs'[r], runs[r])
             /\ runs'[r].state = runs[r].state
             /\ runs'[r].fence = runs[r].fence
             /\ runs'[r].cancel = runs[r].cancel
  <2> DEFINE x == IF runs[r].expires > 0 THEN runs[r].expires - 1 ELSE 0
  <2>1. runs[r] \in RunRows /\ runs[r].expires \in Int
    BY <1>1 DEF RunRows
  <2>2. runs'[r] = [runs[r] EXCEPT !.expires = x]
    BY DEF Tick
  <2>3. x \in Int
    BY <2>1
  <2> HIDE DEF x
  <2>4. [runs[r] EXCEPT !.expires = x] \in RunRows
    BY <2>1, <2>3, RowUpdates
  <2> QED
    BY <2>1, <2>2, <2>4 DEF SameTurn, RunRows
<1>4. runs' \in [Runs -> RunRows]
  BY <1>3 DEF Tick
<1>5. TypeOK'
  BY <1>2, <1>4 DEF IInv, TypeOK
<1>6. RowsSound' /\ CancelWins' /\ ToolsSettled'
  BY <1>2, <1>3 DEF IInv, RowsSound, CancelWins, ToolsSettled
<1>7. LeasesSound'
  BY <1>1, <1>2, <1>3 DEF IInv, LeasesSound, Leases
<1>8. AheadSound' /\ OneRunning'
  BY <1>1, <1>2, <1>3 DEF IInv, AheadSound, OneRunning, SameTurn, Exists
<1>9. RequestsSound'
  BY <1>1, <1>2, <1>3 DEF IInv, RequestsSound, SameTurn, Exists
<1>10. ProjectionAgrees'
  BY <1>2, <1>3 DEF IInv, ProjectionAgrees, Open
<1>11. QueueOrder' /\ ContextSettled'
  BY <1>1, <1>2, <1>3 DEF IInv, QueueOrder, ContextSettled, Before, SameTurn
<1>12. IInv'
  BY <1>5, <1>6, <1>7, <1>8, <1>9, <1>10, <1>11 DEF IInv
<1> QED
  BY <1>2, <1>3, <1>12 DEF StoreMoves, ToolsKept

(* The end of a turn starts no tool call and adds no receipt. *)
LEMMA EndsKeepsTools ==
    ASSUME IInv, NEW r \in Runs, Ends(r)
    PROVE  ToolsKept
<1>1. committed \in [Runs -> SUBSET Events]
  BY DEF IInv, TypeOK
<1>2. PICK extra \in SUBSET {Event("cancel_requested")} :
          committed' = [committed EXCEPT ![r] =
              @ \cup extra \cup {ToolEvent("tool_unknown", t) : t \in Uncertain(r)}
                \cup {Event(runs'[r].state)}]
  BY DEF Ends
<1>3. /\ \A s \in Runs \ {r} : committed'[s] = committed[s]
      /\ committed'[r] = committed[r] \cup extra
             \cup {ToolEvent("tool_unknown", t) : t \in Uncertain(r)}
             \cup {Event(runs'[r].state)}
  BY <1>1, <1>2
<1>4. ASSUME NEW t \in Tools, NEW k \in {"tool_started", "tool_outcome"}
      PROVE  ToolEvent(k, t) \in committed'[r] <=> ToolEvent(k, t) \in committed[r]
  <2>1. ToolEvent(k, t) \notin extra /\ ToolEvent(k, t) # Event(runs'[r].state)
    BY EventsDiffer
  <2>2. ASSUME NEW u \in Uncertain(r)
        PROVE  ToolEvent(k, t) # ToolEvent("tool_unknown", u)
    <3>1. k # "tool_unknown"
      OBVIOUS
    <3> QED
      BY <3>1 DEF ToolEvent
  <2>3. ToolEvent(k, t) \notin {ToolEvent("tool_unknown", u) : u \in Uncertain(r)}
    BY <2>2, Zenon
  <2> QED
    BY <1>3, <2>1, <2>3
<1> QED
  BY <1>3, <1>4 DEF ToolsKept

(* A cancel request starts no tool call and adds no receipt. *)
LEMMA CancelKeepsTools ==
    ASSUME IInv, NEW r \in Runs, Cancel(r)
    PROVE  ToolsKept
<1>1. CASE Ends(r)
  BY <1>1, EndsKeepsTools
<1>2. CASE runs[r].state = "running"
  <2>1. committed \in [Runs -> SUBSET Events] /\ runs[r] \in RunRows
    BY DEF IInv, TypeOK
  <2>2. plan_cancel(runs[r]).state = "running"
    BY <1>2, <2>1, CancelledRow
  <2>3. committed' = [committed EXCEPT ![r] = @ \cup {Event("cancel_requested")}]
    BY <2>2 DEF Cancel, is_terminal
  <2>4. \A t \in Tools, k \in {"tool_started", "tool_outcome"} :
            ToolEvent(k, t) # Event("cancel_requested")
    BY EventsDiffer
  <2> QED
    BY <2>1, <2>3, <2>4 DEF ToolsKept
<1> QED
  BY <1>1, <1>2, CancelSteps DEF Advances

(* Neither does a claim. *)
LEMMA ClaimKeepsTools ==
    ASSUME IInv, NEW r \in Runs, NEW w \in Workers, Claim(r, w, 0)
    PROVE  ToolsKept
<1>1. committed \in [Runs -> SUBSET Events]
  BY DEF IInv, TypeOK
<1>2. committed' = [committed EXCEPT ![r] = @ \cup {Event("started")}]
  BY DEF Claim
<1>3. \A t \in Tools, k \in {"tool_started", "tool_outcome"} : ToolEvent(k, t) # Event("started")
  BY EventsDiffer
<1> QED
  BY <1>1, <1>2, <1>3 DEF ToolsKept

(* Nor the acceptance of a turn. *)
LEMMA SubmitKeepsTools ==
    ASSUME IInv, NEW r \in Runs, NEW c, NEW a, NEW q, Submit(r, c, a, q, 0)
    PROVE  ToolsKept
<1>1. committed \in [Runs -> SUBSET Events] /\ committed[r] = {}
  BY DEF IInv, TypeOK, RowsSound, Submit, Exists
<1>2. committed' = [committed EXCEPT ![r] = {Event("submitted"), Event("queued")}]
  BY DEF Submit
<1>3. \A t \in Tools, k \in {"tool_started", "tool_outcome"} :
          ToolEvent(k, t) \notin {Event("submitted"), Event("queued")}
  BY EventsDiffer
<1> QED
  BY <1>1, <1>2, <1>3 DEF ToolsKept

(* A sink commit is a step of the store that adds its event. *)
LEMMA CommitMoves ==
    ASSUME IInv, NEW w \in Workers, NEW i \in Slots, lease(w, i) \in granted,
           NEW e \in ExecutionEvents, Committed(w, i, e)
    PROVE  /\ StoreMoves
           /\ task[w][i].run \in Runs
           /\ committed' = [committed EXCEPT ![task[w][i].run] = @ \cup {e}]
<1> DEFINE k == lease(w, i)
           r == task[w][i].run
<1>1. k.run = r
  BY DEF lease
<1>2. r \in Runs /\ committed \in [Runs -> SUBSET Events]
  BY <1>1 DEF IInv, TypeOK, Leases
<1>3. /\ owned(k, 0)
      /\ committed' = [committed EXCEPT ![r] = @ \cup {e}]
      /\ UNCHANGED <<runs, message, context, access, granted, accepted, ahead>>
  BY DEF Committed
<1>4. 0 \in Times
  BY WorkerAssumption
<1>5. CASE e \notin committed[r]
  <2>1. FencedEvent(k, 0, e)
    BY <1>1, <1>3, <1>5 DEF FencedEvent
  <2>2. Next
    BY <1>4, <2>1 DEF Next
  <2> QED
    BY <1>2, <1>3, <2>2, StoreStepMoves
<1>6. CASE e \in committed[r]
  <2>1. committed' = committed
    BY <1>2, <1>3, <1>6
  <2>2. UNCHANGED vars
    BY <1>3, <2>1 DEF vars
  <2> QED
    BY <1>2, <1>3, <2>2, StoreStepMoves
<1> QED
  BY <1>5, <1>6

-----------------------------------------------------------------------------
(* The tasks. *)

(* The row of a task, field by field. *)
LEMMA TaskUpdates ==
    ASSUME NEW t \in TaskRows, NEW phase \in Phases, NEW n \in Nat,
           NEW result \in Finalizable \cup {"none"}
    PROVE  /\ [t EXCEPT !.phase = phase, !.attempt = n] \in TaskRows
           /\ [t EXCEPT !.phase = phase, !.fence = n] \in TaskRows
           /\ [t EXCEPT !.attempt = n] \in TaskRows
           /\ [t EXCEPT !.phase = phase, !.attempt = n, !.result = result] \in TaskRows
           /\ \A tool \in Tools, m \in Nat :
                 [t EXCEPT !.phase = phase, !.tool = tool, !.calls = m, !.attempt = n]
                     \in TaskRows
<1>1. [t EXCEPT !.phase = phase, !.attempt = n] \in TaskRows
  BY DEF TaskRows
<1>2. [t EXCEPT !.phase = phase, !.fence = n] \in TaskRows
  BY DEF TaskRows
<1>3. [t EXCEPT !.attempt = n] \in TaskRows
  BY DEF TaskRows
<1>4. [t EXCEPT !.phase = phase, !.attempt = n, !.result = result] \in TaskRows
  BY DEF TaskRows
<1>5. \A tool \in Tools, m \in Nat :
          [t EXCEPT !.phase = phase, !.tool = tool, !.calls = m, !.attempt = n] \in TaskRows
  BY DEF TaskRows
<1> QED
  BY <1>1, <1>2, <1>3, <1>4, <1>5

(* Starts stay in the journal, and a receipt that appears is that of a     *)
(* call that was made.                                                     *)
ToolsGrow ==
    \A r \in Runs, t \in Tools :
        /\ ToolEvent("tool_started", t) \in committed[r] =>
               ToolEvent("tool_started", t) \in committed'[r]
        /\ ToolEvent("tool_outcome", t) \in committed'[r] =>
               ToolEvent("tool_outcome", t) \in committed[r] \/ executed[r][t] = 1

LEMMA KeptToolsGrow == ToolsKept => ToolsGrow
  BY DEF ToolsKept, ToolsGrow

(* What a step of one task leaves as it is, or as its type says. *)
Beside ==
    /\ UNCHANGED <<started, live, executed>>
    /\ active' \in [Workers -> SUBSET Runs]
    /\ faults' \in Nat

(* What was pushed to clients stays true. *)
LEMMA DeliveryStays ==
    ASSUME WInv, StoreMoves, UNCHANGED delivered
    PROVE  DeliveryAgrees' /\ delivered' \in [Runs -> SUBSET {"cancelled", "response"}]
  BY DEF WInv, WTypeOK, StoreMoves, DeliveryAgrees

LEMMA OneTaskMoves ==
    ASSUME WTypeOK, NEW w \in Workers, NEW i \in Slots, NEW new \in TaskRows, Set(w, i, new)
    PROVE  /\ task' \in [Workers -> [Slots -> TaskRows]]
           /\ task'[w][i] = new
           /\ \A v \in Workers, j \in Slots : v # w \/ j # i => task'[v][j] = task[v][j]
  BY DEF WTypeOK, Set

(* A task whose step is not an invocation, and takes it to a state that it *)
(* is equipped for.                                                        *)
LEMMA TaskMoves ==
    ASSUME IInv, WInv, StoreMoves, ToolsGrow, Beside,
           DeliveryAgrees', delivered' \in [Runs -> SUBSET {"cancelled", "response"}],
           NEW w \in Workers, NEW i \in Slots, NEW new \in TaskRows, Set(w, i, new),
           Equipped(w, i)', Called(w, i)',
           new.phase \in Driven =>
               \/ task[w][i].phase \in Driven /\ new.run = task[w][i].run
               \/ \A k \in granted : k.run # new.run
    PROVE  WInv'
<1>1. /\ task' \in [Workers -> [Slots -> TaskRows]]
      /\ task'[w][i] = new
      /\ \A v \in Workers, j \in Slots : v # w \/ j # i => task'[v][j] = task[v][j]
  BY OneTaskMoves DEF WInv
<1>2. WTypeOK'
  BY <1>1 DEF WInv, WTypeOK, Beside
<1>3. ASSUME NEW v \in Workers, NEW j \in Slots
      PROVE  Equipped(v, j)'
  <2>1. CASE v = w /\ j = i
    BY <2>1
  <2>2. CASE v # w \/ j # i
    <3>1. task'[v][j] = task[v][j]
      BY <1>1, <2>2
    <3>2. Equipped(v, j) /\ granted \subseteq granted'
      BY DEF WInv, TasksSound, StoreMoves
    <3> QED
      BY <3>1, <3>2 DEF Equipped, lease
  <2> QED
    BY <2>1, <2>2
<1>4. ASSUME NEW v \in Workers, NEW j \in Slots
      PROVE  Called(v, j)'
  <2>1. CASE v = w /\ j = i
    BY <2>1
  <2>2. CASE v # w \/ j # i
    <3>1. task'[v][j] = task[v][j]
      BY <1>1, <2>2
    <3>2. Called(v, j) /\ Equipped(v, j) /\ executed' = executed
      BY DEF WInv, CallsSound, TasksSound, Beside
    <3> QED
      BY <3>1, <3>2 DEF Called, Equipped, ToolsGrow
  <2> QED
    BY <2>1, <2>2
<1>5. OneDriver'
  <2>1. ASSUME NEW v \in Workers, NEW j \in Slots, v # w \/ j # i,
               task[v][j].phase \in Driven, new.phase \in Driven, task[v][j].run = new.run
        PROVE  FALSE
    <3>1. CASE task[w][i].phase \in Driven /\ new.run = task[w][i].run
      BY <2>1, <3>1 DEF WInv, OneDriver
    <3>2. CASE \A k \in granted : k.run # new.run
      <4>1. lease(v, j) \in granted /\ lease(v, j).run = task[v][j].run
        BY <2>1 DEF WInv, TasksSound, Equipped, lease
      <4> QED
        BY <2>1, <3>2, <4>1
    <3> QED
      BY <2>1, <3>1, <3>2
  <2>2. ASSUME NEW u \in Workers, NEW v \in Workers, NEW h \in Slots, NEW j \in Slots,
               task'[u][h].phase \in Driven, task'[v][j].phase \in Driven,
               task'[u][h].run = task'[v][j].run
        PROVE  u = v /\ h = j
    <3>1. CASE (u # w \/ h # i) /\ (v # w \/ j # i)
      BY <1>1, <2>2, <3>1 DEF WInv, OneDriver
    <3>2. CASE u = w /\ h = i /\ (v # w \/ j # i)
      BY <1>1, <2>1, <2>2, <3>2
    <3>3. CASE v = w /\ j = i /\ (u # w \/ h # i)
      BY <1>1, <2>1, <2>2, <3>3
    <3> QED
      BY <3>1, <3>2, <3>3
  <2> QED
    BY <2>2 DEF OneDriver
<1>6. InvokedOnce'
  BY DEF WInv, InvokedOnce, ToolsGrow, Beside
<1> QED
  BY <1>2, <1>3, <1>4, <1>5, <1>6 DEF WInv, TasksSound, CallsSound, StoreMoves

(* A task that does not execute, or no longer. *)
LEMMA TaskLeaves ==
    ASSUME IInv, WInv, StoreMoves, ToolsGrow, Beside,
           DeliveryAgrees', delivered' \in [Runs -> SUBSET {"cancelled", "response"}],
           NEW w \in Workers, NEW i \in Slots, NEW new \in TaskRows, Set(w, i, new),
           new.phase \notin Driven, new.phase # "free" => new.run \in Runs
    PROVE  WInv'
<1>1. task'[w][i] = new
  BY OneTaskMoves DEF WInv
<1>2. Equipped(w, i)' /\ Called(w, i)'
  BY <1>1 DEF Equipped, Called, Driven
<1> QED
  BY <1>2, TaskMoves

(* A task that goes on with its run, and does not invoke the tool next. *)
LEMMA TaskGoesOn ==
    ASSUME IInv, WInv, StoreMoves, ToolsGrow, Beside, UNCHANGED delivered,
           NEW w \in Workers, NEW i \in Slots, NEW new \in TaskRows, Set(w, i, new),
           task[w][i].phase \in Driven,
           new.run = task[w][i].run, new.fence = task[w][i].fence,
           \/ new.phase = "model"
           \/ new.phase \in {"call", "start"} /\ new.tool \in Tools
           \/ new.phase = "finish" /\ new.result \in Finalizable
           \/ new.phase = task[w][i].phase /\ new.tool = task[w][i].tool
                /\ new.result = task[w][i].result
    PROVE  WInv'
<1>1. task'[w][i] = new
  BY OneTaskMoves DEF WInv
<1>2. Equipped(w, i) /\ Called(w, i) /\ granted \subseteq granted' /\ executed' = executed
  BY DEF WInv, TasksSound, CallsSound, StoreMoves, Beside
<1>3. lease(w, i)' = lease(w, i)
  BY <1>1 DEF lease
<1>4. lease(w, i)' \in granted' /\ new.run \in Runs
  BY <1>2, <1>3 DEF Equipped, Driven
<1>5. Equipped(w, i)'
  BY <1>1, <1>2, <1>4 DEF Equipped
<1>6. Called(w, i)'
  BY <1>1, <1>2, <1>4 DEF Called, Equipped, ToolsGrow
<1>7. DeliveryAgrees' /\ delivered' \in [Runs -> SUBSET {"cancelled", "response"}]
  BY DeliveryStays
<1> QED
  BY <1>5, <1>6, <1>7, TaskMoves

-----------------------------------------------------------------------------
(* The steps of a task. *)

LEMMA StillMoves ==
    ASSUME IInv, UNCHANGED vars
    PROVE  StoreMoves /\ ToolsGrow
  BY StoreStepMoves DEF vars, ToolsGrow

LEMMA TaskRow ==
    ASSUME WInv, NEW w \in Workers, NEW i \in Slots
    PROVE  task[w][i] \in TaskRows /\ Equipped(w, i) /\ Called(w, i)
  BY DEF WInv, WTypeOK, TasksSound, CallsSound

(* A sink commit, or one that did not take effect. *)
LEMMA SinkMoves ==
    ASSUME IInv, NEW w \in Workers, NEW i \in Slots, lease(w, i) \in granted,
           NEW e \in ExecutionEvents,
           \A t \in Tools : e = ToolEvent("tool_outcome", t) => executed[task[w][i].run][t] = 1,
           Committed(w, i, e) \/ UNCHANGED vars
    PROVE  StoreMoves /\ ToolsGrow
<1>1. CASE Committed(w, i, e)
  <2>1. /\ StoreMoves
        /\ task[w][i].run \in Runs
        /\ committed' = [committed EXCEPT ![task[w][i].run] = @ \cup {e}]
    BY <1>1, CommitMoves
  <2>2. committed \in [Runs -> SUBSET Events]
    BY DEF IInv, TypeOK
  <2>3. \A r \in Runs : committed'[r] = IF r = task[w][i].run THEN committed[r] \cup {e}
                                                             ELSE committed[r]
    BY <2>1, <2>2
  <2> QED
    BY <2>1, <2>3 DEF ToolsGrow
<1> QED
  BY <1>1, StillMoves

(* A task that is done with its run, or whose thread panicked. *)
LEMMA GotoLeaves ==
    ASSUME IInv, WInv, StoreMoves, ToolsGrow, Beside,
           DeliveryAgrees', delivered' \in [Runs -> SUBSET {"cancelled", "response"}],
           NEW w \in Workers, NEW i \in Slots, task[w][i].phase # "free",
           NEW phase \in {"done", "panicked"}, Goto(w, i, phase)
    PROVE  WInv'
<1> DEFINE new == [task[w][i] EXCEPT !.phase = phase, !.attempt = 0]
<1>1. task[w][i] \in TaskRows /\ task[w][i].run \in Runs
  BY TaskRow DEF Equipped
<1>2. new \in TaskRows /\ phase \notin Driven
  BY <1>1, TaskUpdates DEF Phases, Driven
<1>3. new.phase = phase /\ new.run = task[w][i].run
  BY <1>1 DEF TaskRows
<1>4. Set(w, i, new)
  BY DEF Goto
<1> HIDE DEF new
<1> QED
  BY <1>1, <1>2, <1>3, <1>4, TaskLeaves

LEMMA GotoGoesOn ==
    ASSUME IInv, WInv, StoreMoves, ToolsGrow, Beside, UNCHANGED delivered,
           NEW w \in Workers, NEW i \in Slots, task[w][i].phase \in Driven,
           NEW phase \in {"model", "start"}, Goto(w, i, phase),
           phase = "start" => task[w][i].tool \in Tools
    PROVE  WInv'
<1> DEFINE new == [task[w][i] EXCEPT !.phase = phase, !.attempt = 0]
<1>1. task[w][i] \in TaskRows
  BY TaskRow
<1>2. new \in TaskRows
  BY <1>1, TaskUpdates DEF Phases, Driven
<1>3. /\ new.phase = phase /\ new.run = task[w][i].run /\ new.fence = task[w][i].fence
      /\ new.tool = task[w][i].tool
  BY <1>1 DEF TaskRows
<1>4. Set(w, i, new)
  BY DEF Goto
<1> HIDE DEF new
<1> QED
  BY <1>2, <1>3, <1>4, TaskGoesOn

LEMMA ConcludeGoesOn ==
    ASSUME IInv, WInv, StoreMoves, ToolsGrow, Beside, UNCHANGED delivered,
           NEW w \in Workers, NEW i \in Slots, task[w][i].phase \in Driven,
           NEW result \in {"completed", "failed"}, Conclude(w, i, result)
    PROVE  WInv'
<1> DEFINE new == [task[w][i] EXCEPT !.phase = "finish", !.attempt = 0, !.result = result]
<1>1. task[w][i] \in TaskRows
  BY TaskRow
<1>2. new \in TaskRows /\ result \in Finalizable
  BY <1>1, TaskUpdates DEF Phases, Driven, Finalizable
<1>3. /\ new.phase = "finish" /\ new.run = task[w][i].run /\ new.fence = task[w][i].fence
      /\ new.result = result
  BY <1>1 DEF TaskRows
<1>4. Set(w, i, new)
  BY DEF Conclude
<1> HIDE DEF new
<1> QED
  BY <1>2, <1>3, <1>4, TaskGoesOn

LEMMA UnavailableGoesOn ==
    ASSUME IInv, WInv, Beside, UNCHANGED delivered,
           NEW w \in Workers, NEW i \in Slots, task[w][i].phase \in Driven,
           NEW e \in ExecutionEvents,
           \A t \in Tools : e = ToolEvent("tool_outcome", t) => executed[task[w][i].run][t] = 1,
           Unavailable(w, i, e)
    PROVE  WInv'
<1>0. task[w][i] \in TaskRows /\ lease(w, i) \in granted
  BY TaskRow DEF Equipped
<1>1. StoreMoves /\ ToolsGrow
  BY <1>0, SinkMoves DEF Unavailable
<1>2. CASE Conclude(w, i, "failed")
  BY <1>1, <1>2, ConcludeGoesOn
<1>3. CASE Set(w, i, [task[w][i] EXCEPT !.attempt = @ + 1])
  <2> DEFINE new == [task[w][i] EXCEPT !.attempt = task[w][i].attempt + 1]
  <2>1. task[w][i].attempt + 1 \in Nat
    BY <1>0 DEF TaskRows
  <2>2. new \in TaskRows
    BY <1>0, <2>1, TaskUpdates DEF TaskRows
  <2>3. /\ new.phase = task[w][i].phase /\ new.run = task[w][i].run
        /\ new.fence = task[w][i].fence /\ new.tool = task[w][i].tool
        /\ new.result = task[w][i].result
    BY <1>0 DEF TaskRows
  <2>4. Set(w, i, new)
    BY <1>3
  <2> HIDE DEF new
  <2> QED
    BY <1>1, <2>2, <2>3, <2>4, TaskGoesOn
<1> QED
  BY <1>2, <1>3 DEF Unavailable

LEMMA Asides ==
    ASSUME WInv
    PROVE  /\ UNCHANGED <<started, live, active, executed, faults>> => Beside
           /\ UNCHANGED <<started, live, active, executed>> /\ Fault => Beside
  BY DEF WInv, WTypeOK, Beside, Fault

LEMMA RespondKeeps ==
    ASSUME IInv, WInv, NEW w \in Workers, NEW i \in Slots, Respond(w, i)
    PROVE  WInv'
<1> DEFINE e == Event("record")
<1>0. /\ task[w][i].phase \in Driven /\ task[w][i] \in TaskRows /\ lease(w, i) \in granted
      /\ UNCHANGED delivered
  BY TaskRow DEF Respond, Driven, Equipped
<1>1. e \in ExecutionEvents /\ \A t \in Tools : e # ToolEvent("tool_outcome", t)
  BY EventsDiffer DEF ExecutionEvents
<1>2. Beside
  BY Asides DEF Respond, Unavailable
<1>3. CASE Committed(w, i, e) /\ Conclude(w, i, "completed")
  BY <1>0, <1>1, <1>2, <1>3, SinkMoves, ConcludeGoesOn
<1>4. ASSUME Committed(w, i, e), NEW t \in Tools,
             Set(w, i, [task[w][i] EXCEPT !.phase = "call", !.tool = t, !.calls = @ + 1,
                                          !.attempt = 0])
      PROVE  WInv'
  <2> DEFINE new == [task[w][i] EXCEPT !.phase = "call", !.tool = t,
                                       !.calls = task[w][i].calls + 1, !.attempt = 0]
  <2>1. task[w][i].calls + 1 \in Nat
    BY <1>0 DEF TaskRows
  <2>2. new \in TaskRows
    BY <1>0, <2>1, TaskUpdates DEF Phases, Driven
  <2>3. /\ new.phase = "call" /\ new.run = task[w][i].run
        /\ new.fence = task[w][i].fence /\ new.tool = t
    BY <1>0 DEF TaskRows
  <2>4. Set(w, i, new)
    BY <1>4
  <2>5. StoreMoves /\ ToolsGrow
    BY <1>0, <1>1, <1>4, SinkMoves
  <2> HIDE DEF new
  <2> QED
    BY <1>0, <1>2, <2>2, <2>3, <2>4, <2>5, TaskGoesOn
<1>5. CASE UNCHANGED vars /\ Conclude(w, i, "failed")
  BY <1>0, <1>2, <1>5, StillMoves, ConcludeGoesOn
<1>6. CASE Unavailable(w, i, e)
  BY <1>0, <1>1, <1>2, <1>6, UnavailableGoesOn
<1> QED
  BY <1>3, <1>4, <1>5, <1>6 DEF Respond, Refused

LEMMA CallToolKeeps ==
    ASSUME IInv, WInv, NEW w \in Workers, NEW i \in Slots, CallTool(w, i)
    PROVE  WInv'
<1> DEFINE e == Event("record")
<1>0. /\ task[w][i].phase \in Driven /\ task[w][i].tool \in Tools /\ lease(w, i) \in granted
      /\ UNCHANGED delivered
  BY TaskRow DEF CallTool, Driven, Equipped
<1>1. e \in ExecutionEvents /\ \A t \in Tools : e # ToolEvent("tool_outcome", t)
  BY EventsDiffer DEF ExecutionEvents
<1>2. Beside
  BY Asides DEF CallTool, Unavailable
<1>3. CASE UNCHANGED vars /\ (Goto(w, i, "model") \/ Conclude(w, i, "failed"))
  BY <1>0, <1>2, <1>3, StillMoves, GotoGoesOn, ConcludeGoesOn
<1>4. CASE Committed(w, i, e) /\ Goto(w, i, "start")
  BY <1>0, <1>1, <1>2, <1>4, SinkMoves, GotoGoesOn
<1>5. CASE Unavailable(w, i, e)
  BY <1>0, <1>1, <1>2, <1>5, UnavailableGoesOn
<1> QED
  BY <1>3, <1>4, <1>5 DEF CallTool, Refused

(* The invocation is fenced by the start: the task that gets to invoke the *)
(* tool is the one whose commit put the start into the journal.            *)
LEMMA StartToolKeeps ==
    ASSUME IInv, WInv, NEW w \in Workers, NEW i \in Slots, StartTool(w, i)
    PROVE  WInv'
<1> DEFINE t == task[w][i].tool
           r == task[w][i].run
           e == ToolEvent("tool_started", t)
<1>0. /\ task[w][i].phase \in Driven /\ t \in Tools /\ r \in Runs
      /\ lease(w, i) \in granted /\ task[w][i] \in TaskRows /\ UNCHANGED delivered
  BY TaskRow DEF StartTool, Driven, Equipped
<1>1. e \in ExecutionEvents /\ \A u \in Tools : e # ToolEvent("tool_outcome", u)
  <2>1. e \in ExecutionEvents
    BY <1>0 DEF ExecutionEvents, ToolEvent
  <2>2. \A u \in Tools : e # ToolEvent("tool_outcome", u)
    BY <1>0, EventsDiffer
  <2> QED
    BY <2>1, <2>2
<1>2. Beside
  BY Asides DEF StartTool, Unavailable
<1>3. CASE Committed(w, i, e) /\ Conclude(w, i, "failed")
  BY <1>0, <1>1, <1>2, <1>3, SinkMoves, ConcludeGoesOn
<1>4. CASE Committed(w, i, e) /\ e \notin committed[r] /\ Goto(w, i, "execute")
  <2> DEFINE new == [task[w][i] EXCEPT !.phase = "execute", !.attempt = 0]
  <2>1. StoreMoves /\ ToolsGrow
    BY <1>0, <1>1, <1>4, SinkMoves
  <2>2. e \in committed'[r]
    BY <1>0, <1>1, <1>4, CommitMoves DEF IInv, TypeOK
  <2>3. executed[r][t] = 0
    <3>1. executed[r][t] \in Nat
      BY <1>0 DEF WInv, WTypeOK
    <3>2. executed[r][t] <= 1 /\ executed[r][t] # 1
      BY <1>0, <1>4 DEF WInv, InvokedOnce
    <3> QED
      BY <3>1, <3>2
  <2>4. new \in TaskRows
    BY <1>0, TaskUpdates DEF Phases, Driven
  <2>5. /\ new.phase = "execute" /\ new.run = r /\ new.fence = task[w][i].fence /\ new.tool = t
    BY <1>0 DEF TaskRows
  <2>6. Set(w, i, new)
    BY <1>4 DEF Goto
  <2> HIDE DEF new
  <2>7. task'[w][i] = new
    BY <2>4, <2>6, OneTaskMoves DEF WInv
  <2>8. Equipped(w, i)'
    <3>1. lease(w, i)' = lease(w, i) /\ granted \subseteq granted'
      BY <2>1, <2>5, <2>7 DEF lease, StoreMoves
    <3>2. new.phase = "execute" /\ new.run \in Runs /\ new.tool \in Tools
      BY <1>0, <2>5
    <3> QED
      BY <1>0, <2>7, <3>1, <3>2 DEF Equipped
  <2>9. Called(w, i)'
    <3>1. executed' = executed
      BY <1>2 DEF Beside
    <3> QED
      BY <2>2, <2>3, <2>5, <2>7, <3>1 DEF Called
  <2>10. DeliveryAgrees' /\ delivered' \in [Runs -> SUBSET {"cancelled", "response"}]
    BY <1>0, <2>1, DeliveryStays
  <2> QED
    BY <1>0, <1>2, <2>1, <2>4, <2>5, <2>6, <2>8, <2>9, <2>10, TaskMoves
<1>5. CASE UNCHANGED vars /\ Conclude(w, i, "failed")
  BY <1>0, <1>2, <1>5, StillMoves, ConcludeGoesOn
<1>6. CASE Unavailable(w, i, e)
  BY <1>0, <1>1, <1>2, <1>6, UnavailableGoesOn
<1> QED
  BY <1>3, <1>4, <1>5, <1>6 DEF StartTool, Refused

LEMMA RecordOutcomeKeeps ==
    ASSUME IInv, WInv, NEW w \in Workers, NEW i \in Slots, RecordOutcome(w, i)
    PROVE  WInv'
<1> DEFINE t == task[w][i].tool
           e == ToolEvent("tool_outcome", t)
<1>0. /\ task[w][i].phase \in Driven /\ t \in Tools /\ lease(w, i) \in granted
      /\ executed[task[w][i].run][t] = 1 /\ UNCHANGED delivered
  BY TaskRow DEF RecordOutcome, Driven, Equipped, Called
<1>1. e \in ExecutionEvents
  BY <1>0 DEF ExecutionEvents, ToolEvent
<1>2. \A u \in Tools : e = ToolEvent("tool_outcome", u) => executed[task[w][i].run][u] = 1
  BY <1>0, EventsDiffer
<1>3. Beside
  BY Asides DEF RecordOutcome, Unavailable
<1>4. CASE Committed(w, i, e) /\ (Goto(w, i, "model") \/ Conclude(w, i, "failed"))
  BY <1>0, <1>1, <1>2, <1>3, <1>4, SinkMoves, GotoGoesOn, ConcludeGoesOn
<1>5. CASE UNCHANGED vars /\ Conclude(w, i, "failed")
  BY <1>0, <1>3, <1>5, StillMoves, ConcludeGoesOn
<1>6. CASE Unavailable(w, i, e)
  BY <1>0, <1>1, <1>2, <1>3, <1>6, UnavailableGoesOn
<1> QED
  BY <1>4, <1>5, <1>6 DEF RecordOutcome, Refused

(* The one step that invokes a tool. *)
LEMMA InvokeKeeps ==
    ASSUME IInv, WInv, NEW w \in Workers, NEW i \in Slots, Invoke(w, i)
    PROVE  WInv'
<1> DEFINE t == task[w][i].tool
           r == task[w][i].run
           new == [task[w][i] EXCEPT !.phase = "outcome", !.attempt = 0]
<1>0. /\ task[w][i].phase = "execute" /\ t \in Tools /\ r \in Runs
      /\ lease(w, i) \in granted /\ task[w][i] \in TaskRows
      /\ executed[r][t] = 0 /\ ToolEvent("tool_started", t) \in committed[r]
  BY TaskRow DEF Invoke, Driven, Equipped, Called
<1>1. /\ executed' = [executed EXCEPT ![r][t] = @ + 1]
      /\ UNCHANGED <<started, live, active, delivered, faults>>
      /\ UNCHANGED vars
  BY DEF Invoke
<1>2. executed \in [Runs -> [Tools -> Nat]]
  BY DEF WInv, WTypeOK
<1>3. /\ executed' \in [Runs -> [Tools -> Nat]]
      /\ executed'[r][t] = 1
      /\ \A s \in Runs, u \in Tools : s # r \/ u # t => executed'[s][u] = executed[s][u]
  BY <1>0, <1>1, <1>2
<1>4. new \in TaskRows
  <2>1. task[w][i] \in TaskRows /\ "outcome" \in Phases /\ 0 \in Nat
    BY <1>0 DEF Phases, Driven
  <2> QED
    BY <2>1, TaskUpdates
<1>5. new.phase = "outcome" /\ new.run = r /\ new.fence = task[w][i].fence /\ new.tool = t
  BY <1>0 DEF TaskRows
<1>6. Set(w, i, new)
  BY DEF Invoke, Goto
<1> HIDE DEF new
<1>7. /\ task' \in [Workers -> [Slots -> TaskRows]]
      /\ task'[w][i] = new
      /\ \A v \in Workers, j \in Slots : v # w \/ j # i => task'[v][j] = task[v][j]
  BY <1>4, <1>6, OneTaskMoves DEF WInv
<1>8. WTypeOK'
  BY <1>1, <1>3, <1>7 DEF WInv, WTypeOK
<1>9. UNCHANGED <<committed, granted, runs>>
  BY <1>1 DEF vars
<1>10. ASSUME NEW v \in Workers, NEW j \in Slots
       PROVE  Equipped(v, j)' /\ Called(v, j)'
  <2>1. CASE v = w /\ j = i
    <3>1. lease(w, i)' = lease(w, i)
      BY <1>5, <1>7 DEF lease
    <3>2. Equipped(w, i)'
      BY <1>0, <1>5, <1>7, <1>9, <3>1 DEF Equipped
    <3>3. Called(w, i)'
      BY <1>3, <1>5, <1>7 DEF Called
    <3> QED
      BY <2>1, <3>2, <3>3
  <2>2. CASE v # w \/ j # i
    <3>1. task'[v][j] = task[v][j] /\ Equipped(v, j) /\ Called(v, j)
      BY <1>7, <2>2, TaskRow
    <3>2. Equipped(v, j)'
      BY <1>9, <3>1 DEF Equipped, lease
    <3>3. task[v][j].phase \in {"execute", "outcome"} =>
              task[v][j].run # r /\ task[v][j].run \in Runs /\ task[v][j].tool \in Tools
      BY <1>0, <2>2, <3>1 DEF WInv, OneDriver, Driven, Equipped
    <3>4. Called(v, j)'
      BY <1>3, <1>9, <3>1, <3>3 DEF Called
    <3> QED
      BY <3>2, <3>4
  <2> QED
    BY <2>1, <2>2
<1>11. OneDriver'
  <2>1. \A v \in Workers, j \in Slots : /\ task'[v][j].run = task[v][j].run
                                        /\ task'[v][j].phase \in Driven <=>
                                               task[v][j].phase \in Driven
    BY <1>0, <1>5, <1>7 DEF Driven
  <2> QED
    BY <2>1 DEF WInv, OneDriver
<1>12. InvokedOnce'
  <2>1. ASSUME NEW s \in Runs, NEW u \in Tools
        PROVE  /\ executed'[s][u] <= 1
               /\ executed'[s][u] = 1 => ToolEvent("tool_started", u) \in committed'[s]
               /\ ToolEvent("tool_outcome", u) \in committed'[s] => executed'[s][u] = 1
    BY <1>0, <1>3, <1>9 DEF WInv, InvokedOnce
  <2> QED
    BY <2>1 DEF InvokedOnce
<1>13. DeliveryAgrees'
  BY <1>1, <1>9 DEF WInv, DeliveryAgrees
<1>14. IInv'
  BY <1>1, StillMoves DEF StoreMoves
<1> QED
  BY <1>8, <1>10, <1>11, <1>12, <1>13, <1>14 DEF WInv, TasksSound, CallsSound

(* A renewal, seen by the store and by the task. *)
LEMMA HeartbeatMoves ==
    ASSUME IInv, NEW k \in granted, Heartbeat(k, 0) \/ UNCHANGED vars
    PROVE  StoreMoves /\ ToolsGrow
<1>1. CASE Heartbeat(k, 0)
  <2>1. Next /\ UNCHANGED committed
    BY <1>1, WorkerAssumption DEF Next, Heartbeat
  <2> QED
    BY <2>1, StoreStepMoves DEF ToolsGrow
<1> QED
  BY <1>1, StillMoves

LEMMA BeatKeeps ==
    ASSUME IInv, WInv, NEW w \in Workers, NEW i \in Slots, Beat(w, i)
    PROVE  WInv'
<1> DEFINE t == task[w][i]
           last == t.phase = "finish" \/ runs[t.run].cancel
           phase == IF last THEN "finish" ELSE t.phase
           attempt == IF last THEN 1 ELSE t.attempt
           result == IF runs[t.run].cancel THEN "failed" ELSE t.result
           new == [t EXCEPT !.phase = phase, !.attempt = attempt, !.result = result]
<1>0. /\ t.phase \in Driven /\ lease(w, i) \in granted /\ t \in TaskRows /\ t.phase # "free"
      /\ UNCHANGED delivered
  BY TaskRow DEF Beat, Driven, Equipped
<1>1. Beside
  BY Asides DEF Beat
<1>2. CASE Heartbeat(lease(w, i), 0) /\ Set(w, i, new)
  <2>1. phase \in Phases /\ attempt \in Nat /\ result \in Finalizable \cup {"none"}
    BY <1>0 DEF TaskRows, Phases, Driven, Finalizable
  <2>2. phase = "finish" \/ (phase = t.phase /\ result = t.result)
    OBVIOUS
  <2>3. phase = "finish" => result \in Finalizable
    <3>1. t.phase = "finish" => t.result \in Finalizable
      BY TaskRow DEF Equipped
    <3> QED
      BY <3>1 DEF Finalizable
  <2>4. new \in TaskRows /\ new.phase = phase /\ new.result = result /\ new.run = t.run
        /\ new.fence = t.fence /\ new.tool = t.tool
    <3> HIDE DEF phase, attempt, result
    <3>1. new \in TaskRows
      BY <1>0, <2>1, TaskUpdates
    <3> QED
      BY <1>0, <3>1 DEF TaskRows
  <2>5. StoreMoves /\ ToolsGrow
    BY <1>0, <1>2, HeartbeatMoves
  <2> HIDE DEF new, phase, result
  <2> QED
    BY <1>0, <1>1, <1>2, <2>2, <2>3, <2>4, <2>5, TaskGoesOn
<1>3. CASE (Heartbeat(lease(w, i), 0) \/ UNCHANGED vars) /\ Goto(w, i, "done")
  <2>1. StoreMoves /\ ToolsGrow
    BY <1>0, <1>3, HeartbeatMoves
  <2> QED
    BY <1>0, <1>1, <1>3, <2>1, DeliveryStays, GotoLeaves
<1> QED
  BY <1>2, <1>3 DEF Beat, Refused

(* The finish, as the store commits it, is what the client is told. *)
LEMMA TaskFinishKeeps ==
    ASSUME IInv, WInv, NEW w \in Workers, NEW i \in Slots, TaskFinish(w, i)
    PROVE  WInv'
<1> DEFINE r == task[w][i].run
           k == lease(w, i)
           state == task[w][i].result
<1>0. /\ k \in granted /\ k.run = r /\ r \in Runs /\ state \in Finalizable
      /\ task[w][i].phase # "free"
  BY TaskRow DEF TaskFinish, Driven, Equipped, lease
<1>1. Beside /\ Goto(w, i, "done")
  BY Asides DEF TaskFinish
<1>2. ASSUME Finish(k, 0, state)
      PROVE  StoreMoves /\ ToolsGrow /\ Ends(r)
  <2>1. Next
    BY <1>0, <1>2, WorkerAssumption DEF Next
  <2>2. Ends(r)
    BY <1>0, <1>2, FinishEnds, WorkerAssumption
  <2> QED
    BY <1>0, <2>1, <2>2, StoreStepMoves, EndsKeepsTools, KeptToolsGrow
<1>3. CASE /\ Finish(k, 0, state)
           /\ delivered' = [delivered EXCEPT ![r] = @ \cup {Delivery(runs'[r].state)}]
  <2>1. StoreMoves /\ ToolsGrow /\ Ends(r)
    BY <1>2, <1>3
  <2>2. delivered \in [Runs -> SUBSET {"cancelled", "response"}]
    BY DEF WInv, WTypeOK
  <2>3. Delivery(runs'[r].state) \in {"cancelled", "response"}
    BY DEF Delivery
  <2>4. delivered' \in [Runs -> SUBSET {"cancelled", "response"}]
    BY <1>0, <1>3, <2>2, <2>3
  <2>5. is_terminal(runs'[r].state) /\ ~is_terminal(runs[r].state)
    BY <2>1 DEF Ends, Terminals, is_terminal, RunState, Open
  <2>6. delivered[r] = {}
    BY <1>0, <2>5 DEF WInv, DeliveryAgrees
  <2>7. \A s \in Runs : delivered'[s] = IF s = r THEN {Delivery(runs'[r].state)}
                                                 ELSE delivered[s]
    BY <1>0, <1>3, <2>2, <2>6
  <2>8. \A s \in Runs : is_terminal(runs[s].state) => runs'[s].state = runs[s].state
    BY <2>1 DEF StoreMoves
  <2>9. DeliveryAgrees'
    BY <2>5, <2>7, <2>8 DEF WInv, DeliveryAgrees
  <2> QED
    BY <1>0, <1>1, <2>1, <2>4, <2>9, GotoLeaves
<1>4. CASE (Finish(k, 0, state) \/ UNCHANGED vars) /\ UNCHANGED delivered
  <2>1. StoreMoves /\ ToolsGrow
    BY <1>2, <1>4, StillMoves
  <2> QED
    BY <1>0, <1>1, <1>4, <2>1, DeliveryStays, GotoLeaves
<1> QED
  BY <1>3, <1>4 DEF TaskFinish, Refused

LEMMA TaskExpireKeeps ==
    ASSUME IInv, WInv, NEW w \in Workers, NEW i \in Slots,
           TaskExpire(w, i) \/ TaskExpireFails(w, i)
    PROVE  WInv'
<1> DEFINE r == task[w][i].run
<1>0. task[w][i].phase = "expire" /\ r \in Runs /\ UNCHANGED delivered
  BY TaskRow DEF TaskExpire, TaskExpireFails, Equipped
<1>1. Beside /\ Goto(w, i, "done")
  BY Asides DEF TaskExpire, TaskExpireFails
<1>2. StoreMoves /\ ToolsGrow
  <2>1. CASE Expire(r, 0)
    <3>1. Next /\ Ends(r)
      BY <1>0, <2>1, ExpireEnds, WorkerAssumption DEF Next
    <3> QED
      BY <1>0, <3>1, StoreStepMoves, EndsKeepsTools, KeptToolsGrow
  <2> QED
    BY <2>1, StillMoves DEF TaskExpire, TaskExpireFails
<1> QED
  BY <1>0, <1>1, <1>2, DeliveryStays, GotoLeaves

(* A claim finds a queued run, which has never been leased. *)
LEMMA TaskClaimKeeps ==
    ASSUME IInv, WInv, NEW w \in Workers, NEW i \in Slots, TaskClaim(w, i)
    PROVE  WInv'
<1> DEFINE r == task[w][i].run
<1>0. /\ task[w][i].phase = "claim" /\ r \in Runs /\ task[w][i] \in TaskRows
      /\ UNCHANGED delivered
  BY TaskRow DEF TaskClaim, Equipped
<1>1. Beside
  BY Asides DEF TaskClaim
<1>2. ASSUME Claim(r, w, 0)
      PROVE  StoreMoves /\ ToolsGrow
  <2>1. Next
    BY <1>0, <1>2, WorkerAssumption DEF Next
  <2> QED
    BY <1>0, <1>2, <2>1, StoreStepMoves, ClaimKeepsTools, KeptToolsGrow
<1>3. CASE (Claim(r, w, 0) \/ UNCHANGED vars) /\ Goto(w, i, "done")
  <2>1. StoreMoves /\ ToolsGrow
    BY <1>2, <1>3, StillMoves
  <2> QED
    BY <1>0, <1>1, <1>3, <2>1, DeliveryStays, GotoLeaves
<1>4. CASE /\ Claim(r, w, 0)
           /\ Set(w, i, [task[w][i] EXCEPT !.phase = "model", !.fence = runs'[r].fence])
  <2> DEFINE new == [task[w][i] EXCEPT !.phase = "model", !.fence = runs'[r].fence]
             next == plan_claim(runs[r], w, 0, TTL)
  <2>1. StoreMoves /\ ToolsGrow
    BY <1>2, <1>4
  <2>2. runs'[r] = next /\ runs'[r].fence \in Nat
    <3>1. runs' \in [Runs -> RunRows]
      BY <2>1 DEF StoreMoves, IInv, TypeOK
    <3> QED
      <4>1. runs \in [Runs -> RunRows] /\ runs' = [runs EXCEPT ![r] = next]
        BY <1>4 DEF Claim, IInv, TypeOK
      <4>2. runs'[r] = next
        BY <1>0, <4>1
      <4>3. runs'[r].fence \in Nat
        BY <1>0, <3>1 DEF RunRows
      <4> QED
        BY <4>2, <4>3
  <2>3. [run |-> r, owner |-> w, fence |-> runs'[r].fence] \in granted'
    <3>1. [run |-> r, owner |-> w, fence |-> next.fence] \in granted'
      BY <1>4 DEF Claim
    <3> HIDE DEF next
    <3> QED
      BY <2>2, <3>1
  <2>4. \A k \in granted : k.run # r
    <3>1. runs[r].fence # 1
      BY <1>0, <1>4 DEF Claim, claimable, IInv, RowsSound
    <3> QED
      BY <3>1 DEF IInv, LeasesSound
  <2>5. new \in TaskRows
    BY <1>0, <2>2, TaskUpdates DEF Phases, Driven
  <2>6. new.phase = "model" /\ new.run = r /\ new.fence = runs'[r].fence
    BY <1>0, <2>2 DEF TaskRows
  <2>7. Set(w, i, new)
    BY <1>4
  <2> HIDE DEF new, next
  <2>8. task'[w][i] = new
    BY <2>5, <2>7, OneTaskMoves DEF WInv
  <2>9. lease(w, i)' \in granted'
    BY <2>3, <2>6, <2>8 DEF lease
  <2>10. Equipped(w, i)' /\ Called(w, i)'
    BY <1>0, <2>6, <2>8, <2>9 DEF Equipped, Called
  <2>11. DeliveryAgrees' /\ delivered' \in [Runs -> SUBSET {"cancelled", "response"}]
    BY <1>0, <2>1, DeliveryStays
  <2> QED
    BY <1>1, <2>1, <2>4, <2>5, <2>6, <2>7, <2>10, <2>11, TaskMoves
<1> QED
  BY <1>3, <1>4 DEF TaskClaim

-----------------------------------------------------------------------------
(* The scanner, the processes, the clients and the clock. *)

LEMMA FreeRow == Free \in TaskRows /\ Free.phase = "free"
  BY DEF Free, TaskRows, Phases, Driven

LEMMA ScanKeeps ==
    ASSUME IInv, WInv, NEW w \in Workers, Scan(w)
    PROVE  WInv'
<1>1. PICK i \in Slots, r \in Runs :
          /\ active' = [active EXCEPT ![w] = @ \cup {r}]
          /\ Set(w, i, Spawned(IF runs[r].state = "running" \/ ~authorized(r)
                               THEN "expire" ELSE "claim", r))
  BY DEF Scan
<1>2. PICK phase \in {"expire", "claim"} : Set(w, i, Spawned(phase, r))
  BY <1>1
<1> DEFINE new == Spawned(phase, r)
<1>3. new \in TaskRows /\ new.phase = phase /\ new.run = r
  BY DEF Spawned, Free, TaskRows, Phases, Driven
<1>4. UNCHANGED <<vars, started, live, executed, delivered, faults>>
  BY DEF Scan
<1>5. Beside
  BY <1>1, <1>4 DEF WInv, WTypeOK, Beside
<1>6. StoreMoves /\ ToolsGrow
  BY <1>4, StillMoves
<1>7. phase \notin Driven
  BY DEF Driven
<1> HIDE DEF new
<1> QED
  BY <1>2, <1>3, <1>4, <1>5, <1>6, <1>7, DeliveryStays, TaskLeaves DEF new

LEMMA JoinKeeps ==
    ASSUME IInv, WInv, NEW w \in Workers, NEW i \in Slots, Join(w, i)
    PROVE  WInv'
<1>1. UNCHANGED <<vars, started, live, executed, delivered, faults>> /\ Set(w, i, Free)
  BY DEF Join
<1>2. active' \in [Workers -> SUBSET Runs]
  BY DEF Join, WInv, WTypeOK
<1>3. Beside
  BY <1>1, <1>2 DEF WInv, WTypeOK, Beside
<1>4. StoreMoves /\ ToolsGrow
  BY <1>1, StillMoves
<1>5. Free.phase \notin Driven
  BY FreeRow DEF Driven
<1> QED
  BY <1>1, <1>3, <1>4, <1>5, FreeRow, DeliveryStays, TaskLeaves

LEMMA PanicKeeps ==
    ASSUME IInv, WInv, NEW w \in Workers, NEW i \in Slots, Panic(w, i)
    PROVE  WInv'
<1>1. Beside
  BY Asides DEF Panic
<1>2. UNCHANGED <<vars, delivered>> /\ Goto(w, i, "panicked") /\ task[w][i].phase # "free"
  BY DEF Panic
<1>3. StoreMoves /\ ToolsGrow
  BY <1>2, StillMoves
<1> QED
  BY <1>1, <1>2, <1>3, DeliveryStays, GotoLeaves

(* Steps that no task takes, though they may end some. *)
LEMMA NoTaskMoves ==
    ASSUME IInv, WInv, StoreMoves, ToolsGrow,
           started' \subseteq Workers, live' \subseteq Workers,
           active' \in [Workers -> SUBSET Runs], faults' \in Nat, UNCHANGED executed,
           DeliveryAgrees', delivered' \in [Runs -> SUBSET {"cancelled", "response"}],
           task' \in [Workers -> [Slots -> TaskRows]],
           \A w \in Workers, i \in Slots :
               task'[w][i] = task[w][i] \/ task'[w][i] = Free
    PROVE  WInv'
<1>1. WTypeOK'
  BY DEF WInv, WTypeOK
<1>2. ASSUME NEW w \in Workers, NEW i \in Slots
      PROVE  Equipped(w, i)' /\ Called(w, i)'
  <2>1. CASE task'[w][i] = Free
    BY <2>1, FreeRow DEF Equipped, Called, Driven
  <2>2. CASE task'[w][i] = task[w][i]
    <3>1. Equipped(w, i) /\ Called(w, i) /\ granted \subseteq granted' /\ executed' = executed
      BY TaskRow DEF StoreMoves
    <3>2. Equipped(w, i)'
      BY <2>2, <3>1 DEF Equipped, lease
    <3>3. Called(w, i)'
      BY <2>2, <3>1 DEF Called, Equipped, ToolsGrow
    <3> QED
      BY <3>2, <3>3
  <2> QED
    BY <2>1, <2>2
<1>3. OneDriver'
  <2>1. \A w \in Workers, i \in Slots : task'[w][i].phase \in Driven => task'[w][i] = task[w][i]
    BY FreeRow DEF Driven
  <2> QED
    BY <2>1 DEF WInv, OneDriver
<1>4. InvokedOnce'
  BY DEF WInv, InvokedOnce, ToolsGrow
<1> QED
  BY <1>1, <1>2, <1>3, <1>4 DEF WInv, TasksSound, CallsSound, StoreMoves

LEMMA ProcessKeeps ==
    ASSUME IInv, WInv, NEW w \in Workers, Start(w) \/ Stop(w)
    PROVE  WInv'
<1>1. UNCHANGED <<vars, executed, delivered>>
  BY DEF Start, Stop
<1>2. /\ started' \subseteq Workers /\ live' \subseteq Workers
      /\ active' \in [Workers -> SUBSET Runs] /\ faults' \in Nat
  BY DEF Start, Stop, Fault, WInv, WTypeOK
<1>3. task' \in [Workers -> [Slots -> TaskRows]]
  BY FreeRow DEF Start, Stop, WInv, WTypeOK
<1>4. \A v \in Workers, i \in Slots : task'[v][i] = task[v][i] \/ task'[v][i] = Free
  BY DEF Start, Stop, WInv, WTypeOK
<1>5. StoreMoves /\ ToolsGrow
  BY <1>1, StillMoves
<1> QED
  BY <1>1, <1>2, <1>3, <1>4, <1>5, DeliveryStays, NoTaskMoves

LEMMA ClientsKeep ==
    ASSUME IInv, WInv, StoreMoves, ToolsGrow, UNCHANGED workers
    PROVE  WInv'
<1>1. UNCHANGED <<started, live, active, task, executed, delivered, faults>>
  BY DEF workers
<1> QED
  BY <1>1, DeliveryStays, NoTaskMoves DEF WInv, WTypeOK

LEMMA CancelRequestKeeps ==
    ASSUME IInv, WInv, NEW r \in Runs, CancelRequest(r)
    PROVE  WInv'
<1>0. Cancel(r) /\ UNCHANGED <<started, live, active, task, executed, faults>>
  BY DEF CancelRequest
<1>1. StoreMoves /\ ToolsGrow
  <2>1. Next
    BY <1>0 DEF Next
  <2> QED
    BY <1>0, <2>1, StoreStepMoves, CancelKeepsTools, KeptToolsGrow
<1>2. DeliveryAgrees' /\ delivered' \in [Runs -> SUBSET {"cancelled", "response"}]
  <2>1. CASE delivered' = delivered
    BY <1>1, <2>1, DeliveryStays
  <2>2. CASE /\ runs'[r].state = "cancelled"
             /\ delivered' = [delivered EXCEPT ![r] = @ \cup {"cancelled"}]
    <3>1. delivered \in [Runs -> SUBSET {"cancelled", "response"}]
      BY DEF WInv, WTypeOK
    <3>2. \A s \in Runs : delivered'[s] = IF s = r THEN delivered[s] \cup {"cancelled"}
                                                   ELSE delivered[s]
      BY <2>2, <3>1
    <3>3. is_terminal(runs'[r].state) /\ Delivery(runs'[r].state) = "cancelled"
      BY <2>2 DEF is_terminal, RunState, Delivery
    <3>4. \A s \in Runs : \A d \in delivered[s] :
              is_terminal(runs'[s].state) /\ d = Delivery(runs'[s].state)
      BY <1>1 DEF WInv, DeliveryAgrees, StoreMoves
    <3>5. ASSUME NEW s \in Runs, NEW d \in delivered'[s]
          PROVE  is_terminal(runs'[s].state) /\ d = Delivery(runs'[s].state)
      <4>1. d \in delivered[s] \/ (s = r /\ d = "cancelled")
        BY <3>2
      <4> QED
        BY <3>3, <3>4, <4>1
    <3>6. DeliveryAgrees'
      BY <3>5 DEF DeliveryAgrees
    <3> QED
      BY <2>2, <3>1, <3>6
  <2> QED
    BY <2>1, <2>2 DEF CancelRequest
<1> QED
  BY <1>0, <1>1, <1>2, NoTaskMoves DEF WInv, WTypeOK

(* Every step of the workers, of their clients and of the clock keeps the  *)
(* invariant of the store and the invariant of the workers.                *)
LEMMA WNextKeeps == WInv /\ [WNext]_all => WInv'
<1> SUFFICES ASSUME WInv, [WNext]_all PROVE WInv'
  OBVIOUS
<1>1. IInv
  BY DEF WInv
<1>2. ASSUME NEW w \in Workers, Start(w) \/ Stop(w) \/ Scan(w)
      PROVE  WInv'
  BY <1>1, <1>2, ProcessKeeps, ScanKeeps
<1>3. ASSUME NEW w \in Workers, NEW i \in Slots,
             Step(w, i) \/ Beat(w, i) \/ Panic(w, i) \/ TaskExpireFails(w, i)
      PROVE  WInv'
  BY <1>1, <1>3, JoinKeeps, TaskExpireKeeps, TaskClaimKeeps, RespondKeeps, CallToolKeeps,
     StartToolKeeps, InvokeKeeps, RecordOutcomeKeeps, TaskFinishKeeps, BeatKeeps, PanicKeeps
     DEF Step
<1>4. ASSUME NEW r \in Runs, NEW c \in Conversations, NEW a \in Actors, NEW q \in Requests,
             Accept(r, c, a, q)
      PROVE  WInv'
  <2>1. Submit(r, c, a, q, 0) /\ UNCHANGED workers
    BY <1>4 DEF Accept
  <2>2. Next
    BY <2>1, WorkerAssumption DEF Next
  <2>3. StoreMoves /\ ToolsGrow
    BY <1>1, <2>1, <2>2, StoreStepMoves, SubmitKeepsTools, KeptToolsGrow
  <2> QED
    BY <1>1, <2>1, <2>3, ClientsKeep
<1>5. ASSUME NEW r \in Runs, CancelRequest(r)
      PROVE  WInv'
  BY <1>1, <1>5, CancelRequestKeeps
<1>6. ASSUME NEW a \in Actors, NEW c \in Conversations, LoseAccess(a, c)
      PROVE  WInv'
  <2>1. Revoke(a, c) /\ UNCHANGED workers
    BY <1>6 DEF LoseAccess
  <2>2. Next /\ UNCHANGED committed
    BY <2>1 DEF Next, Revoke
  <2>3. StoreMoves /\ ToolsGrow
    BY <1>1, <2>2, StoreStepMoves DEF ToolsGrow
  <2> QED
    BY <1>1, <2>1, <2>3, ClientsKeep
<1>7. CASE Tick
  BY <1>1, <1>7, TickMoves, KeptToolsGrow, ClientsKeep DEF Tick
<1>8. CASE UNCHANGED all
  <2>1. UNCHANGED vars /\ UNCHANGED workers
    BY <1>8 DEF all
  <2> QED
    BY <1>1, <2>1, StillMoves, ClientsKeep
<1> QED
  BY <1>2, <1>3, <1>4, <1>5, <1>6, <1>7, <1>8 DEF WNext

LEMMA WInitSound == WInit => WInv
<1> SUFFICES ASSUME WInit PROVE WInv
  OBVIOUS
<1>1. IInv
  BY InitIInv DEF WInit
<1>2. \A w \in Workers, i \in Slots : task[w][i] = Free
  BY DEF WInit
<1>3. WTypeOK
  BY FreeRow DEF WInit, WTypeOK
<1>4. TasksSound /\ OneDriver /\ CallsSound
  BY <1>2, FreeRow DEF TasksSound, OneDriver, CallsSound, Equipped, Called, Driven
<1>5. \A r \in Runs : committed[r] = {} /\ delivered[r] = {} /\ \A t \in Tools : executed[r][t] = 0
  BY DEF WInit, Init
<1>6. InvokedOnce /\ DeliveryAgrees
  BY <1>5 DEF InvokedOnce, DeliveryAgrees
<1> QED
  BY <1>1, <1>3, <1>4, <1>6 DEF WInv

LEMMA WInvariant == WSpec => []WInv
  BY WInitSound, WNextKeeps, PTL DEF WSpec

(* The store keeps what it promises when the workers are the ones to use   *)
(* it: one running turn in a conversation, no second execution of a run,   *)
(* cancellations that decide, records that agree, settled tools, the order *)
(* of the queue and settled prompts.                                       *)
THEOREM WorkersKeepStore ==
    WSpec => [](/\ OneRunning /\ NeverReclaimed /\ CancelWins /\ ProjectionAgrees
                /\ ToolsSettled /\ QueueOrder /\ ContextSettled)
<1>1. WInv => /\ OneRunning /\ NeverReclaimed /\ CancelWins /\ ProjectionAgrees
              /\ ToolsSettled /\ QueueOrder /\ ContextSettled
  BY DEF WInv, IInv, NeverReclaimed, RowsSound, LeasesSound
<1> QED
  BY <1>1, WInvariant, PTL

(* A tool call is invoked at most once and only behind a durable start,    *)
(* and a receipt is that of an invocation, whatever crashes, panics,       *)
(* expired leases and lost answers of the store come between: a commit of  *)
(* the start that finds it in the journal does not lead to an invocation.  *)
THEOREM ToolsInvokedOnce == WSpec => []InvokedOnce
<1>1. WInv => InvokedOnce
  BY DEF WInv
<1> QED
  BY <1>1, WInvariant, PTL

(* No run is executed in two places: both tasks would hold the one lease   *)
(* that was ever granted for the run, and within the worker that owns it   *)
(* only one slot claimed it.                                               *)
THEOREM RunsExecutedOnce == WSpec => []OneExecution
<1>1. WInv => OneExecution
  <2> SUFFICES ASSUME WInv, NEW r \in Runs
               PROVE  Cardinality({p \in Workers \X Slots :
                          task[p[1]][p[2]].phase \in Driven /\ task[p[1]][p[2]].run = r}) <= 1
    BY DEF OneExecution
  <2> DEFINE S == {p \in Workers \X Slots :
                     task[p[1]][p[2]].phase \in Driven /\ task[p[1]][p[2]].run = r}
  <2>1. \A p, q \in S : p = q
    <3> SUFFICES ASSUME NEW p \in S, NEW q \in S PROVE p = q
      OBVIOUS
    <3>1. /\ p[1] \in Workers /\ p[2] \in Slots /\ p = <<p[1], p[2]>>
          /\ q[1] \in Workers /\ q[2] \in Slots /\ q = <<q[1], q[2]>>
      OBVIOUS
    <3>2. p[1] = q[1] /\ p[2] = q[2]
      BY <3>1 DEF WInv, OneDriver
    <3> QED
      BY <3>1, <3>2
  <2> HIDE DEF S
  <2>2. CASE S = {}
    BY <2>2, FS_EmptySet DEF S
  <2>3. ASSUME NEW p \in S
        PROVE  Cardinality(S) <= 1
    <3>1. S = {p}
      BY <2>1
    <3> QED
      BY <3>1, FS_Singleton
  <2> QED
    BY <2>2, <2>3 DEF S
<1> QED
  BY <1>1, WInvariant, PTL

(* What a client is told about a turn is how it ended in the store, and    *)
(* that no longer changes.                                                 *)
THEOREM ClientsToldTheEnd == WSpec => []DeliveryAgrees
<1>1. WInv => DeliveryAgrees
  BY DEF WInv
<1> QED
  BY <1>1, WInvariant, PTL
=============================================================================
