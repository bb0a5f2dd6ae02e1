------------------------ MODULE WatchSchedulerProofs ------------------------
(***************************************************************************)
(* Proofs about the watch scheduler, for every number of pods, callers,    *)
(* executions and failures.                                                *)
(*                                                                         *)
(* Four arguments, each on its own invariant over one type invariant: what *)
(* the map of tasks of a pod holds, what the records of executions say,    *)
(* how next_run_at moves, and which executions outlast a disabling.        *)
(***************************************************************************)
EXTENDS WatchScheduler, FiniteSetTheorems, TLAPS

Phases == {"none", "load", "insert", "verify", "disable", "run", "deliver", "fail", "minimal",
           "done", "gone"}
LoopStates == {"down", "missed", "catchup", "boot", "poll", "claim", "won", "recover", "sleep",
               "exited"}
Fires == Nat \cup {Null}

TypeOK ==
    /\ now \in Nat
    /\ watch \in [enabled : BOOLEAN, next : Fires]
    /\ loop \in [Pods -> LoopStates]
    /\ seen \in [Pods -> [next : Fires, at : Nat]]
    /\ tracked \in [Pods -> 0..MaxTasks]
    /\ stop \in [Pods -> {"no", "wait", "keys", "mark", "done"}]
    /\ task \in [Tasks -> [pod : Pods \cup {Null}, phase : Phases, scheduled : BOOLEAN]]
    /\ row \in [Tasks -> [status : {"none", "running", "success", "no_alert", "error"},
                          started : Nat]]
    /\ edit \in [Editors -> [change : {"none", "enable", "disable", "schedule"},
                             enabled : BOOLEAN, next : Fires]]
    /\ claims \in Seq([next : Fires, at : Nat])
    /\ delivered \in SUBSET Tasks

(* Executions are numbered in the order in which they are spawned. *)
Spawned == {j \in Tasks : task[j].phase # "none"}
Numbered ==
    /\ \E n \in 0..MaxTasks : Spawned = 1..n
    /\ \A i \in Tasks : task[i].phase = "none" => task[i].pod = Null

(* The map of a pod holds its scheduled execution under way, and holds     *)
(* nothing between the claim of a slot and the spawn that it is for.       *)
Mapped ==
    /\ \A i \in Tasks : task[i].scheduled /\ ~Finished(i) =>
           task[i].pod \in Pods /\ tracked[task[i].pod] = i
    /\ \A p \in Pods : loop[p] = "won" => tracked[p] = 0
    /\ \A p \in Pods : tracked[p] # 0 => task[tracked[p]].phase # "none"

TaskInv == Numbered /\ Mapped

(* An alert that was sent, or is about to be, is on record as a success,   *)
(* and the execution that it was sent for writes nothing more.             *)
AlertInv ==
    /\ \A i \in Tasks : task[i].phase = "deliver" => row[i].status = "success"
    /\ \A i \in delivered : Finished(i) /\ row[i].status = "success"

(* A pod that is about to move next_run_at read a slot that was due. *)
DueSeen ==
    \A p \in Pods : loop[p] \in {"catchup", "claim"} =>
        seen[p].next \in Nat /\ seen[p].next <= seen[p].at /\ seen[p].at <= now

(* Without edits next_run_at only moves forward, past every claimed slot. *)
SlotInv ==
    /\ watch.next \in Nat
    /\ \A i \in 1..Len(claims) : claims[i].next \in Nat /\ claims[i].next < watch.next
    /\ AtMostOncePerSlot

-----------------------------------------------------------------------------
(* Operators of the model. *)

(* The schedule fires strictly after the instant it is asked about. *)
LEMMA NextRunIsLater ==
    ASSUME NEW t \in Nat
    PROVE  calculate_next_run(t) \in Nat /\ calculate_next_run(t) > t
<1>1. Period \in Nat \ {0}
  BY WatchAssumption
<1>2. t \div Period \in Nat
  BY <1>1
<1>3. ((t \div Period) + 1) * Period \in Nat
  BY <1>1, <1>2
<1>4. ((t \div Period) + 1) * Period > t
  BY <1>1, Z3
<1> QED
  BY <1>3, <1>4 DEF calculate_next_run

(* A new execution takes the number after those in use. *)
LEMMA SpawnTakesNext ==
    ASSUME TypeOK, Numbered, NEW p \in Pods, NEW s \in BOOLEAN, spawn(p, s)
    PROVE  /\ Numbered'
           /\ \E i \in Tasks :
                  /\ task[i].phase = "none"
                  /\ task' = [task EXCEPT ![i] =
                                [pod |-> p, phase |-> "load", scheduled |-> s]]
                  /\ tracked' = IF s THEN [tracked EXCEPT ![p] = i] ELSE tracked
<1>0. MaxTasks \in Nat
  BY WatchAssumption
<1>1. PICK n \in 0..MaxTasks : Spawned = 1..n
  BY DEF Numbered
<1>2. Cardinality(Spawned) = n
  BY <1>0, <1>1, FS_Interval
<1>3. /\ n + 1 \in Tasks
      /\ task' = [task EXCEPT ![n + 1] = [pod |-> p, phase |-> "load", scheduled |-> s]]
      /\ tracked' = IF s THEN [tracked EXCEPT ![p] = n + 1] ELSE tracked
  BY <1>2 DEF spawn, Spawned
<1>4. n + 1 \notin Spawned
  BY <1>0, <1>1
<1>5. task[n + 1].phase = "none"
  BY <1>3, <1>4 DEF Spawned
<1>6. \A j \in Tasks : task'[j].phase # "none" <=> j = n + 1 \/ task[j].phase # "none"
  BY <1>3 DEF TypeOK
<1>7. Spawned' = Spawned \cup {n + 1}
  BY <1>3, <1>6 DEF Spawned
<1>8. Spawned' = 1..(n + 1)
  BY <1>0, <1>1, <1>7
<1>9. n + 1 \in 0..MaxTasks
  BY <1>0, <1>3 DEF Tasks
<1>10. \A j \in Tasks : task'[j].phase = "none" => task'[j].pod = Null
  BY <1>3 DEF Numbered, TypeOK
<1> QED
  BY <1>3, <1>5, <1>8, <1>9, <1>10 DEF Numbered

(* No other step numbers an execution. *)
LEMMA MovesKeepNumbers ==
    ASSUME Numbered,
           \A i \in Tasks : /\ task'[i].phase # "none" <=> task[i].phase # "none"
                            /\ task'[i].pod = task[i].pod
    PROVE  Numbered'
<1>1. Spawned' = Spawned
  BY DEF Spawned
<1> QED
  BY <1>1 DEF Numbered

-----------------------------------------------------------------------------
(* Types. *)

LEMMA TypeInit == Init => TypeOK
<1> SUFFICES ASSUME Init PROVE TypeOK
  OBVIOUS
<1>1. Period \in Nat /\ MaxTasks \in Nat
  BY WatchAssumption
<1>2. watch \in [enabled : BOOLEAN, next : Fires]
  BY <1>1 DEF Init, Fires
<1>3. seen \in [Pods -> [next : Fires, at : Nat]] /\ tracked \in [Pods -> 0..MaxTasks]
  BY <1>1 DEF Init, Fires
<1>4. edit \in [Editors -> [change : {"none", "enable", "disable", "schedule"},
                            enabled : BOOLEAN, next : Fires]]
  BY DEF Init, NoEdit, Fires
<1>5. /\ task \in [Tasks -> [pod : Pods \cup {Null}, phase : Phases, scheduled : BOOLEAN]]
      /\ row \in [Tasks -> [status : {"none", "running", "success", "no_alert", "error"},
                            started : Nat]]
  BY DEF Init, NoTask, NoRow, Phases
<1> QED
  BY <1>2, <1>3, <1>4, <1>5 DEF Init, TypeOK, LoopStates

(* The recoveries rewrite statuses only. *)
LEMMA GiveUpType ==
    ASSUME TypeOK, NEW covered \in SUBSET Tasks, give_up(covered)
    PROVE  /\ row' \in [Tasks -> [status : {"none", "running", "success", "no_alert", "error"},
                                  started : Nat]]
           /\ \A i \in Tasks : row[i].status = "success" => row'[i].status = "success"
<1>1. \A i \in Tasks : row'[i] \in
          [status : {"none", "running", "success", "no_alert", "error"}, started : Nat]
  BY DEF give_up, TypeOK
<1> QED
  BY <1>1 DEF give_up, TypeOK, Running

LEMMA SpawnType ==
    ASSUME TypeOK, NEW p \in Pods, NEW s \in BOOLEAN, spawn(p, s)
    PROVE  /\ tracked' \in [Pods -> 0..MaxTasks]
           /\ task' \in [Tasks -> [pod : Pods \cup {Null}, phase : Phases,
                                   scheduled : BOOLEAN]]
<1>1. PICK i \in Tasks :
          /\ task' = [task EXCEPT ![i] = [pod |-> p, phase |-> "load", scheduled |-> s]]
          /\ tracked' = IF s THEN [tracked EXCEPT ![p] = i] ELSE tracked
  BY DEF spawn
<1>2. i \in 0..MaxTasks
  BY WatchAssumption DEF Tasks
<1> QED
  BY <1>1, <1>2 DEF TypeOK, Phases

LEMMA ReadType ==
    ASSUME TypeOK, NEW p \in Pods, NEW wanted, NEW found \in LoopStates,
           NEW otherwise \in LoopStates, read_watch(p, wanted, found, otherwise)
    PROVE  loop' \in [Pods -> LoopStates] /\ seen' \in [Pods -> [next : Fires, at : Nat]]
<1>1. [next |-> watch.next, at |-> now] \in [next : Fires, at : Nat]
  BY DEF TypeOK
<1> QED
  BY <1>1 DEF TypeOK, read_watch

LEMMA EndProcessType ==
    ASSUME TypeOK, NEW p \in Pods, end_process(p)
    PROVE  TypeOK'
<1>1. seen' \in [Pods -> [next : Fires, at : Nat]]
  BY DEF TypeOK, end_process, Fires
<1>2. tracked' \in [Pods -> 0..MaxTasks]
  BY WatchAssumption DEF TypeOK, end_process
<1>3. task' \in [Tasks -> [pod : Pods \cup {Null}, phase : Phases, scheduled : BOOLEAN]]
  <2>1. ASSUME NEW i \in Tasks
        PROVE  task'[i] \in [pod : Pods \cup {Null}, phase : Phases, scheduled : BOOLEAN]
    <3>1. \/ task'[i] = [task[i] EXCEPT !.phase = "gone"]
          \/ task'[i] = task[i]
      BY DEF end_process
    <3> QED
      BY <3>1 DEF TypeOK, Phases
  <2> QED
    BY <2>1 DEF end_process
<1> QED
  BY <1>1, <1>2, <1>3 DEF TypeOK, end_process, LoopStates, user_vars

LEMMA PodStepsType ==
    ASSUME TypeOK, NEW p \in Pods,
           Start(p) \/ LoopStep(p) \/ Signal(p) \/ StopStep(p) \/ Crash(p)
    PROVE  TypeOK'
<1> USE DEF user_vars
<1>1. CASE Start(p)
  BY <1>1 DEF Start, TypeOK, LoopStates
<1>2. CASE CheckMissed(p)
  <2>1. {"catchup", "claim", "recover", "boot"} \subseteq LoopStates
    BY DEF LoopStates
  <2>2. /\ loop' \in [Pods -> LoopStates]
        /\ seen' \in [Pods -> [next : Fires, at : Nat]]
    <3> DEFINE wanted == (/\ watch.enabled /\ watch.next # Null
                     /\ watch.next < now /\ watch.next >= now - Cutoff)
    <3>1. CASE read_watch(p, wanted, "catchup", "boot")
      BY <2>1, <3>1, ReadType
    <3>2. CASE loop' = [loop EXCEPT ![p] = "boot"] /\ UNCHANGED seen
      BY <2>1, <3>2 DEF TypeOK
    <3> HIDE DEF wanted
    <3> QED
      BY <1>2, <3>1, <3>2 DEF CheckMissed, wanted
  <2> QED
    BY <1>2, <2>2 DEF CheckMissed, TypeOK
<1>3. CASE Reschedule(p)
  <2>1. seen[p].at + Jitter \in Fires
    <3>1. seen[p].at \in Nat /\ Jitter \in Nat
      BY WatchAssumption DEF TypeOK
    <3> QED
      BY <3>1 DEF Fires
  <2>2. watch' \in [enabled : BOOLEAN, next : Fires]
    BY <1>3, <2>1 DEF Reschedule, compare_and_swap, TypeOK
  <2>3. seen' \in [Pods -> [next : Fires, at : Nat]]
    BY <1>3 DEF Reschedule, TypeOK, Fires
  <2> QED
    BY <1>3, <2>2, <2>3 DEF Reschedule, TypeOK, LoopStates
<1>4. CASE Poll(p)
  <2>1. tracked' \in [Pods -> 0..MaxTasks]
    BY <1>4, WatchAssumption DEF Poll, TypeOK
  <2>2. {"catchup", "claim", "recover", "boot"} \subseteq LoopStates
    BY DEF LoopStates
  <2>3. /\ loop' \in [Pods -> LoopStates]
        /\ seen' \in [Pods -> [next : Fires, at : Nat]]
    <3> DEFINE wanted == (/\ watch.enabled /\ watch.next # Null
                     /\ watch.next <= now /\ paid)
    <3>1. CASE read_watch(p, wanted, "claim", "recover")
      BY <2>2, <3>1, ReadType
    <3>2. CASE loop' = [loop EXCEPT ![p] = "recover"] /\ UNCHANGED seen
      BY <2>2, <3>2 DEF TypeOK
    <3> HIDE DEF wanted
    <3> QED
      BY <1>4, <3>1, <3>2 DEF Poll, wanted
  <2> QED
    BY <1>4, <2>1, <2>3 DEF Poll, TypeOK
<1>5. CASE Claim(p)
  <2>1. calculate_next_run(now) \in Fires
    BY NextRunIsLater DEF TypeOK, Fires
  <2>2. watch' \in [enabled : BOOLEAN, next : Fires]
    BY <1>5, <2>1 DEF Claim, compare_and_swap, TypeOK
  <2>3. seen' \in [Pods -> [next : Fires, at : Nat]]
    BY <1>5 DEF Claim, TypeOK, Fires
  <2>4. claims' \in Seq([next : Fires, at : Nat])
    <3>1. claims' = Append(claims, seen[p]) \/ claims' = claims
      BY <1>5 DEF Claim
    <3>2. claims \in Seq([next : Fires, at : Nat]) /\ seen[p] \in [next : Fires, at : Nat]
      BY DEF TypeOK
    <3>3. \A S : \A x \in S : \A q \in Seq(S) : Append(q, x) \in Seq(S)
      OBVIOUS
    <3> QED
      BY <3>1, <3>2, <3>3, Zenon
  <2> QED
    BY <1>5, <2>2, <2>3, <2>4 DEF Claim, TypeOK, LoopStates
<1>6. CASE Spawn(p)
  <2>1. /\ tracked' \in [Pods -> 0..MaxTasks]
        /\ task' \in [Tasks -> [pod : Pods \cup {Null}, phase : Phases, scheduled : BOOLEAN]]
    BY <1>6, SpawnType DEF Spawn, TypeOK
  <2> QED
    BY <1>6, <2>1 DEF Spawn, TypeOK, LoopStates
<1>7. CASE Recover(p)
  <2>1. row' \in [Tasks -> [status : {"none", "running", "success", "no_alert", "error"},
                            started : Nat]]
    BY <1>7, GiveUpType DEF Recover, recover_orphaned_executions, TypeOK
  <2> QED
    BY <1>7, <2>1 DEF Recover, TypeOK, LoopStates
<1>8. CASE Wake(p)
  BY <1>8 DEF Wake, TypeOK, LoopStates
<1>9. CASE Signal(p)
  BY <1>9 DEF Signal, TypeOK
<1>10. CASE StopWaiting(p)
  <2>1. tracked' \in [Pods -> 0..MaxTasks]
    <3>1. tracked \in [Pods -> 0..MaxTasks] /\ 0 \in 0..MaxTasks
      BY WatchAssumption DEF TypeOK
    <3>2. tracked' = tracked \/ tracked' = [tracked EXCEPT ![p] = 0]
      BY <1>10 DEF StopWaiting
    <3> QED
      BY <3>1, <3>2
  <2>2. task' \in [Tasks -> [pod : Pods \cup {Null}, phase : Phases, scheduled : BOOLEAN]]
    <3>1. CASE UNCHANGED task
      BY <3>1 DEF TypeOK
    <3>2. CASE tracked[p] # 0 /\ task' = [task EXCEPT ![tracked[p]].phase = "gone"]
      <4>1. tracked[p] \in Tasks
        BY <3>2, WatchAssumption DEF TypeOK, Tasks
      <4>2. task \in [Tasks -> [pod : Pods \cup {Null}, phase : Phases, scheduled : BOOLEAN]]
        BY DEF TypeOK
      <4>3. "gone" \in Phases
        BY DEF Phases
      <4> QED
        BY <3>2, <4>1, <4>2, <4>3
    <3> QED
      BY <1>10, <3>1, <3>2 DEF StopWaiting
  <2> QED
    BY <1>10, <2>1, <2>2 DEF StopWaiting, TypeOK
<1>11. CASE TakeKeys(p)
  BY <1>11 DEF TakeKeys, TypeOK
<1>12. CASE MarkInterrupted(p)
  <2>1. row' \in [Tasks -> [status : {"none", "running", "success", "no_alert", "error"},
                            started : Nat]]
    BY <1>12, GiveUpType DEF MarkInterrupted, TypeOK
  <2> QED
    BY <1>12, <2>1 DEF MarkInterrupted, TypeOK
<1>13. CASE Exit(p) \/ Crash(p)
  BY <1>13, EndProcessType DEF Exit, Crash
<1> QED
  BY <1>1, <1>2, <1>3, <1>4, <1>5, <1>6, <1>7, <1>8, <1>9, <1>10, <1>11, <1>12, <1>13
     DEF LoopStep, StopStep

(* What the steps of an execution may do: they move the execution, write   *)
(* its own record, deliver an alert once the record is there, and disable  *)
(* the watch.                                                              *)
MayDisable ==
    /\ watch' \in {watch, [watch EXCEPT !.enabled = FALSE]}
    /\ notes_off

OwnRecord(i) ==
    /\ row' \in [Tasks -> [status : {"none", "running", "success", "no_alert", "error"},
                           started : Nat]]
    /\ \A j \in Tasks \ {i} : row'[j] = row[j]

LEMMA TaskSteps ==
    ASSUME TypeOK, NEW i \in Tasks, TaskStep(i) \/ Panic(i)
    PROVE  /\ UNCHANGED <<now, pod_vars, claims, edit, call, paid, edits>>
           /\ MayDisable
           /\ task[i].phase # "none" /\ ~Finished(i)
           /\ OwnRecord(i)
           /\ \E ph \in Phases \ {"none"} :
                  /\ task' = [task EXCEPT ![i].phase = ph]
                  /\ ph = "deliver" => row'[i].status = "success"
           /\ \/ delivered' = delivered
              \/ /\ task[i].phase = "deliver" /\ row' = row
                 /\ task'[i].phase = "done" /\ delivered' = delivered \cup {i}
<1> DEFINE Status == {"none", "running", "success", "no_alert", "error"}
<1>0. ASSUME NEW st \in Status, NEW t \in Nat,
             row' = row \/ row' = [row EXCEPT ![i] = [status |-> st, started |-> t]]
      PROVE  OwnRecord(i)
  <2>1. CASE row' = row
    BY <2>1 DEF OwnRecord, TypeOK
  <2>2. CASE row' = [row EXCEPT ![i] = [status |-> st, started |-> t]]
    BY <2>2 DEF OwnRecord, TypeOK
  <2> QED
    BY <1>0, <2>1, <2>2
<1>1. ASSUME NEW st \in Status, writes(i, st)
      PROVE  OwnRecord(i) /\ row'[i].status = st
  BY <1>1 DEF OwnRecord, TypeOK, writes
<1>2. row[i].started \in Nat /\ now \in Nat
  BY DEF TypeOK
<1>3. task_only => /\ UNCHANGED <<now, pod_vars, claims, edit, call, paid, edits>>
                   /\ MayDisable
  BY DEF task_only, MayDisable, user_vars, notes_off
<1>4. CASE Load(i)
  <2>1. OwnRecord(i)
    BY <1>0, <1>2, <1>4 DEF Load
  <2>2. \E ph \in {"insert", "done"} : Goes(i, ph)
    BY <1>4 DEF Load
  <2> QED
    BY <1>3, <1>4, <2>1, <2>2 DEF Load, Goes, Finished, Phases
<1>5. CASE Insert(i)
  <2>1. OwnRecord(i)
    BY <1>0, <1>2, <1>5 DEF Insert, maybe
  <2>2. \E ph \in {"verify", "done"} : Goes(i, ph)
    BY <1>5 DEF Insert
  <2> QED
    BY <1>3, <1>5, <2>1, <2>2 DEF Insert, Goes, Finished, Phases
<1>6. CASE Verify(i)
  <2>1. OwnRecord(i)
    <3>1. CASE row' = row
      BY <1>0, <1>2, <3>1
    <3>2. CASE writes(i, "no_alert")
      BY <1>1, <3>2
    <3>3. CASE maybe(i, "no_alert", row[i].started)
      BY <1>0, <1>2, <3>3 DEF maybe
    <3> QED
      BY <1>6, <3>1, <3>2, <3>3 DEF Verify
  <2>2. \E ph \in {"run", "disable", "fail", "done"} : Goes(i, ph)
    BY <1>6 DEF Verify
  <2> QED
    BY <1>3, <1>6, <2>1, <2>2 DEF Verify, Goes, Finished, Phases
<1>7. CASE DisableWatch(i)
  <2>1. OwnRecord(i)
    BY <1>0, <1>2, <1>7 DEF DisableWatch
  <2>2. MayDisable
    BY <1>7 DEF DisableWatch, MayDisable
  <2>3. "fail" \in Phases \ {"none"} /\ "fail" # "deliver"
    BY DEF Phases
  <2>4. task' = [task EXCEPT ![i].phase = "fail"] /\ delivered' = delivered
    BY <1>7 DEF DisableWatch, Goes
  <2>5. task[i].phase # "none" /\ ~Finished(i)
    BY <1>7 DEF DisableWatch, Finished
  <2>6. UNCHANGED <<now, pod_vars, claims, edit, call, paid, edits>>
    BY <1>7 DEF DisableWatch
  <2> QED
    BY <2>1, <2>2, <2>3, <2>4, <2>5, <2>6
<1>8. CASE Conclude(i)
  <2>1. CASE writes(i, "success") /\ Goes(i, "deliver")
    BY <1>1, <1>3, <1>8, <2>1 DEF Conclude, Goes, Finished, Phases
  <2>2. CASE writes(i, "no_alert") /\ Goes(i, "done")
    <3>1. OwnRecord(i)
      BY <1>1, <2>2
    <3>2. "done" \in Phases \ {"none"} /\ "done" # "deliver"
      BY DEF Phases
    <3>3. task' = [task EXCEPT ![i].phase = "done"] /\ delivered' = delivered
      BY <1>8, <2>2 DEF Conclude, Goes
    <3>4. task_only /\ task[i].phase # "none" /\ ~Finished(i)
      BY <1>8 DEF Conclude, Finished
    <3> QED
      BY <1>3, <3>1, <3>2, <3>3, <3>4
  <2>3. CASE Goes(i, "fail") /\ UNCHANGED row
    <3>1. OwnRecord(i)
      BY <1>0, <1>2, <2>3
    <3>2. "fail" \in Phases \ {"none"} /\ "fail" # "deliver"
      BY DEF Phases
    <3>3. task' = [task EXCEPT ![i].phase = "fail"] /\ delivered' = delivered
      BY <1>8, <2>3 DEF Conclude, Goes
    <3>4. task_only /\ task[i].phase # "none" /\ ~Finished(i)
      BY <1>8 DEF Conclude, Finished
    <3> QED
      BY <1>3, <3>1, <3>2, <3>3, <3>4
  <2>4. ASSUME NEW st \in {"success", "no_alert"}, maybe(i, st, row[i].started),
               Goes(i, "fail")
        PROVE  OwnRecord(i)
    BY <1>0, <1>2, <2>4 DEF maybe
  <2>5. CASE /\ \E st \in {"success", "no_alert"} : maybe(i, st, row[i].started)
             /\ Goes(i, "fail")
    <3>1. OwnRecord(i)
      BY <2>4, <2>5
    <3>2. "fail" \in Phases \ {"none"} /\ "fail" # "deliver"
      BY DEF Phases
    <3>3. task' = [task EXCEPT ![i].phase = "fail"] /\ delivered' = delivered
      BY <1>8, <2>5 DEF Conclude, Goes
    <3>4. task_only /\ task[i].phase # "none" /\ ~Finished(i)
      BY <1>8 DEF Conclude, Finished
    <3> QED
      BY <1>3, <3>1, <3>2, <3>3, <3>4
  <2> QED
    BY <1>8, <2>1, <2>2, <2>3, <2>5 DEF Conclude
<1>9. CASE Deliver(i)
  <2>1. OwnRecord(i)
    BY <1>0, <1>2, <1>9 DEF Deliver
  <2>2. task'[i].phase = "done"
    BY <1>9 DEF Deliver, Goes, TypeOK
  <2> QED
    BY <1>3, <1>9, <2>1, <2>2 DEF Deliver, Goes, Finished, Phases
<1>10. CASE RecordFailure(i)
  <2>1. OwnRecord(i)
    BY <1>0, <1>1, <1>2, <1>10 DEF RecordFailure, maybe
  <2>2. \E ph \in {"minimal", "done"} : Goes(i, ph)
    BY <1>10 DEF RecordFailure
  <2> QED
    BY <1>3, <1>10, <2>1, <2>2 DEF RecordFailure, Goes, Finished, Phases
<1>11. CASE Panic(i)
  <2>1. OwnRecord(i)
    BY <1>0, <1>2, <1>11 DEF Panic
  <2>2. "done" \in Phases \ {"none"} /\ "done" # "deliver"
    BY DEF Phases
  <2>3. task' = [task EXCEPT ![i].phase = "done"] /\ delivered' = delivered
    BY <1>11 DEF Panic, Goes
  <2> QED
    BY <1>3, <1>11, <2>1, <2>2, <2>3 DEF Panic
<1> QED
  BY <1>4, <1>5, <1>6, <1>7, <1>8, <1>9, <1>10, <1>11 DEF TaskStep

(* What an edit is about to write: enabled and next_run_at go together. *)
LEMMA EditOutcomes ==
    ASSUME TypeOK, NEW e \in Editors, ReadForUpdate(e)
    PROVE  \E change \in {"enable", "disable", "schedule"}, enabled \in BOOLEAN :
               /\ change = "schedule" => enabled = watch.enabled
               /\ edit' = [edit EXCEPT ![e] =
                     [change |-> change, enabled |-> enabled,
                      next |-> IF enabled THEN calculate_next_run(now) ELSE Null]]
<1> DEFINE Enabled(change) == CASE change = "enable" -> TRUE
                                [] change = "disable" -> FALSE
                                [] OTHER -> watch.enabled
<1>1. PICK change \in {"enable", "disable", "schedule"} :
          edit' = [edit EXCEPT ![e] =
              [change |-> change, enabled |-> Enabled(change),
               next |-> IF Enabled(change) THEN calculate_next_run(now) ELSE Null]]
  BY Zenon DEF ReadForUpdate
<1>2. Enabled(change) \in BOOLEAN /\ (change = "schedule" => Enabled(change) = watch.enabled)
  BY DEF TypeOK
<1> HIDE DEF Enabled
<1> QED
  BY <1>1, <1>2, Zenon

LEMMA TypeStep == TypeOK /\ [Next]_vars => TypeOK'
<1> SUFFICES ASSUME TypeOK, [Next]_vars PROVE TypeOK'
  OBVIOUS
<1>1. ASSUME NEW p \in Pods, Start(p) \/ LoopStep(p) \/ Signal(p) \/ StopStep(p) \/ Crash(p)
      PROVE  TypeOK'
  BY <1>1, PodStepsType
<1>2. ASSUME NEW i \in Tasks, TaskStep(i) \/ Panic(i)
      PROVE  TypeOK'
  <2>1. PICK ph \in Phases : task' = [task EXCEPT ![i].phase = ph]
    BY <1>2, TaskSteps
  <2>2. task' \in [Tasks -> [pod : Pods \cup {Null}, phase : Phases, scheduled : BOOLEAN]]
    <3>1. task \in [Tasks -> [pod : Pods \cup {Null}, phase : Phases, scheduled : BOOLEAN]]
      BY DEF TypeOK
    <3> QED
      BY <2>1, <3>1
  <2>3. /\ UNCHANGED <<now, pod_vars, claims, edit>>
        /\ OwnRecord(i) /\ delivered' \in SUBSET Tasks
    <3>1. delivered \in SUBSET Tasks
      BY DEF TypeOK
    <3> QED
      BY <1>2, <3>1, TaskSteps
  <2>4. watch' \in [enabled : BOOLEAN, next : Fires]
    <3>1. MayDisable
      BY <1>2, TaskSteps
    <3> QED
      BY <3>1 DEF MayDisable, TypeOK
  <2> QED
    BY <2>2, <2>3, <2>4 DEF OwnRecord, TypeOK, pod_vars
<1>3. ASSUME NEW e \in Editors, ReadForUpdate(e)
      PROVE  TypeOK'
  <2> DEFINE Edits == [change : {"none", "enable", "disable", "schedule"},
                       enabled : BOOLEAN, next : Fires]
  <2>1. calculate_next_run(now) \in Fires /\ Null \in Fires
    BY NextRunIsLater DEF TypeOK, Fires
  <2>2. \E new \in Edits : edit' = [edit EXCEPT ![e] = new]
    <3>1. PICK change \in {"enable", "disable", "schedule"}, enabled \in BOOLEAN :
              edit' = [edit EXCEPT ![e] =
                  [change |-> change, enabled |-> enabled,
                   next |-> IF enabled THEN calculate_next_run(now) ELSE Null]]
      BY <1>3, EditOutcomes
    <3>2. [change |-> change, enabled |-> enabled,
           next |-> IF enabled THEN calculate_next_run(now) ELSE Null] \in Edits
      BY <2>1
    <3> QED
      BY <3>1, <3>2, Zenon
  <2>3. edit' \in [Editors -> Edits]
    BY <2>2 DEF TypeOK
  <2> QED
    BY <1>3, <2>3 DEF ReadForUpdate, TypeOK, pod_vars
<1>4. ASSUME NEW e \in Editors, WriteUpdate(e)
      PROVE  TypeOK'
  <2>1. watch' \in [enabled : BOOLEAN, next : Fires]
    BY <1>4 DEF WriteUpdate, TypeOK
  <2>2. edit' \in [Editors -> [change : {"none", "enable", "disable", "schedule"},
                               enabled : BOOLEAN, next : Fires]]
    BY <1>4 DEF WriteUpdate, TypeOK, NoEdit, Fires
  <2> QED
    BY <1>4, <2>1, <2>2 DEF WriteUpdate, TypeOK, pod_vars
<1>5. ASSUME NEW c \in Callers, ExpireStale(c)
      PROVE  TypeOK'
  <2>1. row' \in [Tasks -> [status : {"none", "running", "success", "no_alert", "error"},
                            started : Nat]]
    BY <1>5, GiveUpType DEF ExpireStale
  <2> QED
    BY <1>5, <2>1 DEF ExpireStale, TypeOK, pod_vars
<1>6. ASSUME NEW c \in Callers, CanRunNow(c)
      PROVE  TypeOK'
  BY <1>6 DEF CanRunNow, TypeOK, pod_vars
<1>7. ASSUME NEW c \in Callers, RunNow(c)
      PROVE  TypeOK'
  <2>1. /\ tracked' \in [Pods -> 0..MaxTasks]
        /\ task' \in [Tasks -> [pod : Pods \cup {Null}, phase : Phases, scheduled : BOOLEAN]]
    BY <1>7, SpawnType DEF RunNow
  <2> QED
    BY <1>7, <2>1 DEF RunNow, TypeOK
<1>8. CASE BillingChanges \/ Tick \/ UNCHANGED vars
  BY <1>8 DEF BillingChanges, Tick, TypeOK, vars, pod_vars, user_vars
<1> QED
  BY <1>1, <1>2, <1>3, <1>4, <1>5, <1>6, <1>7, <1>8 DEF Next

(* The state of the scheduler has its type. *)
THEOREM Typing == Spec => []TypeOK
  BY TypeInit, TypeStep, PTL DEF Spec

-----------------------------------------------------------------------------
(* The map of tasks. *)

LEMMA TrackedTask ==
    ASSUME TypeOK, NEW p \in Pods, tracked[p] # 0
    PROVE  tracked[p] \in Tasks
  BY WatchAssumption DEF TypeOK, Tasks

(* Steps that spawn nothing, leave the map alone and win no claim. *)
LEMMA MapQuiet ==
    ASSUME TypeOK, TypeOK', TaskInv, UNCHANGED <<task, tracked>>,
           \A p \in Pods : loop'[p] = "won" => loop[p] = "won" \/ tracked[p] = 0
    PROVE  TaskInv'
<1>1. Numbered'
  BY MovesKeepNumbers DEF TaskInv
<1> QED
  BY <1>1 DEF TaskInv, Mapped, Finished, TypeOK

(* An execution that moves on stays where it is in the map. *)
LEMMA MapMove ==
    ASSUME TypeOK, TaskInv, UNCHANGED <<loop, tracked>>,
           NEW i \in Tasks, NEW ph \in Phases \ {"none"}, task[i].phase # "none", ~Finished(i),
           task' = [task EXCEPT ![i].phase = ph]
    PROVE  TaskInv'
<1>1. \A j \in Tasks : /\ task'[j].phase = IF j = i THEN ph ELSE task[j].phase
                       /\ task'[j].scheduled = task[j].scheduled
                       /\ task'[j].pod = task[j].pod
  BY DEF TypeOK
<1>2. Numbered'
  BY <1>1, MovesKeepNumbers DEF TaskInv
<1>3. \A j \in Tasks : ~Finished(j)' => ~Finished(j)
  BY <1>1 DEF Finished
<1>4. \A p \in Pods : tracked[p] # 0 => tracked[p] \in Tasks
  BY TrackedTask
<1>5. \A p \in Pods : tracked'[p] # 0 => task'[tracked'[p]].phase # "none"
  BY <1>1, <1>4 DEF TaskInv, Mapped
<1> QED
  BY <1>1, <1>2, <1>3, <1>5 DEF TaskInv, Mapped

LEMMA MapSpawn ==
    ASSUME TypeOK, TaskInv, NEW p \in Pods, NEW s \in BOOLEAN, spawn(p, s),
           s => tracked[p] = 0,
           \A q \in Pods : loop'[q] = "won" => loop[q] = "won" /\ (s => q # p)
    PROVE  TaskInv'
<1>1. Numbered /\ Numbered'
  BY SpawnTakesNext DEF TaskInv
<1>2. PICK i \in Tasks :
          /\ task[i].phase = "none"
          /\ task' = [task EXCEPT ![i] = [pod |-> p, phase |-> "load", scheduled |-> s]]
          /\ tracked' = IF s THEN [tracked EXCEPT ![p] = i] ELSE tracked
  BY <1>1, SpawnTakesNext
<1>3. ASSUME NEW j \in Tasks, task'[j].scheduled, ~Finished(j)'
      PROVE  task'[j].pod \in Pods /\ tracked'[task'[j].pod] = j
  <2>1. CASE j = i
    BY <1>2, <1>3, <2>1 DEF TypeOK
  <2>2. CASE j # i
    <3>1. task'[j] = task[j]
      BY <1>2, <2>2 DEF TypeOK
    <3>2. task[j].scheduled /\ ~Finished(j)
      BY <1>3, <3>1 DEF Finished
    <3>3. task[j].pod \in Pods /\ tracked[task[j].pod] = j
      BY <3>2 DEF TaskInv, Mapped
    <3>4. j # 0
      BY WatchAssumption DEF Tasks
    <3>5. s => task[j].pod # p
      BY <3>3, <3>4
    <3> QED
      BY <1>2, <3>1, <3>3, <3>5 DEF TypeOK
  <2> QED
    BY <2>1, <2>2
<1>4. \A q \in Pods : loop'[q] = "won" => tracked'[q] = 0
  BY <1>2 DEF TaskInv, Mapped, TypeOK
<1>5. ASSUME NEW q \in Pods, tracked'[q] # 0
      PROVE  task'[tracked'[q]].phase # "none"
  <2>1. tracked'[q] = i \/ tracked'[q] = tracked[q]
    BY <1>2 DEF TypeOK
  <2>2. \A j \in Tasks : task'[j].phase # "none" <=> j = i \/ task[j].phase # "none"
    BY <1>2 DEF TypeOK
  <2> QED
    BY <1>5, <2>1, <2>2, TrackedTask DEF TaskInv, Mapped
<1> QED
  BY <1>1, <1>3, <1>4, <1>5 DEF TaskInv, Mapped

(* A process that ends takes its tasks with it. *)
LEMMA MapEnds ==
    ASSUME TypeOK, TaskInv, NEW p \in Pods, end_process(p)
    PROVE  TaskInv'
<1>1. ASSUME NEW j \in Tasks
      PROVE  /\ task'[j].scheduled = task[j].scheduled /\ task'[j].pod = task[j].pod
             /\ Finished(j) => task'[j].phase = task[j].phase
             /\ ~Finished(j) /\ task[j].pod # p => task'[j].phase = task[j].phase
             /\ ~Finished(j) /\ task[j].pod = p => task'[j].phase = "gone"
  <2>1. task[j] \in [pod : Pods \cup {Null}, phase : Phases, scheduled : BOOLEAN]
    BY DEF TypeOK
  <2>2. task'[j] = IF task[j].pod = p /\ ~Finished(j)
                   THEN [task[j] EXCEPT !.phase = "gone"] ELSE task[j]
    BY DEF end_process
  <2> QED
    BY <2>1, <2>2
<1>2. ASSUME NEW j \in Tasks
      PROVE  task'[j].phase # "none" <=> task[j].phase # "none"
  <2>1. task[j].phase = "none" => task[j].pod # p
    BY PodAssumption DEF TaskInv, Numbered
  <2> QED
    BY <1>1, <2>1 DEF Finished
<1>3. Numbered'
  BY <1>1, <1>2, MovesKeepNumbers DEF TaskInv
<1>4. ASSUME NEW j \in Tasks, task'[j].scheduled, ~Finished(j)'
      PROVE  task'[j].pod \in Pods /\ tracked'[task'[j].pod] = j
  <2>1. task[j].scheduled /\ ~Finished(j) /\ task[j].pod # p
    BY <1>1, <1>4 DEF Finished
  <2>2. task[j].pod \in Pods /\ tracked[task[j].pod] = j
    BY <2>1 DEF TaskInv, Mapped
  <2> QED
    BY <1>1, <2>1, <2>2 DEF end_process, TypeOK
<1>5. \A q \in Pods : loop'[q] = "won" => tracked'[q] = 0
  BY DEF end_process, TypeOK, TaskInv, Mapped
<1>6. ASSUME NEW q \in Pods, tracked'[q] # 0
      PROVE  task'[tracked'[q]].phase # "none"
  <2>1. tracked'[q] = tracked[q]
    BY <1>6 DEF end_process, TypeOK
  <2> QED
    BY <1>2, <1>6, <2>1, TrackedTask DEF TaskInv, Mapped
<1> QED
  BY <1>3, <1>4, <1>5, <1>6 DEF TaskInv, Mapped

LEMMA MapPodSteps ==
    ASSUME TypeOK, TypeOK', TaskInv, NEW p \in Pods,
           Start(p) \/ LoopStep(p) \/ Signal(p) \/ StopStep(p) \/ Crash(p)
    PROVE  TaskInv'
<1>1. CASE Start(p) \/ CheckMissed(p) \/ Reschedule(p) \/ Recover(p) \/ Wake(p)
  <2>1. \A q \in Pods : loop'[q] = "won" => loop[q] = "won"
    BY <1>1 DEF TypeOK, Start, CheckMissed, read_watch, Reschedule, Recover, Wake
  <2>2. UNCHANGED <<task, tracked>>
    BY <1>1 DEF Start, CheckMissed, Reschedule, Recover, Wake
  <2> QED
    BY <2>1, <2>2, MapQuiet
<1>2. CASE Poll(p)
  <2>1. /\ UNCHANGED task
        /\ \/ tracked' = tracked
           \/ /\ tracked[p] # 0 /\ Finished(tracked[p])
              /\ tracked' = [tracked EXCEPT ![p] = 0]
    BY <1>2 DEF Poll
  <2>2. Numbered'
    BY <2>1, MovesKeepNumbers DEF TaskInv
  <2>3. ASSUME NEW j \in Tasks, task'[j].scheduled, ~Finished(j)'
        PROVE  task'[j].pod \in Pods /\ tracked'[task'[j].pod] = j
    BY <2>1, <2>3 DEF TaskInv, Mapped, Finished, TypeOK
  <2>4. \A q \in Pods : loop'[q] = "won" => loop[q] = "won"
    BY <1>2 DEF Poll, read_watch, TypeOK
  <2>5. \A q \in Pods : loop'[q] = "won" => tracked'[q] = 0
    BY <2>1, <2>4 DEF TaskInv, Mapped, TypeOK
  <2>6. \A q \in Pods : tracked'[q] # 0 => task'[tracked'[q]].phase # "none"
    BY <2>1 DEF TaskInv, Mapped, TypeOK
  <2> QED
    BY <2>2, <2>3, <2>5, <2>6 DEF TaskInv, Mapped
<1>3. CASE Claim(p)
  <2>1. \A q \in Pods : loop'[q] = "won" => loop[q] = "won" \/ tracked[q] = 0
    BY <1>3 DEF Claim, already_executing, TypeOK
  <2> QED
    BY <1>3, <2>1, MapQuiet DEF Claim
<1>4. CASE Spawn(p)
  <2>1. \A q \in Pods : loop'[q] = "won" => loop[q] = "won" /\ q # p
    BY <1>4 DEF Spawn, TypeOK
  <2>2. tracked[p] = 0
    BY <1>4 DEF Spawn, TaskInv, Mapped
  <2>3. CASE spawn(p, TRUE)
    BY <2>1, <2>2, <2>3, MapSpawn
  <2>4. CASE UNCHANGED <<task, tracked>>
    BY <2>1, <2>4, MapQuiet
  <2> QED
    BY <1>4, <2>3, <2>4 DEF Spawn
<1>5. CASE Signal(p) \/ TakeKeys(p) \/ MarkInterrupted(p)
  BY <1>5, MapQuiet DEF Signal, TakeKeys, MarkInterrupted
<1>6. CASE StopWaiting(p)
  <2>1. CASE UNCHANGED <<tracked, task>>
    BY <1>6, <2>1, MapQuiet DEF StopWaiting
  <2>2. CASE /\ tracked[p] # 0 /\ ~Finished(tracked[p])
             /\ task' = [task EXCEPT ![tracked[p]].phase = "gone"]
             /\ tracked' = [tracked EXCEPT ![p] = 0]
    <3> DEFINE i == tracked[p]
    <3>1. i \in Tasks
      BY <2>2, TrackedTask
    <3>2. \A j \in Tasks : /\ task'[j].phase = IF j = i THEN "gone" ELSE task[j].phase
                           /\ task'[j].scheduled = task[j].scheduled
                           /\ task'[j].pod = task[j].pod
      BY <2>2, <3>1 DEF TypeOK
    <3>3. Numbered'
      BY <2>2, <3>1, <3>2, MovesKeepNumbers DEF TaskInv, Mapped
    <3>4. ASSUME NEW j \in Tasks, task'[j].scheduled, ~Finished(j)'
          PROVE  task'[j].pod \in Pods /\ tracked'[task'[j].pod] = j
      <4>1. j # i /\ task[j].scheduled /\ ~Finished(j)
        BY <3>2, <3>4 DEF Finished
      <4>2. task[j].pod \in Pods /\ tracked[task[j].pod] = j
        BY <4>1 DEF TaskInv, Mapped
      <4> QED
        BY <2>2, <3>2, <4>1, <4>2 DEF TypeOK
    <3>5. \A q \in Pods : loop'[q] = "won" => tracked'[q] = 0
      BY <1>6, <2>2 DEF StopWaiting, TaskInv, Mapped, TypeOK
    <3>6. ASSUME NEW q \in Pods, tracked'[q] # 0
          PROVE  task'[tracked'[q]].phase # "none"
      <4>1. tracked'[q] = tracked[q]
        BY <2>2, <3>6 DEF TypeOK
      <4>2. tracked[q] \in Tasks /\ task[tracked[q]].phase # "none"
        BY <3>6, <4>1, TrackedTask DEF TaskInv, Mapped
      <4> QED
        BY <3>2, <4>1, <4>2
    <3> QED
      BY <3>3, <3>4, <3>5, <3>6 DEF TaskInv, Mapped
  <2> QED
    BY <1>6, <2>1, <2>2 DEF StopWaiting
<1>7. CASE Exit(p) \/ Crash(p)
  BY <1>7, MapEnds DEF Exit, Crash
<1> QED
  BY <1>1, <1>2, <1>3, <1>4, <1>5, <1>6, <1>7 DEF LoopStep, StopStep

LEMMA MapInit == Init => TaskInv
<1> SUFFICES ASSUME Init PROVE TaskInv
  OBVIOUS
<1>1. \A i \in Tasks : task[i] = NoTask
  BY DEF Init
<1>2. Spawned = {}
  BY <1>1 DEF Spawned, NoTask
<1>3. 0 \in 0..MaxTasks /\ {} = 1..0
  BY WatchAssumption
<1> QED
  BY <1>1, <1>2, <1>3 DEF Init, TaskInv, Numbered, Mapped, NoTask

LEMMA MapStep == TypeOK /\ TypeOK' /\ TaskInv /\ [Next]_vars => TaskInv'
<1> SUFFICES ASSUME TypeOK, TypeOK', TaskInv, [Next]_vars PROVE TaskInv'
  OBVIOUS
<1>1. ASSUME NEW p \in Pods, Start(p) \/ LoopStep(p) \/ Signal(p) \/ StopStep(p) \/ Crash(p)
      PROVE  TaskInv'
  BY <1>1, MapPodSteps
<1>2. ASSUME NEW i \in Tasks, TaskStep(i) \/ Panic(i)
      PROVE  TaskInv'
  <2>1. UNCHANGED <<loop, tracked>> /\ task[i].phase # "none" /\ ~Finished(i)
    BY <1>2, TaskSteps DEF pod_vars
  <2> QED
    BY <1>2, <2>1, TaskSteps, MapMove
<1>3. ASSUME NEW e \in Editors, ReadForUpdate(e) \/ WriteUpdate(e)
      PROVE  TaskInv'
  BY <1>3, MapQuiet DEF ReadForUpdate, WriteUpdate, pod_vars
<1>4. ASSUME NEW c \in Callers, ExpireStale(c) \/ CanRunNow(c)
      PROVE  TaskInv'
  BY <1>4, MapQuiet DEF ExpireStale, CanRunNow, pod_vars
<1>5. ASSUME NEW c \in Callers, RunNow(c)
      PROVE  TaskInv'
  <2>1. PICK p \in Pods : spawn(p, FALSE)
    BY <1>5 DEF RunNow
  <2>2. UNCHANGED loop
    BY <1>5 DEF RunNow
  <2> QED
    BY <2>1, <2>2, MapSpawn
<1>6. CASE BillingChanges \/ Tick \/ UNCHANGED vars
  BY <1>6, MapQuiet DEF BillingChanges, Tick, vars, pod_vars
<1> QED
  BY <1>1, <1>2, <1>3, <1>4, <1>5, <1>6 DEF Next

(* A pod never has two scheduled executions of one watch under way: both   *)
(* would be the one that active_executions holds.  A slot is claimed only  *)
(* when the map is empty, and stays empty until the spawn, because the     *)
(* poll loop is the only one to fill it.                                   *)
THEOREM OneAtATime == Spec => []OneScheduledPerPod
<1>1. TaskInv => OneScheduledPerPod
  BY DEF TaskInv, Mapped, OneScheduledPerPod
<1> QED
  BY <1>1, TypeInit, TypeStep, MapInit, MapStep, PTL DEF Spec

-----------------------------------------------------------------------------
(* The records of executions. *)

(* Steps of pods and users: they move no execution towards an alert, end   *)
(* none that was not under way, and write over no success.                 *)
LEMMA AlertsKeep ==
    ASSUME AlertInv, UNCHANGED delivered, delivered \subseteq Tasks,
           \A i \in Tasks : row[i].status = "success" => row'[i].status = "success",
           \A i \in Tasks : task'[i].phase = "deliver" => task[i].phase = "deliver",
           \A i \in Tasks : Finished(i) => Finished(i)'
    PROVE  AlertInv'
  BY DEF AlertInv

LEMMA SpawnKeeps ==
    ASSUME TypeOK, Numbered, NEW p \in Pods, NEW s \in BOOLEAN, spawn(p, s)
    PROVE  /\ \A i \in Tasks : task'[i].phase = "deliver" => task[i].phase = "deliver"
           /\ \A i \in Tasks : Finished(i) => Finished(i)'
<1>1. PICK i \in Tasks :
          /\ task[i].phase = "none"
          /\ task' = [task EXCEPT ![i] = [pod |-> p, phase |-> "load", scheduled |-> s]]
  BY SpawnTakesNext
<1> QED
  BY <1>1 DEF Finished, TypeOK

LEMMA EndKeeps ==
    ASSUME TypeOK, NEW p \in Pods, end_process(p)
    PROVE  /\ \A i \in Tasks : task'[i].phase = "deliver" => task[i].phase = "deliver"
           /\ \A i \in Tasks : Finished(i) => Finished(i)'
<1>1. ASSUME NEW i \in Tasks
      PROVE  task'[i].phase = "gone" \/ task'[i].phase = task[i].phase
  <2>1. task[i] \in [pod : Pods \cup {Null}, phase : Phases, scheduled : BOOLEAN]
    BY DEF TypeOK
  <2>2. task'[i] = task[i] \/ task'[i] = [task[i] EXCEPT !.phase = "gone"]
    BY DEF end_process
  <2> QED
    BY <2>1, <2>2
<1> QED
  BY <1>1 DEF Finished

LEMMA AlertStep == TypeOK /\ TaskInv /\ AlertInv /\ [Next]_vars => AlertInv'
<1> SUFFICES ASSUME TypeOK, TaskInv, AlertInv, [Next]_vars PROVE AlertInv'
  OBVIOUS
<1>0. delivered \subseteq Tasks /\ Numbered
  BY DEF TypeOK, TaskInv
<1>1. CASE UNCHANGED <<row, task, delivered>>
  BY <1>0, <1>1, AlertsKeep DEF Finished
<1>2. ASSUME NEW covered \in SUBSET Tasks, give_up(covered), UNCHANGED <<task, delivered>>
      PROVE  AlertInv'
  BY <1>0, <1>2, GiveUpType, AlertsKeep DEF Finished
<1>3. ASSUME NEW p \in Pods, NEW s \in BOOLEAN, spawn(p, s), UNCHANGED <<row, delivered>>
      PROVE  AlertInv'
  BY <1>0, <1>3, SpawnKeeps, AlertsKeep
<1>4. ASSUME NEW p \in Pods, Start(p) \/ LoopStep(p) \/ Signal(p) \/ StopStep(p) \/ Crash(p)
      PROVE  AlertInv'
  <2>1. CASE Start(p) \/ CheckMissed(p) \/ Reschedule(p) \/ Poll(p) \/ Claim(p) \/ Wake(p)
                \/ Signal(p) \/ TakeKeys(p)
    BY <1>1, <2>1 DEF Start, CheckMissed, Reschedule, Poll, Claim, Wake, Signal, TakeKeys
  <2>2. CASE Spawn(p)
    BY <1>1, <1>3, <2>2 DEF Spawn
  <2>3. CASE Recover(p)
    BY <1>1, <1>2, <2>3 DEF Recover, recover_orphaned_executions
  <2>4. CASE StopWaiting(p)
    <3>1. CASE UNCHANGED task
      BY <1>1, <2>4, <3>1 DEF StopWaiting
    <3>2. CASE tracked[p] # 0 /\ task' = [task EXCEPT ![tracked[p]].phase = "gone"]
      <4>1. /\ \A i \in Tasks : task'[i].phase = "deliver" => task[i].phase = "deliver"
            /\ \A i \in Tasks : Finished(i) => Finished(i)'
        BY <3>2, TrackedTask DEF Finished, TypeOK
      <4> QED
        BY <1>0, <2>4, <4>1, AlertsKeep DEF StopWaiting
    <3> QED
      BY <2>4, <3>1, <3>2 DEF StopWaiting
  <2>5. CASE MarkInterrupted(p)
    BY <1>1, <1>2, <2>5 DEF MarkInterrupted
  <2>6. CASE Exit(p) \/ Crash(p)
    <3>1. end_process(p)
      BY <2>6 DEF Exit, Crash
    <3>2. UNCHANGED <<row, delivered>>
      BY <3>1 DEF end_process
    <3> QED
      BY <1>0, <3>1, <3>2, EndKeeps, AlertsKeep
  <2> QED
    BY <1>4, <2>1, <2>2, <2>3, <2>4, <2>5, <2>6 DEF LoopStep, StopStep
<1>5. ASSUME NEW i \in Tasks, TaskStep(i) \/ Panic(i)
      PROVE  AlertInv'
  <2>1. PICK ph \in Phases \ {"none"} : /\ task' = [task EXCEPT ![i].phase = ph]
                                        /\ ph = "deliver" => row'[i].status = "success"
    BY <1>5, TaskSteps
  <2>2. ~Finished(i) /\ OwnRecord(i)
    BY <1>5, TaskSteps
  <2>3. \A j \in Tasks : task'[j].phase = IF j = i THEN ph ELSE task[j].phase
    BY <2>1 DEF TypeOK
  <2>4. \A j \in Tasks : task'[j].phase = "deliver" => row'[j].status = "success"
    BY <2>1, <2>2, <2>3 DEF AlertInv, OwnRecord
  <2>5. i \notin delivered
    BY <2>2 DEF AlertInv
  <2>6. \A j \in delivered : Finished(j)' /\ row'[j].status = "success"
    BY <1>0, <2>2, <2>3, <2>5 DEF AlertInv, OwnRecord, Finished
  <2>7. CASE delivered' = delivered
    BY <2>4, <2>6, <2>7 DEF AlertInv
  <2>8. CASE /\ task[i].phase = "deliver" /\ row' = row
             /\ task'[i].phase = "done" /\ delivered' = delivered \cup {i}
    <3>1. Finished(i)' /\ row'[i].status = "success"
      BY <2>8 DEF AlertInv, Finished
    <3> QED
      BY <2>4, <2>6, <2>8, <3>1 DEF AlertInv
  <2> QED
    BY <1>5, <2>7, <2>8, TaskSteps
<1>6. ASSUME NEW e \in Editors, ReadForUpdate(e) \/ WriteUpdate(e)
      PROVE  AlertInv'
  BY <1>1, <1>6 DEF ReadForUpdate, WriteUpdate
<1>7. ASSUME NEW c \in Callers, ExpireStale(c)
      PROVE  AlertInv'
  BY <1>2, <1>7 DEF ExpireStale
<1>8. ASSUME NEW c \in Callers, CanRunNow(c)
      PROVE  AlertInv'
  BY <1>1, <1>8 DEF CanRunNow
<1>9. ASSUME NEW c \in Callers, RunNow(c)
      PROVE  AlertInv'
  <2>1. PICK p \in Pods : spawn(p, FALSE)
    BY <1>9 DEF RunNow
  <2> QED
    BY <1>3, <1>9, <2>1 DEF RunNow
<1>10. CASE BillingChanges \/ Tick \/ UNCHANGED vars
  BY <1>1, <1>10 DEF BillingChanges, Tick, vars
<1> QED
  BY <1>4, <1>5, <1>6, <1>7, <1>8, <1>9, <1>10 DEF Next

(* An alert is delivered only for an execution on record as a success, and *)
(* that stays on record: the recoveries touch running records only, and    *)
(* an execution writes its record for the last time before it delivers.    *)
THEOREM AlertsOnRecord == Spec => []AlertsAgree
<1>1. Init => AlertInv
  BY DEF Init, AlertInv, NoTask
<1>2. AlertInv => AlertsAgree
  BY DEF AlertInv, AlertsAgree
<1> QED
  BY <1>1, <1>2, TypeInit, TypeStep, MapInit, MapStep, AlertStep, PTL DEF Spec

-----------------------------------------------------------------------------
(* next_run_at. *)

LEMMA DueSeenStep == TypeOK /\ DueSeen /\ [Next]_vars => DueSeen'
<1> SUFFICES ASSUME TypeOK, DueSeen, [Next]_vars PROVE DueSeen'
  OBVIOUS
<1> DEFINE Reads == {"catchup", "claim"}
<1>1. CASE UNCHANGED <<loop, seen, now>>
  BY <1>1 DEF DueSeen
<1>2. ASSUME NEW p \in Pods, UNCHANGED now,
             \A q \in Pods \ {p} : loop'[q] = loop[q] /\ seen'[q] = seen[q],
             loop'[p] \notin Reads
      PROVE  DueSeen'
  BY <1>2 DEF DueSeen
<1>3. ASSUME NEW p \in Pods, UNCHANGED now, NEW wanted, NEW found, NEW otherwise,
             otherwise \notin Reads,
             wanted => watch.next # Null /\ watch.next <= now,
             read_watch(p, wanted, found, otherwise)
      PROVE  DueSeen'
  <2>1. CASE wanted
    <3>1. /\ seen'[p] = [next |-> watch.next, at |-> now]
          /\ \A q \in Pods \ {p} : loop'[q] = loop[q] /\ seen'[q] = seen[q]
      BY <1>3, <2>1 DEF read_watch, TypeOK
    <3>2. watch.next \in Nat /\ watch.next <= now
      BY <1>3, <2>1 DEF TypeOK, Fires
    <3>3. seen'[p].next = watch.next /\ seen'[p].at = now
      BY <3>1
    <3>4. now \in Nat
      BY DEF TypeOK
    <3> QED
      BY <1>3, <3>1, <3>2, <3>3, <3>4 DEF DueSeen
  <2>2. CASE ~wanted
    BY <1>2, <1>3, <2>2 DEF read_watch, TypeOK
  <2> QED
    BY <2>1, <2>2
<1>4. ASSUME NEW p \in Pods, Start(p) \/ LoopStep(p) \/ Signal(p) \/ StopStep(p) \/ Crash(p)
      PROVE  DueSeen'
  <2>1. CASE Start(p) \/ Spawn(p) \/ Recover(p) \/ Wake(p) \/ Reschedule(p) \/ Claim(p)
    BY <1>2, <2>1 DEF Start, Spawn, Recover, Wake, Reschedule, Claim, TypeOK
  <2>2. CASE CheckMissed(p)
    <3> DEFINE wanted == (/\ watch.enabled /\ watch.next # Null
                          /\ watch.next < now /\ watch.next >= now - Cutoff)
    <3>1. wanted => watch.next # Null /\ watch.next <= now
      BY DEF TypeOK, Fires
    <3>2. UNCHANGED now
      BY <2>2 DEF CheckMissed
    <3>3. CASE read_watch(p, wanted, "catchup", "boot")
      <4> HIDE DEF wanted
      <4> QED
        BY <1>3, <3>1, <3>2, <3>3
    <3>4. CASE loop' = [loop EXCEPT ![p] = "boot"] /\ UNCHANGED seen
      BY <1>2, <3>2, <3>4 DEF TypeOK
    <3> HIDE DEF wanted
    <3> QED
      BY <2>2, <3>3, <3>4 DEF CheckMissed, wanted
  <2>3. CASE Poll(p)
    <3> DEFINE wanted == (/\ watch.enabled /\ watch.next # Null
                          /\ watch.next <= now /\ paid)
    <3>1. wanted => watch.next # Null /\ watch.next <= now
      OBVIOUS
    <3>2. UNCHANGED now
      BY <2>3 DEF Poll
    <3>3. CASE read_watch(p, wanted, "claim", "recover")
      <4> HIDE DEF wanted
      <4> QED
        BY <1>3, <3>1, <3>2, <3>3
    <3>4. CASE loop' = [loop EXCEPT ![p] = "recover"] /\ UNCHANGED seen
      BY <1>2, <3>2, <3>4 DEF TypeOK
    <3> HIDE DEF wanted
    <3> QED
      BY <2>3, <3>3, <3>4 DEF Poll, wanted
  <2>4. CASE Signal(p) \/ StopWaiting(p) \/ TakeKeys(p) \/ MarkInterrupted(p)
    BY <1>1, <2>4 DEF Signal, StopWaiting, TakeKeys, MarkInterrupted
  <2>5. CASE Exit(p) \/ Crash(p)
    BY <1>2, <2>5 DEF Exit, Crash, end_process, TypeOK
  <2> QED
    BY <1>4, <2>1, <2>2, <2>3, <2>4, <2>5 DEF LoopStep, StopStep
<1>5. ASSUME NEW i \in Tasks, TaskStep(i) \/ Panic(i)
      PROVE  DueSeen'
  BY <1>1, <1>5, TaskSteps DEF pod_vars
<1>6. CASE Tick
  <2>1. \A p \in Pods : seen[p].at \in Nat
    BY DEF TypeOK
  <2>2. now \in Nat /\ now' = now + 1 /\ UNCHANGED <<loop, seen>>
    BY <1>6 DEF Tick, TypeOK, pod_vars
  <2> QED
    BY <2>1, <2>2 DEF DueSeen
<1>7. ASSUME \/ \E e \in Editors : ReadForUpdate(e) \/ WriteUpdate(e)
             \/ \E c \in Callers : ExpireStale(c) \/ CanRunNow(c) \/ RunNow(c)
             \/ BillingChanges
             \/ UNCHANGED vars
      PROVE  DueSeen'
  BY <1>1, <1>7 DEF ReadForUpdate, WriteUpdate, ExpireStale, CanRunNow, RunNow,
                    BillingChanges, vars, pod_vars
<1> QED
  BY <1>4, <1>5, <1>6, <1>7 DEF Next

(* The steps that move next_run_at: a pod that compared it with the due    *)
(* slot it read, and then moves it past the time of that read, or an edit. *)
Moves(p) ==
    /\ seen[p].next \in Nat /\ seen[p].next <= seen[p].at /\ seen[p].at <= now
    /\ watch.next = seen[p].next
    /\ \E new \in Nat : seen[p].at < new /\ watch' = [watch EXCEPT !.next = new]
    /\ claims' \in {claims, Append(claims, seen[p])}
    /\ UNCHANGED edit

LEMMA WatchMoves ==
    ASSUME TypeOK, DueSeen, [Next]_vars
    PROVE  \/ UNCHANGED <<watch, claims, edit>>
           \/ \E p \in Pods : Moves(p)
           \/ \E i \in Tasks : TaskStep(i)
           \/ \E e \in Editors : ReadForUpdate(e) \/ WriteUpdate(e)
<1>1. ASSUME NEW p \in Pods, Start(p) \/ LoopStep(p) \/ Signal(p) \/ StopStep(p) \/ Crash(p)
      PROVE  UNCHANGED <<watch, claims, edit>> \/ Moves(p)
  <2>0. seen[p].at \in Nat /\ now \in Nat
    BY DEF TypeOK
  <2>1. CASE Start(p) \/ CheckMissed(p) \/ Poll(p) \/ Spawn(p) \/ Recover(p) \/ Wake(p)
             \/ Signal(p) \/ StopWaiting(p) \/ TakeKeys(p) \/ MarkInterrupted(p) \/ Exit(p)
             \/ Crash(p)
    BY <2>1 DEF Start, CheckMissed, Poll, Spawn, Recover, Wake, Signal, StopWaiting, TakeKeys,
                MarkInterrupted, Exit, Crash, end_process, user_vars
  <2>2. CASE Reschedule(p)
    <3>1. seen[p].next \in Nat /\ seen[p].next <= seen[p].at /\ seen[p].at <= now
      BY <2>2 DEF Reschedule, DueSeen
    <3>2. seen[p].at + Jitter \in Nat /\ seen[p].at < seen[p].at + Jitter
      BY <2>0, WatchAssumption
    <3>3. UNCHANGED <<claims, edit>>
      BY <2>2 DEF Reschedule, user_vars
    <3>4. UNCHANGED watch \/ compare_and_swap(p, seen[p].at + Jitter)
      BY <2>2 DEF Reschedule
    <3> QED
      BY <3>1, <3>2, <3>3, <3>4 DEF Moves, compare_and_swap
  <2>3. CASE Claim(p)
    <3>1. seen[p].next \in Nat /\ seen[p].next <= seen[p].at /\ seen[p].at <= now
      BY <2>3 DEF Claim, DueSeen
    <3>2. calculate_next_run(now) \in Nat /\ seen[p].at < calculate_next_run(now)
      BY <2>0, <3>1, NextRunIsLater
    <3>3. UNCHANGED edit
      BY <2>3 DEF Claim, user_vars
    <3>4. \/ UNCHANGED <<watch, claims>>
          \/ /\ compare_and_swap(p, calculate_next_run(now))
             /\ claims' = Append(claims, seen[p])
      BY <2>3 DEF Claim
    <3> QED
      BY <3>1, <3>2, <3>3, <3>4 DEF Moves, compare_and_swap
  <2> QED
    BY <1>1, <2>1, <2>2, <2>3 DEF LoopStep, StopStep
<1>2. ASSUME NEW i \in Tasks, Panic(i)
      PROVE  UNCHANGED <<watch, claims, edit>>
  BY <1>2 DEF Panic, task_only, user_vars
<1>3. ASSUME \/ \E c \in Callers : ExpireStale(c) \/ CanRunNow(c) \/ RunNow(c)
             \/ BillingChanges \/ Tick \/ UNCHANGED vars
      PROVE  UNCHANGED <<watch, claims, edit>>
  BY <1>3 DEF ExpireStale, CanRunNow, RunNow, BillingChanges, Tick, vars, user_vars
<1> QED
  BY <1>1, <1>2, <1>3 DEF Next

LEMMA SlotStep ==
    ASSUME Editors = {}, TypeOK, DueSeen, SlotInv, [Next]_vars
    PROVE  SlotInv'
<1>1. CASE UNCHANGED <<watch, claims, edit>>
  BY <1>1 DEF SlotInv, AtMostOncePerSlot
<1>2. ASSUME NEW p \in Pods, Moves(p)
      PROVE  SlotInv'
  <2>1. PICK new \in Nat : seen[p].at < new /\ watch' = [watch EXCEPT !.next = new]
    BY <1>2 DEF Moves
  <2>2. watch'.next = new
    BY <2>1 DEF TypeOK
  <2>3. watch.next \in Nat /\ watch.next = seen[p].next /\ watch.next < new
    <3>1. seen[p].at \in Nat
      BY DEF TypeOK
    <3> QED
      BY <1>2, <2>1, <3>1 DEF Moves
  <2>4. CASE claims' = claims
    BY <2>2, <2>3, <2>4 DEF SlotInv, AtMostOncePerSlot
  <2>5. CASE claims' = Append(claims, seen[p])
    <3>0. claims \in Seq([next : Fires, at : Nat]) /\ seen[p] \in [next : Fires, at : Nat]
      BY DEF TypeOK
    <3>1. /\ Len(claims) \in Nat /\ Len(claims') = Len(claims) + 1
          /\ \A i \in 1..Len(claims) : claims'[i] = claims[i]
          /\ claims'[Len(claims) + 1] = seen[p]
      BY <2>5, <3>0
    <3>2. \A i \in 1..Len(claims') : i = Len(claims) + 1 \/ i \in 1..Len(claims)
      BY <3>1
    <3>3. \A i \in 1..Len(claims') : claims'[i].next \in Nat /\ claims'[i].next < new
      BY <2>3, <3>1, <3>2 DEF SlotInv
    <3>4. ASSUME NEW i \in 1..Len(claims'), NEW j \in 1..Len(claims'), i < j
          PROVE  claims'[i].next < claims'[j].next
      <4>1. i \in 1..Len(claims)
        BY <3>1, <3>4
      <4>2. CASE j = Len(claims) + 1
        BY <2>3, <3>1, <4>1, <4>2 DEF SlotInv
      <4>3. CASE j \in 1..Len(claims)
        BY <3>1, <3>4, <4>1, <4>3 DEF SlotInv, AtMostOncePerSlot
      <4> QED
        BY <3>2, <4>2, <4>3
    <3> QED
      BY <2>2, <3>3, <3>4 DEF SlotInv, AtMostOncePerSlot
  <2> QED
    BY <1>2, <2>4, <2>5 DEF Moves
<1>3. ASSUME NEW i \in Tasks, TaskStep(i)
      PROVE  SlotInv'
  <2>1. MayDisable /\ UNCHANGED claims
    BY <1>3, TaskSteps
  <2>2. watch'.next = watch.next
    BY <2>1 DEF MayDisable, TypeOK
  <2> QED
    BY <2>1, <2>2 DEF SlotInv, AtMostOncePerSlot
<1> QED
  BY <1>1, <1>2, <1>3, WatchMoves

LEMMA DueSeenInit == Init => DueSeen
  BY DEF Init, DueSeen

(* While nobody edits the watch, no firing of the schedule is claimed      *)
(* twice, by whichever pods, restarts and catch-up runs, and however often *)
(* an answer of the database is lost: next_run_at is the only lock, and    *)
(* every step of a pod that moves it moves it past the slot it compared it *)
(* with.  (An edit may set it back to a slot that was claimed meanwhile.)  *)
THEOREM SlotsClaimedOnce ==
    ASSUME Editors = {}
    PROVE  Spec => []AtMostOncePerSlot
<1>1. Init => SlotInv
  BY WatchAssumption DEF Init, SlotInv, AtMostOncePerSlot
<1>2. SlotInv => AtMostOncePerSlot
  BY DEF SlotInv
<1>3. TypeOK /\ DueSeen /\ SlotInv /\ [Next]_vars => SlotInv'
  BY SlotStep
<1> QED
  BY <1>1, <1>2, <1>3, TypeInit, TypeStep, DueSeenInit, DueSeenStep, PTL DEF Spec

-----------------------------------------------------------------------------
(* A disabled watch. *)

(* Steps that load nothing and leave enabled alone. *)
LEMMA QuietKeeps ==
    ASSUME DisabledStaysQuiet, watch'.enabled = watch.enabled, UNCHANGED late,
           \A i \in Tasks : i \in Loaded' => i \in Loaded
    PROVE  DisabledStaysQuiet'
<1>1. Loaded' \subseteq Loaded
  BY DEF Loaded
<1> QED
  BY <1>1 DEF DisabledStaysQuiet

LEMMA QuietStep == TypeOK /\ TaskInv /\ DisabledStaysQuiet /\ [Next]_vars => DisabledStaysQuiet'
<1> SUFFICES ASSUME TypeOK, TaskInv, DisabledStaysQuiet, [Next]_vars PROVE DisabledStaysQuiet'
  OBVIOUS
<1>0. Numbered
  BY DEF TaskInv
<1>1. CASE UNCHANGED <<task, late>> /\ watch'.enabled = watch.enabled
  BY <1>1, QuietKeeps DEF Loaded
<1>2. ASSUME NEW p \in Pods, NEW s \in BOOLEAN, spawn(p, s),
             UNCHANGED late, watch'.enabled = watch.enabled
      PROVE  DisabledStaysQuiet'
  <2>1. PICK i \in Tasks :
            /\ task[i].phase = "none"
            /\ task' = [task EXCEPT ![i] = [pod |-> p, phase |-> "load", scheduled |-> s]]
    BY <1>0, <1>2, SpawnTakesNext
  <2>2. \A j \in Tasks : j \in Loaded' => j \in Loaded
    BY <2>1 DEF Loaded, TypeOK
  <2> QED
    BY <1>2, <2>2, QuietKeeps
<1>3. ASSUME NEW p \in Pods, Start(p) \/ LoopStep(p) \/ Signal(p) \/ StopStep(p) \/ Crash(p)
      PROVE  DisabledStaysQuiet'
  <2>1. CASE Start(p) \/ CheckMissed(p) \/ Poll(p) \/ Recover(p) \/ Wake(p)
             \/ Signal(p) \/ TakeKeys(p) \/ MarkInterrupted(p)
    BY <1>1, <2>1 DEF Start, CheckMissed, Poll, Recover, Wake, Signal, TakeKeys,
                      MarkInterrupted, user_vars
  <2>2. CASE Reschedule(p) \/ Claim(p)
    <3>1. watch'.enabled = watch.enabled
      BY <2>2 DEF Reschedule, Claim, compare_and_swap, TypeOK
    <3>2. UNCHANGED <<task, late>>
      BY <2>2 DEF Reschedule, Claim, user_vars
    <3> QED
      BY <1>1, <3>1, <3>2
  <2>3. CASE Spawn(p)
    BY <1>1, <1>2, <2>3 DEF Spawn, user_vars
  <2>4. CASE StopWaiting(p)
    <3>1. \A i \in Tasks : i \in Loaded' => i \in Loaded
      <4>1. CASE UNCHANGED task
        BY <4>1 DEF Loaded
      <4>2. CASE tracked[p] # 0 /\ task' = [task EXCEPT ![tracked[p]].phase = "gone"]
        <5>1. tracked[p] \in Tasks
          BY <4>2, TrackedTask
        <5>2. \A i \in Tasks : task'[i].phase = IF i = tracked[p] THEN "gone"
                                                ELSE task[i].phase
          BY <4>2, <5>1 DEF TypeOK
        <5> QED
          BY <5>2 DEF Loaded
      <4> QED
        BY <2>4, <4>1, <4>2 DEF StopWaiting
    <3> QED
      BY <2>4, <3>1, QuietKeeps DEF StopWaiting, user_vars
  <2>5. CASE Exit(p) \/ Crash(p)
    <3>1. end_process(p)
      BY <2>5 DEF Exit, Crash
    <3>2. ASSUME NEW i \in Tasks, i \in Loaded'
          PROVE  i \in Loaded
      <4>1. task[i] \in [pod : Pods \cup {Null}, phase : Phases, scheduled : BOOLEAN]
        BY DEF TypeOK
      <4>2. task'[i] = task[i] \/ task'[i] = [task[i] EXCEPT !.phase = "gone"]
        BY <3>1 DEF end_process
      <4>3. task'[i].phase = task[i].phase \/ task'[i].phase = "gone"
        BY <4>1, <4>2
      <4> QED
        BY <3>2, <4>3 DEF Loaded
    <3> QED
      BY <3>1, <3>2, QuietKeeps DEF end_process, user_vars
  <2> QED
    BY <1>3, <2>1, <2>2, <2>3, <2>4, <2>5 DEF LoopStep, StopStep
<1>4. ASSUME NEW i \in Tasks, TaskStep(i) \/ Panic(i)
      PROVE  DisabledStaysQuiet'
  <2>1. MayDisable
    BY <1>4, TaskSteps
  <2>2. ASSUME ~watch.enabled \/ watch'.enabled # watch.enabled
        PROVE  \A j \in Tasks : j \in Loaded' => j \in Loaded
    <3>1. PICK ph \in Phases : task' = [task EXCEPT ![i].phase = ph]
      BY <1>4, TaskSteps
    <3>2. \A j \in Tasks : task'[j].phase = IF j = i THEN ph ELSE task[j].phase
      BY <3>1 DEF TypeOK
    <3>3. CASE Load(i)
      <4>1. ~watch.enabled
        BY <2>2, <3>3 DEF Load, task_only
      <4>2. Goes(i, "done")
        BY <3>3, <4>1 DEF Load
      <4>3. task'[i].phase = "done"
        BY <4>2 DEF Goes, TypeOK
      <4> QED
        BY <3>2, <4>3 DEF Loaded
    <3>4. CASE ~Load(i)
      <4>1. task[i].phase \in Phases \ {"none", "load", "done", "gone"}
                \/ Panic(i)
        <5>1. task[i].phase \in {"insert", "verify", "disable", "run", "deliver", "fail",
                                 "minimal"} \/ Panic(i)
          BY <1>4, <3>4 DEF TaskStep, Insert, Verify, DisableWatch, Conclude, Deliver,
                            RecordFailure
        <5> QED
          BY <5>1 DEF Phases
      <4>2. CASE Panic(i)
        <5>1. task'[i].phase = "done"
          BY <4>2 DEF Panic, Goes, TypeOK
        <5> QED
          BY <3>2, <5>1 DEF Loaded
      <4>3. CASE task[i].phase \in Phases \ {"none", "load", "done", "gone"}
        BY <3>2, <4>3 DEF Loaded
      <4> QED
        BY <4>1, <4>2, <4>3
    <3> QED
      BY <3>3, <3>4
  <2>3. CASE ~watch.enabled
    <3>1. ~watch'.enabled /\ UNCHANGED late
      BY <2>1, <2>3 DEF MayDisable, notes_off, TypeOK
    <3>2. \A j \in Tasks : j \in Loaded' => j \in Loaded
      BY <2>2, <2>3
    <3>3. Loaded' \subseteq Loaded
      BY <3>2 DEF Loaded
    <3> QED
      BY <2>3, <3>1, <3>3 DEF DisabledStaysQuiet
  <2>4. CASE watch.enabled /\ ~watch'.enabled
    <3>1. late' = Loaded
      BY <2>1, <2>4 DEF MayDisable, notes_off
    <3>2. \A j \in Tasks : j \in Loaded' => j \in Loaded
      BY <2>2, <2>4
    <3>3. Loaded' \subseteq Loaded
      BY <3>2 DEF Loaded
    <3> QED
      BY <3>1, <3>3 DEF DisabledStaysQuiet
  <2>5. CASE watch'.enabled
    BY <2>5 DEF DisabledStaysQuiet
  <2> QED
    BY <2>3, <2>4, <2>5
<1>5. ASSUME NEW e \in Editors, WriteUpdate(e)
      PROVE  DisabledStaysQuiet'
  <2>1. notes_off /\ UNCHANGED task
    BY <1>5 DEF WriteUpdate
  <2>2. Loaded' = Loaded
    BY <2>1 DEF Loaded
  <2> QED
    BY <2>1, <2>2 DEF notes_off, DisabledStaysQuiet
<1>6. ASSUME NEW c \in Callers, RunNow(c)
      PROVE  DisabledStaysQuiet'
  BY <1>2, <1>6 DEF RunNow
<1>7. ASSUME \/ \E e \in Editors : ReadForUpdate(e)
             \/ \E c \in Callers : ExpireStale(c) \/ CanRunNow(c)
             \/ BillingChanges \/ Tick \/ UNCHANGED vars
      PROVE  DisabledStaysQuiet'
  BY <1>1, <1>7 DEF ReadForUpdate, ExpireStale, CanRunNow, BillingChanges, Tick, vars, user_vars
<1> QED
  BY <1>3, <1>4, <1>5, <1>6, <1>7 DEF Next

(* Once the watch is disabled no execution gets past its load, for any     *)
(* number of pods, overlapping edits and run-now requests: a slot that was *)
(* read before may still be claimed, because the claim compares            *)
(* next_run_at only, but what it spawns ends at the load.                  *)
THEOREM DisabledIsQuiet == Spec => []DisabledStaysQuiet
<1>1. Init => DisabledStaysQuiet
  BY DEF Init, DisabledStaysQuiet
<1> QED
  BY <1>1, TypeInit, TypeStep, MapInit, MapStep, QuietStep, PTL DEF Spec
=============================================================================
