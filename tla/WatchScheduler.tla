--------------------------- MODULE WatchScheduler ---------------------------
(***************************************************************************)
(* The watch scheduler (crates/kyomi-agent, scheduler.rs and               *)
(* watch_execution.rs) on several pods that share one database, for one    *)
(* watch: watches meet only in the order in which a poll visits them.      *)
(*                                                                         *)
(* A pod is the poll loop, a shutdown that runs beside it and the tasks    *)
(* that execute the watch.  Every statement to the database is a step of   *)
(* its own, and may fail: a failed write may have been applied.  Crashes,  *)
(* shutdowns, failed statements and panics draw on MaxFaults and happen up *)
(* to the time Horizon, so that time is left for the recovery from them.   *)
(* A task writes at most one execution record, so both have one number.    *)
(***************************************************************************)
EXTENDS Integers, FiniteSets, Sequences

CONSTANTS
    Pods,
    Editors,      \* update_watch requests in flight at a time
    Callers,      \* run-now requests in flight at a time
    Period,       \* the cron schedule fires at the multiples of Period
    Jitter,       \* delay of a catch-up run
    Cutoff,       \* MISSED_EXECUTION_CUTOFF_HOURS
    Orphan,       \* ORPHAN_EXECUTION_THRESHOLD_MINUTES
    Stale,        \* age at which run-now gives up on a running execution
    Hour,         \* window of the rate limit of run-now
    RunsPerHour,  \* MAX_MANUAL_RUNS_PER_HOUR
    MaxTasks,     \* bound: executions
    MaxFaults,    \* bound: failures of any kind
    MaxEdits,     \* bound: edits of the watch, billing changes and run-now requests
    Horizon,      \* bound: time of the last failure
    MaxTime       \* bound: end of time

ASSUME WatchAssumption ==
    /\ {Period, Jitter, Orphan, RunsPerHour, MaxTasks} \subseteq Nat \ {0}
    /\ {Cutoff, Stale, Hour, MaxFaults, MaxEdits, Horizon, MaxTime} \subseteq Nat

VARIABLES
    now,        \* the clock, in units well above SHUTDOWN_TIMEOUT_SECONDS
    watch,      \* the row of the watch: enabled, next_run_at
    paid,       \* whether the billing gate lets the workspace run
    loop,       \* where the poll loop of each pod is
    seen,       \* next_run_at as the pod read it, and when
    tracked,    \* active_executions: the task of the watch, 0 when there is none
    stop,       \* where the shutdown of each pod is
    task,       \* spawned executions: their pod, their phase, how they came about
    row,        \* watch_executions: status and started_at
    edit,       \* update_watch between its read and its write
    call,       \* run_watch_now between its checks
    claims,     \* slots claimed so far, with the time at which they were found due
    delivered,  \* executions whose alert was delivered
    late,       \* executions past their load when the watch was last disabled
    faults, edits

vars == <<now, watch, paid, loop, seen, tracked, stop, task, row, edit, call, claims,
          delivered, late, faults, edits>>
pod_vars == <<loop, seen, tracked, stop>>
user_vars == <<edit, call, paid, edits, late>>

-----------------------------------------------------------------------------
Null == -1
ASSUME PodAssumption == Null \notin Pods
Tasks == 1..MaxTasks
NoTask == [pod |-> Null, phase |-> "none", scheduled |-> FALSE]
NoRow == [status |-> "none", started |-> 0]
NoEdit == [change |-> "none", enabled |-> FALSE, next |-> Null]

(* The first occurrence of the schedule strictly after an instant. *)
calculate_next_run(t) == ((t \div Period) + 1) * Period

Finished(i) == task[i].phase \in {"done", "gone"}
Running(i) == row[i].status = "running"
Up(p) == loop[p] # "down"

Fails == faults < MaxFaults /\ now <= Horizon /\ faults' = faults + 1

(* Executions under way that found the watch enabled when they loaded it. *)
Loaded == {i \in Tasks : task[i].phase \notin {"none", "load", "done", "gone"}}
notes_off == late' = IF watch.enabled /\ ~watch'.enabled THEN Loaded ELSE late

(* A failed write was applied or not. *)
maybe(i, status, started) ==
    row' \in {row, [row EXCEPT ![i] = [status |-> status, started |-> started]]}

(* Recoveries write error over every running record that they cover. *)
give_up(covered) ==
    row' = [i \in Tasks |-> IF Running(i) /\ i \in covered
                            THEN [row[i] EXCEPT !.status = "error"] ELSE row[i]]

spawn(p, scheduled) ==
    LET i == Cardinality({j \in Tasks : task[j].phase # "none"}) + 1
    IN  /\ i \in Tasks
        /\ task' = [task EXCEPT ![i] = [pod |-> p, phase |-> "load", scheduled |-> scheduled]]
        /\ tracked' = IF scheduled THEN [tracked EXCEPT ![p] = i] ELSE tracked

Init ==
    /\ now = 0
    /\ watch = [enabled |-> TRUE, next |-> Period]
    /\ paid = TRUE
    /\ loop = [p \in Pods |-> "down"]
    /\ seen = [p \in Pods |-> [next |-> Null, at |-> 0]]
    /\ tracked = [p \in Pods |-> 0]
    /\ stop = [p \in Pods |-> "no"]
    /\ task = [i \in Tasks |-> NoTask]
    /\ row = [i \in Tasks |-> NoRow]
    /\ edit = [e \in Editors |-> NoEdit]
    /\ call = [c \in Callers |-> "idle"]
    /\ claims = <<>>
    /\ delivered = {}
    /\ late = {}
    /\ faults = 0
    /\ edits = 0

-----------------------------------------------------------------------------
(* The poll loop. *)

Start(p) ==
    /\ loop[p] = "down"
    /\ loop' = [loop EXCEPT ![p] = "missed"]
    /\ stop' = [stop EXCEPT ![p] = "no"]
    /\ UNCHANGED <<now, watch, seen, tracked, task, row, claims, delivered, faults, user_vars>>

read_watch(p, wanted, found, otherwise) ==
    /\ loop' = [loop EXCEPT ![p] = IF wanted THEN found ELSE otherwise]
    /\ seen' = IF wanted THEN [seen EXCEPT ![p] = [next |-> watch.next, at |-> now]] ELSE seen

CheckMissed(p) ==
    /\ loop[p] = "missed"
    /\ \/ /\ read_watch(p, /\ watch.enabled /\ watch.next # Null
                           /\ watch.next < now /\ watch.next >= now - Cutoff,
                        "catchup", "boot")
          /\ UNCHANGED faults
       \/ Fails /\ loop' = [loop EXCEPT ![p] = "boot"] /\ UNCHANGED seen
    /\ UNCHANGED <<now, watch, tracked, stop, task, row, claims, delivered, user_vars>>

(* UPDATE ... WHERE next_run_at = <the value read> *)
compare_and_swap_uncounted(p, new) ==                  \* bug: rows_affected is not looked at
    watch' = IF watch.next = seen[p].next THEN [watch EXCEPT !.next = new] ELSE watch

compare_and_swap(p, new) ==
    /\ watch.next = seen[p].next
    /\ watch' = [watch EXCEPT !.next = new]

Reschedule(p) ==
    /\ loop[p] = "catchup"
    /\ \/ compare_and_swap(p, seen[p].at + Jitter) /\ UNCHANGED faults
       \/ watch.next # seen[p].next /\ UNCHANGED <<watch, faults>>
       \/ Fails /\ (UNCHANGED watch \/ compare_and_swap(p, seen[p].at + Jitter))
    /\ loop' = [loop EXCEPT ![p] = "boot"]
    /\ seen' = [seen EXCEPT ![p] = [next |-> Null, at |-> 0]]
    /\ UNCHANGED <<now, tracked, stop, task, row, claims, delivered, user_vars>>

(* clean_finished_executions and due_watches_to_execute *)
Poll_cutoff(p) ==                                      \* bug: old slots are left to nobody
    /\ loop[p] = "poll"
    /\ tracked' = IF tracked[p] # 0 /\ Finished(tracked[p])
                  THEN [tracked EXCEPT ![p] = 0] ELSE tracked
    /\ read_watch(p, /\ watch.enabled /\ watch.next # Null /\ paid
                     /\ watch.next <= now /\ watch.next >= now - Cutoff,
                  "claim", "recover")
    /\ UNCHANGED <<now, watch, stop, task, row, claims, delivered, faults, user_vars>>

Poll(p) ==
    /\ loop[p] = "poll"
    /\ tracked' = IF tracked[p] # 0 /\ Finished(tracked[p])
                  THEN [tracked EXCEPT ![p] = 0] ELSE tracked
    /\ \/ /\ read_watch(p, /\ watch.enabled /\ watch.next # Null
                           /\ watch.next <= now /\ paid,
                        "claim", "recover")
          /\ UNCHANGED faults
       \/ Fails /\ loop' = [loop EXCEPT ![p] = "recover"] /\ UNCHANGED seen
    /\ UNCHANGED <<now, watch, stop, task, row, claims, delivered, user_vars>>

already_executing_never(p) == FALSE                    \* bug: the map of tasks is not consulted

already_executing(p) == tracked[p] # 0

Claim(p) ==
    /\ loop[p] = "claim"
    /\ LET wins == /\ ~already_executing(p)
                   /\ compare_and_swap(p, calculate_next_run(now))
                   /\ claims' = Append(claims, seen[p])
           skips == UNCHANGED <<watch, claims>>
       IN  \/ wins /\ loop' = [loop EXCEPT ![p] = "won"] /\ UNCHANGED faults
           \/ /\ already_executing(p) \/ watch.next # seen[p].next
              /\ skips
              /\ loop' = [loop EXCEPT ![p] = "recover"]
              /\ UNCHANGED faults
           \/ Fails /\ (wins \/ skips) /\ loop' = [loop EXCEPT ![p] = "recover"]
    /\ seen' = [seen EXCEPT ![p] = [next |-> Null, at |-> 0]]
    /\ UNCHANGED <<now, tracked, stop, task, row, delivered, user_vars>>

(* The claim is lost when the embedding model cannot be loaded. *)
Spawn(p) ==
    /\ loop[p] = "won"
    /\ \/ spawn(p, TRUE) /\ UNCHANGED faults
       \/ Fails /\ UNCHANGED <<task, tracked>>
    /\ loop' = [loop EXCEPT ![p] = "recover"]
    /\ UNCHANGED <<now, watch, seen, stop, row, claims, delivered, user_vars>>

recover_orphaned_executions == give_up({i \in Tasks : row[i].started < now - Orphan})

Recover_at_boot(p) ==                                  \* bug: the loop does not recover
    /\ loop[p] \in {"boot", "recover"}
    /\ IF loop[p] = "boot" THEN recover_orphaned_executions ELSE UNCHANGED row
    /\ loop' = [loop EXCEPT ![p] = IF @ = "boot" THEN "poll" ELSE "sleep"]
    /\ UNCHANGED <<now, watch, seen, tracked, stop, task, claims, delivered, faults, user_vars>>

Recover(p) ==
    /\ loop[p] \in {"boot", "recover"}
    /\ \/ recover_orphaned_executions /\ UNCHANGED faults
       \/ Fails /\ UNCHANGED row
    /\ loop' = [loop EXCEPT ![p] = IF @ = "boot" THEN "poll" ELSE "sleep"]
    /\ UNCHANGED <<now, watch, seen, tracked, stop, task, claims, delivered, user_vars>>

Wake(p) ==
    /\ loop[p] = "sleep"
    /\ \/ loop' = [loop EXCEPT ![p] = "poll"]
       \/ stop[p] # "no" /\ loop' = [loop EXCEPT ![p] = "exited"]
    /\ UNCHANGED <<now, watch, seen, tracked, stop, task, row, claims, delivered, faults,
                   user_vars>>

-----------------------------------------------------------------------------
(* Shutdown, beside the poll loop, and the end of the process. *)

Signal(p) ==
    /\ Up(p) /\ stop[p] = "no"
    /\ Fails
    /\ stop' = [stop EXCEPT ![p] = IF tracked[p] # 0 THEN "wait" ELSE "keys"]
    /\ UNCHANGED <<now, watch, loop, seen, tracked, task, row, claims, delivered, user_vars>>

(* Every tracked task is finished, or the deadline passes and the tasks    *)
(* are aborted and taken out of the map.                                   *)
StopWaiting(p) ==
    /\ stop[p] = "wait"
    /\ \/ /\ tracked[p] # 0 => Finished(tracked[p])
          /\ UNCHANGED <<tracked, task>>
       \/ /\ tracked[p] # 0 /\ ~Finished(tracked[p])
          /\ task' = [task EXCEPT ![tracked[p]].phase = "gone"]
          /\ tracked' = [tracked EXCEPT ![p] = 0]
    /\ stop' = [stop EXCEPT ![p] = "keys"]
    /\ UNCHANGED <<now, watch, loop, seen, row, claims, delivered, faults, user_vars>>

(* aborted_watch_ids: what the map holds now. *)
TakeKeys(p) ==
    /\ stop[p] = "keys"
    /\ stop' = [stop EXCEPT ![p] = IF tracked[p] # 0 THEN "mark" ELSE "done"]
    /\ UNCHANGED <<now, watch, loop, seen, tracked, task, row, claims, delivered, faults,
                   user_vars>>

MarkInterrupted(p) ==
    /\ stop[p] = "mark"
    /\ \/ give_up(Tasks) /\ UNCHANGED faults
       \/ Fails /\ UNCHANGED row
    /\ stop' = [stop EXCEPT ![p] = "done"]
    /\ UNCHANGED <<now, watch, loop, seen, tracked, task, claims, delivered, user_vars>>

end_process(p) ==
    /\ loop' = [loop EXCEPT ![p] = "down"]
    /\ seen' = [seen EXCEPT ![p] = [next |-> Null, at |-> 0]]
    /\ tracked' = [tracked EXCEPT ![p] = 0]
    /\ stop' = [stop EXCEPT ![p] = "no"]
    /\ task' = [i \in Tasks |-> IF task[i].pod = p /\ ~Finished(i)
                                THEN [task[i] EXCEPT !.phase = "gone"] ELSE task[i]]
    /\ UNCHANGED <<now, watch, row, claims, delivered, user_vars>>

Exit(p) == stop[p] = "done" /\ end_process(p) /\ UNCHANGED faults

Crash(p) == Up(p) /\ Fails /\ end_process(p)

-----------------------------------------------------------------------------
(* execute_watch: one task. *)

Goes(i, phase) == task' = [task EXCEPT ![i].phase = phase]
writes(i, status) == row' = [row EXCEPT ![i].status = status]
task_only == UNCHANGED <<now, watch, pod_vars, claims, user_vars>>

Load_unchecked(i) ==                                   \* bug: enabled is left to the poll
    /\ task[i].phase = "load"
    /\ \/ Goes(i, "insert") /\ UNCHANGED faults
       \/ Fails /\ Goes(i, "done")
    /\ UNCHANGED <<row, delivered>> /\ task_only

Load(i) ==
    /\ task[i].phase = "load"
    /\ \/ Goes(i, IF watch.enabled THEN "insert" ELSE "done") /\ UNCHANGED faults
       \/ Fails /\ Goes(i, "done")
    /\ UNCHANGED <<row, delivered>> /\ task_only

Insert(i) ==
    /\ task[i].phase = "insert"
    /\ \/ /\ row' = [row EXCEPT ![i] = [status |-> "running", started |-> now]]
          /\ Goes(i, "verify")
          /\ UNCHANGED faults
       \/ Fails /\ maybe(i, "running", now) /\ Goes(i, "done")
    /\ UNCHANGED delivered /\ task_only

(* The creator is active, a member of the workspace and within the budget, *)
(* and a model is configured; the error of recording that none is ignored. *)
Verify(i) ==
    /\ task[i].phase = "verify"
    /\ \/ \E phase \in {"run", "disable", "fail"} :
              Goes(i, phase) /\ UNCHANGED <<row, faults>>
       \/ writes(i, "no_alert") /\ Goes(i, "done") /\ UNCHANGED faults
       \/ Fails /\ maybe(i, "no_alert", row[i].started) /\ Goes(i, "done")
    /\ UNCHANGED delivered /\ task_only

(* The creator has left the workspace: the watch is disabled, whether or   *)
(* not the statement succeeds the execution fails, and next_run_at stays.  *)
DisableWatch(i) ==
    /\ task[i].phase = "disable"
    /\ \/ watch' = [watch EXCEPT !.enabled = FALSE] /\ UNCHANGED faults
       \/ Fails /\ watch' \in {watch, [watch EXCEPT !.enabled = FALSE]}
    /\ notes_off
    /\ Goes(i, "fail")
    /\ UNCHANGED <<now, pod_vars, row, claims, delivered, edit, call, paid, edits>>

(* The agent has run.  complete_execution does not look at the status that *)
(* it replaces.                                                            *)
Conclude(i) ==
    /\ task[i].phase = "run"
    /\ \/ writes(i, "success") /\ Goes(i, "deliver") /\ UNCHANGED faults
       \/ writes(i, "no_alert") /\ Goes(i, "done") /\ UNCHANGED faults
       \/ Goes(i, "fail") /\ UNCHANGED <<row, faults>>
       \/ /\ Fails
          /\ \E status \in {"success", "no_alert"} : maybe(i, status, row[i].started)
          /\ Goes(i, "fail")
    /\ UNCHANGED delivered /\ task_only

Deliver(i) ==
    /\ task[i].phase = "deliver"
    /\ delivered' = delivered \cup {i}
    /\ Goes(i, "done")
    /\ UNCHANGED <<row, faults>> /\ task_only

(* complete_execution with an error, then fail_execution_minimal. *)
RecordFailure(i) ==
    /\ task[i].phase \in {"fail", "minimal"}
    /\ \/ writes(i, "error") /\ Goes(i, "done") /\ UNCHANGED faults
       \/ /\ Fails
          /\ maybe(i, "error", row[i].started)
          /\ Goes(i, IF task[i].phase = "fail" THEN "minimal" ELSE "done")
    /\ UNCHANGED delivered /\ task_only

Panic(i) ==
    /\ task[i].phase # "none" /\ ~Finished(i)
    /\ Fails
    /\ Goes(i, "done")
    /\ UNCHANGED <<row, delivered>> /\ task_only

-----------------------------------------------------------------------------
(* Users. *)

changes == edits < MaxEdits /\ edits' = edits + 1

BillingChanges ==
    /\ changes
    /\ paid' = ~paid
    /\ UNCHANGED <<late, now, watch, pod_vars, task, row, edit, call, claims, delivered, faults>>

(* update_watch reads the watch and computes next_run_at, then writes. *)
ReadForUpdate(e) ==
    /\ edit[e] = NoEdit
    /\ changes
    /\ \E change \in {"enable", "disable", "schedule"} :
           LET enabled == CASE change = "enable" -> TRUE
                            [] change = "disable" -> FALSE
                            [] OTHER -> watch.enabled
           IN  edit' = [edit EXCEPT ![e] =
                   [change |-> change, enabled |-> enabled,
                    next |-> IF enabled THEN calculate_next_run(now) ELSE Null]]
    /\ UNCHANGED <<late, now, watch, paid, pod_vars, task, row, call, claims, delivered, faults>>

WriteUpdate(e) ==
    /\ edit[e] # NoEdit
    /\ watch' = [next |-> edit[e].next,
                 enabled |-> IF edit[e].change = "schedule"
                             THEN watch.enabled ELSE edit[e].enabled]
    /\ notes_off
    /\ edit' = [edit EXCEPT ![e] = NoEdit]
    /\ UNCHANGED <<now, paid, pod_vars, task, row, call, claims, delivered, faults, edits>>

(* can_run_watch_now: give up on stale executions, then look for others. *)
ExpireStale_any(c) ==                                  \* bug: finished records are covered too
    /\ call[c] = "idle"
    /\ changes
    /\ row' = [i \in Tasks |-> IF row[i].status # "none" /\ row[i].started < now - Stale
                              THEN [row[i] EXCEPT !.status = "error"] ELSE row[i]]
    /\ call' = [call EXCEPT ![c] = "cleared"]
    /\ UNCHANGED <<late, now, watch, paid, pod_vars, task, edit, claims, delivered, faults>>

ExpireStale(c) ==
    /\ call[c] = "idle"
    /\ changes
    /\ give_up({i \in Tasks : row[i].started < now - Stale})
    /\ call' = [call EXCEPT ![c] = "cleared"]
    /\ UNCHANGED <<late, now, watch, paid, pod_vars, task, edit, claims, delivered, faults>>

CanRunNow(c) ==
    /\ call[c] = "cleared"
    /\ LET recent == {i \in Tasks : row[i].status # "none" /\ row[i].started >= now - Hour}
           can_run == /\ \A i \in Tasks : ~Running(i)
                      /\ Cardinality(recent) < RunsPerHour
       IN  call' = [call EXCEPT ![c] = IF can_run THEN "checked" ELSE "idle"]
    /\ UNCHANGED <<late, now, watch, paid, pod_vars, task, row, edit, claims, delivered, faults,
                   edits>>

RunNow(c) ==
    /\ call[c] = "checked"
    /\ \E p \in Pods : Up(p) /\ stop[p] = "no" /\ spawn(p, FALSE)
    /\ call' = [call EXCEPT ![c] = "idle"]
    /\ UNCHANGED <<late, now, watch, paid, loop, seen, stop, row, edit, claims, delivered, faults,
                   edits>>

(* A shutdown takes less than a unit of time. *)
Tick ==
    /\ now < MaxTime
    /\ \A p \in Pods : stop[p] = "no"
    /\ now' = now + 1
    /\ UNCHANGED <<watch, pod_vars, task, row, claims, delivered, faults, user_vars>>

-----------------------------------------------------------------------------
LoopStep(p) ==
    CheckMissed(p) \/ Reschedule(p) \/ Poll(p) \/ Claim(p) \/ Spawn(p) \/ Recover(p) \/ Wake(p)
StopStep(p) == StopWaiting(p) \/ TakeKeys(p) \/ MarkInterrupted(p) \/ Exit(p)
TaskStep(i) ==
    \/ Load(i) \/ Insert(i) \/ Verify(i) \/ DisableWatch(i) \/ Conclude(i)
    \/ Deliver(i) \/ RecordFailure(i)

Next ==
    \/ \E p \in Pods : Start(p) \/ LoopStep(p) \/ Signal(p) \/ StopStep(p) \/ Crash(p)
    \/ \E i \in Tasks : TaskStep(i) \/ Panic(i)
    \/ \E e \in Editors : ReadForUpdate(e) \/ WriteUpdate(e)
    \/ \E c \in Callers : ExpireStale(c) \/ CanRunNow(c) \/ RunNow(c)
    \/ BillingChanges
    \/ Tick

(* A pod that went down is started again, the runtime polls its loops and  *)
(* tasks, whose calls have time limits, and time passes.                   *)
Fairness ==
    /\ \A p \in Pods : WF_vars(Start(p)) /\ WF_vars(LoopStep(p)) /\ WF_vars(StopStep(p))
    /\ \A i \in Tasks : WF_vars(TaskStep(i))
    /\ WF_vars(Tick)

Spec == Init /\ [][Next]_vars /\ Fairness

-----------------------------------------------------------------------------
(* No firing of the schedule is claimed twice, by whichever pods, restarts *)
(* and catch-up runs: the claimed slots only increase.                     *)
AtMostOncePerSlot ==
    \A i, j \in 1..Len(claims) : i < j => claims[i].next < claims[j].next

(* A pod never has two scheduled executions of one watch under way. *)
OneScheduledPerPod ==
    \A i, j \in Tasks :
        /\ task[i].scheduled /\ task[j].scheduled
        /\ task[i].pod = task[j].pod
        /\ ~Finished(i) /\ ~Finished(j)
        => i = j

(* An alert is delivered only for an execution that is on record as a      *)
(* success, and no recovery takes that back.                               *)
AlertsAgree == \A i \in delivered : row[i].status = "success"

(* No execution stays on record as running for ever, whatever crashes,     *)
(* panics, aborts and lost writes its task met.                            *)
EveryExecutionEnds == \A i \in Tasks : Running(i) ~> ~Running(i)

(* A watch that is due, enabled and paid for does not stay due for ever. *)
Due == watch.enabled /\ paid /\ watch.next # Null /\ watch.next <= now
DueIsTaken == Due ~> ~Due

(* What the shutdown's documentation says of its third step: the           *)
(* executions of the pod that it aborted are not left on record as         *)
(* running.                                                                *)
ShutdownMarksAborted ==
    \A p \in Pods : stop[p] = "done" =>
        \A i \in Tasks : task[i].pod = p /\ task[i].phase = "gone" => ~Running(i)

(* A watch that was disabled, by its owner or because its creator left the *)
(* workspace, starts nothing more: the executions under way are those that *)
(* had loaded it before.  The claim of a slot compares next_run_at alone,  *)
(* which an execution that disables the watch leaves as it was, and a      *)
(* run-now request looks at other executions only.                         *)
DisabledStaysQuiet == ~watch.enabled => Loaded \subseteq late
=============================================================================
