---------------------------- MODULE RunLifecycle ----------------------------
(***************************************************************************)
(* The pure lifecycle policy of one durable run (crates/agent-runtime).    *)
(*                                                                         *)
(* A run snapshot is a record with the fields the policy reads or writes:  *)
(*   state    one of RunState                                              *)
(*   cancel   cancellation_requested                                       *)
(*   fence    last allocated fence                                         *)
(*   owner    owner of the lease, None when there is no lease              *)
(*   expires  expires_at of the lease, 0 when there is no lease            *)
(* The stored row keeps one fence for the run and for its lease, so a      *)
(* snapshot has one field for both.  The timestamps started_at and         *)
(* terminal_at are not read by any decision and are left out.  Every plan  *)
(* is a pair of operators: a predicate for the conditions under which the  *)
(* code returns Ok with a change, and the resulting snapshot.              *)
(***************************************************************************)
EXTENDS Integers

CONSTANT None

RunState == {"queued", "running", "completed", "failed", "cancelled", "interrupted"}

is_terminal(state) == state \in RunState \ {"queued", "running"}

(* The lease is a token [owner, fence]: heartbeats move the stored expiry  *)
(* and leave the token alone.  Expiry is inclusive.                        *)
validate_ownership_fence_only(run, lease, now) ==      \* bug: the fence alone is checked
    run.fence = lease.fence

validate_ownership(run, lease, now) ==
    /\ run.state = "running"
    /\ run.owner = lease.owner
    /\ run.fence = lease.fence
    /\ run.expires > now

claimable(run) == run.state = "queued" /\ ~run.cancel

plan_claim(run, owner, now, ttl) ==
    [run EXCEPT !.state = "running", !.fence = @ + 1,
                !.owner = owner, !.expires = now + ttl]

plan_heartbeat(run, now, ttl) ==
    [run EXCEPT !.expires = IF @ > now + ttl THEN @ ELSE now + ttl]

terminal(run, state) ==
    [run EXCEPT !.state = state, !.owner = None, !.expires = 0]

cancel_changes(run) ==
    run.state = "queued" \/ (run.state = "running" /\ ~run.cancel)

plan_cancel(run) ==
    LET requested == [run EXCEPT !.cancel = TRUE]
    IN  IF run.state = "queued" THEN terminal(requested, "cancelled") ELSE requested

(* The outcomes an owner may ask for.  Interrupted is reserved for expiry. *)
Finalizable == {"completed", "failed", "cancelled"}

plan_finalize_ignores_cancel(run, state) ==            \* bug: completion beats cancellation
    terminal(run, state)

plan_finalize(run, state) ==
    terminal(run, IF run.cancel THEN "cancelled" ELSE state)

plan_interrupt_queued(run) == terminal(run, "interrupted")

expired(run, now) == run.state = "running" /\ run.expires <= now

plan_expire_requeues(run) ==                           \* bug: expired work is retried
    [run EXCEPT !.state = "queued", !.owner = None, !.expires = 0]

plan_expire(run) ==
    terminal(run, IF run.cancel THEN "cancelled" ELSE "interrupted")
=============================================================================
