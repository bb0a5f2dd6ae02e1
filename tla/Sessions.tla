------------------------------ MODULE Sessions ------------------------------
(***************************************************************************)
(* Browser sessions of one user (crates/kyomi-auth: session.rs,            *)
(* token_refresh.rs, token_service.rs, jwt.rs): logins, refreshes that     *)
(* rotate the refresh token, the end of one token family (logout, one      *)
(* device, reuse of a replaced token) and the end of all sessions.         *)
(*                                                                         *)
(* Requests run on several connections of PostgreSQL (READ COMMITTED) or   *)
(* of SQLite (one writer at a time).  A transaction that starts with the   *)
(* UPDATE of the users row holds `lock' from there to its end.  Time is    *)
(* the wall clock in the unit of sessions_valid_from; it may be set back.  *)
(* Refresh tokens do not expire here (30 days), OAuth grants, which are    *)
(* never rotated, are left out, and the user stays active.                 *)
(***************************************************************************)
EXTENDS Integers

CONSTANTS
    Procs,      \* requests
    MaxTokens,  \* bound: refresh tokens stored
    MaxTime,    \* bound: the clock
    MaxBack     \* bound: times the clock is set back

ASSUME SessionsAssumption ==
    /\ MaxTokens \in Nat /\ MaxTime \in Nat \ {0} /\ MaxBack \in Nat
    /\ 0 \notin Procs

VARIABLES
    pg,          \* PostgreSQL rather than SQLite
    clock, backs,
    cutoff,      \* users.sessions_valid_from, 0 when it is NULL
    lock,        \* the request that holds the users row (SQLite: the database)
    row,         \* refresh_tokens
    proc,        \* the requests
    snap,        \* the rows that a running UPDATE of a family has to change
    access,      \* access tokens that were handed out
    epoch,       \* how many times all sessions were ended
    gone         \* families whose end was reported

vars == <<pg, clock, backs, cutoff, lock, row, proc, snap, access, epoch, gone>>
history == <<epoch, gone>>

-----------------------------------------------------------------------------
None == 0
Tokens == 1..MaxTokens

(* replaced: whether replaced_at is set, and whether its grace period is over. *)
(* since: the epoch in which the login of the family was signed.             *)
NoRow == [st |-> "none", fam |-> None, replaced |-> "no", since |-> 0]
(* tok: the token presented; cut, seen: the cutoff read and when; iat, since: *)
(* session_iat_us and when it was signed.                                    *)
NoProc == [at |-> "idle", tok |-> None, cut |-> 0, seen |-> 0, iat |-> 0, since |-> 0]

Active(t) == row[t].st = "active"
Free(t) == row[t].st = "none" /\ \A u \in Tokens : u < t => row[u].st # "none"
At(q, place) == proc[q].at = place
Go(q, place) == proc' = [proc EXCEPT ![q].at = place]

(* A rotation that has not committed holds the row of its old token. *)
Locked(t) == \E q \in Procs : At(q, "replaced") /\ proc[q].tok = t

Init ==
    /\ pg \in BOOLEAN
    /\ clock = 1 /\ backs = 0
    /\ cutoff = 0
    /\ lock = None
    /\ row = [t \in Tokens |-> NoRow]
    /\ proc = [q \in Procs |-> NoProc]
    /\ snap = [q \in Procs |-> {}]
    /\ access = {}
    /\ epoch = 0 /\ gone = {}

-----------------------------------------------------------------------------
Tick ==
    /\ clock < MaxTime
    /\ clock' = clock + 1
    /\ UNCHANGED <<pg, backs, cutoff, lock, row, proc, snap, access, history>>

SetBack ==
    /\ backs < MaxBack /\ clock > 1
    /\ backs' = backs + 1
    /\ clock' = clock - 1
    /\ UNCHANGED <<pg, cutoff, lock, row, proc, snap, access, history>>

GraceEnds(t) ==
    /\ row[t].replaced = "grace"
    /\ row' = [row EXCEPT ![t].replaced = "past"]
    /\ UNCHANGED <<pg, clock, backs, cutoff, lock, proc, snap, access, history>>

-----------------------------------------------------------------------------
(* create_authenticated_session and refresh_tokens sign an access token    *)
(* from the row of the user as they read it.                               *)

LoginRead(q) ==
    /\ At(q, "idle")
    /\ proc' = [proc EXCEPT ![q] = [NoProc EXCEPT !.at = "read", !.cut = cutoff, !.seen = epoch]]
    /\ UNCHANGED <<pg, clock, backs, cutoff, lock, row, snap, access, history>>

(* verify_refresh_token: the reuse of a token after its grace period ends *)
(* the family.                                                             *)
RefreshVerify(q, t) ==
    /\ At(q, "idle")
    /\ Active(t)
    /\ proc' = [proc EXCEPT ![q] = [NoProc EXCEPT !.tok = t,
                   !.at = IF row[t].replaced = "past" THEN "ending" ELSE "verified"]]
    /\ UNCHANGED <<pg, clock, backs, cutoff, lock, row, snap, access, history>>

RefreshRead(q) ==
    /\ At(q, "verified")
    /\ proc' = [proc EXCEPT ![q].at = "read", ![q].cut = cutoff, ![q].seen = epoch]
    /\ UNCHANGED <<pg, clock, backs, cutoff, lock, row, snap, access, history>>

issued_at_equal(cut) == IF clock > cut THEN clock ELSE cut     \* bug: not the strict successor

issued_at(cut) == IF clock > cut + 1 THEN clock ELSE cut + 1

(* create_session_access_token_str *)
Mint(q) ==
    /\ At(q, "read")
    /\ proc' = [proc EXCEPT ![q].at = "minted", ![q].iat = issued_at(proc[q].cut), ![q].since = epoch]
    /\ UNCHANGED <<pg, clock, backs, cutoff, lock, row, snap, access, history>>

require_current_session_equal(a) == a.iat >= cutoff     \* bug: a token signed at the cutoff passes

require_current_session(a) == a.iat > cutoff

HandOut(q) == access' = access \cup {[iat |-> proc[q].iat, since |-> proc[q].since]}

(* store_session_refresh_token, one transaction under the lock. *)
StoreSession(q) ==
    /\ At(q, "minted") /\ proc[q].tok = None
    /\ lock = None
    /\ proc[q].iat > cutoff
    /\ \E t \in Tokens :
          /\ Free(t)
          /\ row' = [row EXCEPT ![t] = [st |-> "active", fam |-> t, replaced |-> "no",
                                        since |-> proc[q].since]]
    /\ HandOut(q)
    /\ Go(q, "done")
    /\ UNCHANGED <<pg, clock, backs, cutoff, lock, snap, history>>

StoreRefused(q) ==
    /\ At(q, "minted") /\ proc[q].tok = None
    /\ lock = None
    /\ proc[q].iat <= cutoff
    /\ Go(q, "refused")
    /\ UNCHANGED <<pg, clock, backs, cutoff, lock, row, snap, access, history>>

(* rotate_refresh_token: under the lock, the old token must be active. *)
RotateReplace_unchecked(q) ==    \* bug: the UPDATE does not ask for is_active
    /\ At(q, "minted") /\ proc[q].tok # None
    /\ lock = None
    /\ lock' = q
    /\ Go(q, "replaced")
    /\ UNCHANGED <<pg, clock, backs, cutoff, row, snap, access, history>>

RotateReplace(q) ==
    /\ At(q, "minted") /\ proc[q].tok # None
    /\ lock = None
    /\ \/ Active(proc[q].tok) /\ lock' = q /\ Go(q, "replaced")
       \/ ~Active(proc[q].tok) /\ Go(q, "failed") /\ UNCHANGED lock
    /\ UNCHANGED <<pg, clock, backs, cutoff, row, snap, access, history>>

(* replaced_at is stamped anew when the old token had been replaced before. *)
RotateCommit(q) ==
    /\ At(q, "replaced")
    /\ \E t \in Tokens :
          /\ Free(t)
          /\ row' = [row EXCEPT ![proc[q].tok].replaced = "grace",
                        ![t] = [st |-> "active", fam |-> row[proc[q].tok].fam, replaced |-> "no",
                                since |-> row[proc[q].tok].since]]
    /\ HandOut(q)
    /\ lock' = None
    /\ Go(q, "done")
    /\ UNCHANGED <<pg, clock, backs, cutoff, snap, history>>

-----------------------------------------------------------------------------
(* logout and revoke_user_refresh_token: the family of a token that is     *)
(* active, replaced or not, is looked up first.                            *)
EndFamily(q, t) ==
    /\ At(q, "idle")
    /\ Active(t)
    /\ proc' = [proc EXCEPT ![q] = [NoProc EXCEPT !.at = "ending", !.tok = t]]
    /\ UNCHANGED <<pg, clock, backs, cutoff, lock, row, snap, access, history>>

family(t) == {u \in Tokens : Active(u) /\ row[u].fam = row[t].fam}

(* revoke_token_family is one statement that does not take the lock.  In   *)
(* PostgreSQL it sees the rows that were committed when it began and waits *)
(* for those that a rotation has changed; in SQLite it is the only writer. *)
FamilyBegins(q) ==
    /\ At(q, "ending")
    /\ IF pg THEN UNCHANGED lock ELSE lock = None /\ lock' = q
    /\ snap' = [snap EXCEPT ![q] = family(proc[q].tok)]
    /\ Go(q, "updating")
    /\ UNCHANGED <<pg, clock, backs, cutoff, row, access, history>>

FamilyEnds_one(q) ==             \* bug: only the token that was presented is revoked
    /\ At(q, "updating")
    /\ \A t \in snap[q] : ~Locked(t)
    /\ row' = [row EXCEPT ![proc[q].tok].st = "revoked"]
    /\ snap' = [snap EXCEPT ![q] = {}]
    /\ lock' = IF pg THEN lock ELSE None
    /\ gone' = gone \cup {row[proc[q].tok].fam}
    /\ Go(q, "done")
    /\ UNCHANGED <<pg, clock, backs, cutoff, access, epoch>>

FamilyEnds(q) ==
    /\ At(q, "updating")
    /\ \A t \in snap[q] : ~Locked(t)
    /\ row' = [t \in Tokens |-> IF t \in snap[q] THEN [row[t] EXCEPT !.st = "revoked"] ELSE row[t]]
    /\ snap' = [snap EXCEPT ![q] = {}]
    /\ lock' = IF pg THEN lock ELSE None
    /\ gone' = gone \cup {row[proc[q].tok].fam}
    /\ Go(q, "done")
    /\ UNCHANGED <<pg, clock, backs, cutoff, access, epoch>>

(* revoke_all_user_sessions: the users row is locked, then the clock is    *)
(* read.  A token signed between that and the commit counts as signed      *)
(* after it, as one signed from the same cutoff after the commit would.    *)
RevokeAllLocks_open(q) ==       \* bug: the users row is not locked
    /\ At(q, "idle")
    /\ lock = None
    /\ Go(q, "all")
    /\ UNCHANGED <<pg, clock, backs, cutoff, lock, row, snap, access, history>>

RevokeAllLocks(q) ==
    /\ At(q, "idle")
    /\ lock = None
    /\ lock' = q
    /\ Go(q, "all")
    /\ UNCHANGED <<pg, clock, backs, cutoff, row, snap, access, history>>

advanced == IF cutoff >= clock THEN cutoff + 1 ELSE clock

RevokeAllCommits(q) ==
    /\ At(q, "all")
    /\ cutoff' = advanced
    /\ row' = [t \in Tokens |-> IF Active(t) THEN [row[t] EXCEPT !.st = "revoked"] ELSE row[t]]
    /\ epoch' = epoch + 1
    /\ lock' = None
    /\ Go(q, "done")
    /\ UNCHANGED <<pg, clock, backs, snap, access, gone>>

(* A statement fails or the client goes: the transaction rolls back.  An   *)
(* answer that is lost after the commit leaves the same rows as one that   *)
(* arrives.                                                                *)
Fails(q) ==
    /\ proc[q].at \notin {"idle", "done", "failed", "refused"}
    /\ lock' = IF lock = q THEN None ELSE lock
    /\ snap' = [snap EXCEPT ![q] = {}]
    /\ Go(q, "failed")
    /\ UNCHANGED <<pg, clock, backs, cutoff, row, access, history>>

-----------------------------------------------------------------------------
Next ==
    \/ Tick \/ SetBack
    \/ \E t \in Tokens : GraceEnds(t)
    \/ \E q \in Procs :
          \/ LoginRead(q) \/ RefreshRead(q) \/ Mint(q)
          \/ StoreSession(q) \/ StoreRefused(q)
          \/ RotateReplace(q) \/ RotateCommit(q)
          \/ FamilyBegins(q) \/ FamilyEnds(q)
          \/ RevokeAllLocks(q) \/ RevokeAllCommits(q)
          \/ Fails(q)
          \/ \E t \in Tokens : RefreshVerify(q, t) \/ EndFamily(q, t)

Spec == Init /\ [][Next]_vars

-----------------------------------------------------------------------------
(* Requests, rows and counters have the values the code gives them, and a  *)
(* request that writes holds the lock.                                     *)
TypeOK ==
    /\ pg \in BOOLEAN
    /\ clock \in 1..MaxTime /\ backs \in 0..MaxBack
    /\ cutoff \in Nat /\ epoch \in Nat
    /\ lock \in Procs \cup {None}
    /\ row \in [Tokens -> [st : {"none", "active", "revoked"}, fam : 0..MaxTokens,
                           replaced : {"no", "grace", "past"}, since : Nat]]
    /\ proc \in [Procs -> [at : {"idle", "verified", "read", "minted", "replaced", "ending", "updating",
                                 "all", "done", "failed", "refused"},
                           tok : 0..MaxTokens, cut : Nat, seen : Nat, iat : Nat, since : Nat]]
    /\ snap \in [Procs -> SUBSET Tokens]
    /\ access \subseteq [iat : Nat, since : Nat]
    /\ gone \subseteq Tokens
    /\ \A q \in Procs : proc[q].at \in {"replaced", "all"} => lock = q

(* revoke_all_user_sessions leaves no way back: while the clock is not set *)
(* back, a refresh token that is usable belongs to a login signed after    *)
(* the last time all sessions were ended, whatever refreshes and logins    *)
(* were under way then.                                                    *)
NoneSurvives == backs = 0 => \A t \in Tokens : Active(t) => row[t].since = epoch

(* require_current_session accepts the access tokens of the present epoch  *)
(* and, while the clock is not set back, no other.                         *)
AccessExact ==
    \A a \in access :
        /\ a.since = epoch => require_current_session(a)
        /\ backs = 0 /\ require_current_session(a) => a.since = epoch

(* A login is refused only because all sessions were ended after it read   *)
(* the cutoff: a fresh login works at once, in the same instant too and on *)
(* a clock that was set back.                                              *)
FreshLoginWorks == \A q \in Procs : At(q, "refused") => proc[q].seen < epoch

(* Every token of a family that was ended is unusable.                     *)
FamilyGone == \A t \in Tokens : row[t].fam \in gone => ~Active(t)

(* With SQLite a rotation under way never outlives the end of its family.  *)
FamilyGoneSqlite == ~pg => FamilyGone

(* Each end of all sessions moves the cutoff strictly forward, on a clock  *)
(* that was set back too.                                                  *)
CutoffAdvances == [][epoch' # epoch \/ cutoff' # cutoff => cutoff' > cutoff]_vars
=============================================================================
