--------------------------- MODULE SessionsProofs ---------------------------
(***************************************************************************)
(* The safety properties of Sessions, for every number of requests and     *)
(* tokens and every bound on the clock.  The inductive invariant says what *)
(* a request under way knows: as long as the token it refreshes is active, *)
(* the cutoff it read is the cutoff, and what it signed lies above it; and *)
(* nothing signed in an earlier epoch lies above the cutoff while the      *)
(* clock was not set back.                                                 *)
(***************************************************************************)
EXTENDS Sessions, TLAPS

(* An instant at which a token may have been signed. *)
Past(iat) == iat <= clock \/ iat <= cutoff + 1

(* The tokens that a request holds were stored. *)
TokenOK(q) ==
    /\ proc[q].at \in {"verified", "replaced", "ending", "updating"} => proc[q].tok # None
    /\ proc[q].tok # None => row[proc[q].tok].st # "none"
    /\ proc[q].at = "replaced" => Active(proc[q].tok)

(* The cutoff that a request has read is the present one, or all sessions  *)
(* have been ended since, and the token it refreshes with them.            *)
CutOK(q) ==
    /\ proc[q].at \in {"read", "minted", "replaced"} =>
          /\ proc[q].cut <= cutoff /\ proc[q].seen <= epoch
          /\ proc[q].seen = epoch => proc[q].cut = cutoff
          /\ proc[q].tok # None /\ Active(proc[q].tok) => proc[q].seen = epoch
    /\ proc[q].at \in {"minted", "replaced"} => proc[q].iat > proc[q].cut /\ proc[q].since <= epoch
    /\ proc[q].at = "refused" => proc[q].seen < epoch

(* What a request has signed before the sessions ended is not above the    *)
(* cutoff.                                                                 *)
SignedOK(q) ==
    backs = 0 /\ proc[q].at \in {"minted", "replaced"} =>
        Past(proc[q].iat) /\ (proc[q].since < epoch => proc[q].iat <= cutoff)

AccessOK ==
    \A a \in access :
        /\ a.since <= epoch
        /\ a.since = epoch => a.iat > cutoff
        /\ backs = 0 => Past(a.iat) /\ (a.since < epoch => a.iat <= cutoff)

(* The family of a row is the number of its first row. *)
RowsOK ==
    /\ \A t \in Tokens : row[t].st # "none" => row[t].fam \in Tokens /\ row[row[t].fam].st # "none"
    /\ \A f \in gone : row[f].st # "none"
    /\ \A q \in Procs : \A t \in snap[q] : row[t].st # "none"

(* In SQLite the statement that ends a family holds the lock and has all   *)
(* of the family's usable rows.                                            *)
UpdateOK(q) ==
    ~pg /\ proc[q].at = "updating" =>
        lock = q /\ \A t \in Tokens : Active(t) /\ row[t].fam = row[proc[q].tok].fam => t \in snap[q]

Known == \A q \in Procs : TokenOK(q) /\ CutOK(q) /\ SignedOK(q) /\ UpdateOK(q)

IInv == TypeOK /\ Known /\ AccessOK /\ RowsOK /\ NoneSurvives /\ FamilyGoneSqlite

-----------------------------------------------------------------------------
(* The type of a request. *)
ProcType ==
    [at : {"idle", "verified", "read", "minted", "replaced", "ending", "updating",
           "all", "done", "failed", "refused"},
     tok : 0..MaxTokens, cut : Nat, seen : Nat, iat : Nat, since : Nat]

(* A step of a request that changes no row keeps the invariant if it takes *)
(* the lock from no other and what the request knows after it is true.     *)
LEMMA RequestStep ==
    ASSUME IInv, NEW q \in Procs, NEW r \in ProcType, proc' = [proc EXCEPT ![q] = r],
           UNCHANGED <<pg, clock, backs, cutoff, row, access, history>>,
           lock' \in Procs \cup {None}, \A p \in Procs \ {q} : lock = p => lock' = p,
           r.at \in {"replaced", "all"} => lock' = q,
           snap' \in [Procs -> SUBSET Tokens], \A p \in Procs \ {q} : snap'[p] = snap[p],
           \A t \in snap'[q] : row[t].st # "none",
           TokenOK(q)', CutOK(q)', SignedOK(q)', UpdateOK(q)'
    PROVE IInv'
<1> USE DEF history
<1>1. /\ proc'[q] = r /\ proc' \in [Procs -> ProcType]
      /\ \A p \in Procs \ {q} : proc'[p] = proc[p]
  BY DEF IInv, TypeOK, ProcType
<1>2. TypeOK'
  BY <1>1 DEF IInv, TypeOK, ProcType
<1>3. ASSUME NEW p \in Procs PROVE (TokenOK(p) /\ CutOK(p) /\ SignedOK(p) /\ UpdateOK(p))'
  <2>1. CASE p = q
    BY <2>1
  <2>2. CASE p # q
    <3>1. proc'[p] = proc[p] /\ snap'[p] = snap[p] /\ (lock = p => lock' = p)
      BY <1>1, <2>2
    <3>2. TokenOK(p) /\ CutOK(p) /\ SignedOK(p) /\ UpdateOK(p)
      BY DEF IInv, Known
    <3>3. QED
      BY <3>1, <3>2 DEF TokenOK, CutOK, SignedOK, UpdateOK, Past, Active
  <2>3. QED
    BY <2>1, <2>2
<1>4. Known'
  BY <1>3 DEF Known
<1>5. AccessOK' /\ RowsOK' /\ NoneSurvives' /\ FamilyGoneSqlite'
  BY DEF IInv, AccessOK, RowsOK, NoneSurvives, FamilyGoneSqlite, FamilyGone, Past, Active
<1>6. QED
  BY <1>2, <1>4, <1>5 DEF IInv

(* The same for a step that changes the request only. *)
LEMMA ProcStep ==
    ASSUME IInv, NEW q \in Procs, NEW r \in ProcType, proc' = [proc EXCEPT ![q] = r],
           UNCHANGED <<pg, clock, backs, cutoff, lock, row, snap, access, history>>,
           r.at \notin {"replaced", "all", "updating"},
           TokenOK(q)', CutOK(q)', SignedOK(q)'
    PROVE IInv'
<1>1. UpdateOK(q)'
  BY DEF UpdateOK, IInv, TypeOK
<1>2. lock' \in Procs \cup {None} /\ snap' \in [Procs -> SUBSET Tokens] /\ \A t \in snap'[q] : row[t].st # "none"
  BY DEF IInv, TypeOK, RowsOK
<1>3. QED
  BY <1>1, <1>2, RequestStep

-----------------------------------------------------------------------------
(* The clock. *)
LEMMA ClockKeeps ==
    ASSUME IInv, Tick \/ SetBack
    PROVE IInv'
<1>1. /\ UNCHANGED <<pg, cutoff, lock, row, proc, snap, access, epoch, gone>>
      /\ clock' \in 1..MaxTime /\ backs' \in 0..MaxBack
      /\ backs' = 0 => backs = 0 /\ clock' >= clock
  BY SessionsAssumption DEF IInv, TypeOK, Tick, SetBack, history
<1>2. TypeOK'
  BY <1>1 DEF IInv, TypeOK
<1>3. ASSUME NEW p \in Procs PROVE (TokenOK(p) /\ CutOK(p) /\ UpdateOK(p))'
  BY <1>1 DEF IInv, Known, TokenOK, CutOK, UpdateOK, Active
<1>4. ASSUME NEW p \in Procs PROVE SignedOK(p)'
  <2>1. SignedOK(p) /\ proc[p].iat \in Nat /\ clock \in Nat /\ clock' \in Nat
    BY <1>1 DEF IInv, Known, TypeOK
  <2>2. QED
    BY <1>1, <2>1 DEF SignedOK, Past
<1>5. AccessOK'
  <2>1. ASSUME NEW a \in access, backs = 0, clock' >= clock PROVE Past(a.iat)'
    BY <1>1, <2>1 DEF IInv, AccessOK, TypeOK, Past
  <2>2. QED
    BY <1>1, <2>1 DEF IInv, AccessOK
<1>6. RowsOK' /\ NoneSurvives' /\ FamilyGoneSqlite'
  BY <1>1 DEF IInv, RowsOK, NoneSurvives, FamilyGoneSqlite, FamilyGone, Active
<1>7. QED
  BY <1>2, <1>3, <1>4, <1>5, <1>6 DEF IInv, Known

(* A row changes nothing but its grace period. *)
LEMMA GraceKeeps ==
    ASSUME IInv, NEW t \in Tokens, GraceEnds(t)
    PROVE IInv'
<1>1. /\ UNCHANGED <<pg, clock, backs, cutoff, lock, proc, snap, access, epoch, gone>>
      /\ row' = [row EXCEPT ![t].replaced = "past"]
  BY DEF GraceEnds, history
<1>2. TypeOK'
  BY <1>1 DEF IInv, TypeOK
<1>3. \A u \in Tokens : row'[u].st = row[u].st /\ row'[u].fam = row[u].fam /\ row'[u].since = row[u].since
  BY <1>1 DEF IInv, TypeOK
<1>4. ASSUME NEW p \in Procs PROVE (TokenOK(p) /\ CutOK(p) /\ SignedOK(p) /\ UpdateOK(p))'
  <2>1. proc[p].tok = None \/ proc[p].tok \in Tokens
    BY DEF IInv, TypeOK, None, Tokens
  <2>2. TokenOK(p) /\ CutOK(p) /\ SignedOK(p) /\ UpdateOK(p)
    BY DEF IInv, Known
  <2>3. QED
    BY <1>1, <1>3, <2>1, <2>2 DEF TokenOK, CutOK, SignedOK, UpdateOK, Past, Active
<1>5. AccessOK'
  BY <1>1 DEF IInv, AccessOK, Past
<1>6. RowsOK' /\ NoneSurvives' /\ FamilyGoneSqlite'
  BY <1>1, <1>3 DEF IInv, TypeOK, RowsOK, NoneSurvives, FamilyGoneSqlite, FamilyGone, Active
<1>7. QED
  BY <1>2, <1>4, <1>5, <1>6 DEF IInv, Known

-----------------------------------------------------------------------------
(* Logins and refreshes up to the signed token, refusals, and requests     *)
(* that will end a family.                                                 *)
LEMMA LoginReadKeeps ==
    ASSUME IInv, NEW q \in Procs, LoginRead(q)
    PROVE IInv'
<1> DEFINE r == [NoProc EXCEPT !.at = "read", !.cut = cutoff, !.seen = epoch]
<1>1. r \in ProcType /\ r.at = "read" /\ r.tok = None /\ r.cut = cutoff /\ r.seen = epoch
  <2>1. cutoff \in Nat /\ epoch \in Nat /\ 0 \in 0..MaxTokens
    BY SessionsAssumption DEF IInv, TypeOK
  <2>2. NoProc \in ProcType /\ NoProc.tok = None
    BY <2>1 DEF ProcType, None, NoProc
  <2>3. QED
    BY <2>1, <2>2 DEF ProcType
<1>2. /\ proc' = [proc EXCEPT ![q] = r] /\ proc'[q] = r
      /\ UNCHANGED <<pg, clock, backs, cutoff, lock, row, snap, access, history>>
  BY DEF LoginRead, IInv, TypeOK
<1>3. cutoff \in Nat /\ epoch \in Nat
  BY DEF IInv, TypeOK
<1> HIDE DEF r
<1>4. TokenOK(q)' /\ CutOK(q)' /\ SignedOK(q)'
  BY <1>1, <1>2, <1>3 DEF TokenOK, CutOK, SignedOK, history
<1>5. QED
  BY <1>1, <1>2, <1>4, ProcStep

LEMMA RefreshVerifyKeeps ==
    ASSUME IInv, NEW q \in Procs, NEW t \in Tokens, RefreshVerify(q, t) \/ EndFamily(q, t)
    PROVE IInv'
<1> DEFINE place == IF RefreshVerify(q, t) /\ row[t].replaced # "past" THEN "verified" ELSE "ending"
           r == [at |-> place, tok |-> t, cut |-> 0, seen |-> 0, iat |-> 0, since |-> 0]
<1>1. proc' = [proc EXCEPT ![q] = r]
  BY DEF RefreshVerify, EndFamily, NoProc
<1>2. r \in ProcType /\ r.at \in {"ending", "verified"} /\ r.tok = t /\ t # None
  BY DEF ProcType, None, Tokens
<1>3. /\ proc' = [proc EXCEPT ![q] = r] /\ proc'[q] = r /\ Active(t)
      /\ UNCHANGED <<pg, clock, backs, cutoff, lock, row, snap, access, history>>
  BY <1>1 DEF RefreshVerify, EndFamily, IInv, TypeOK
<1>4. TokenOK(q)' /\ CutOK(q)' /\ SignedOK(q)'
  BY <1>2, <1>3 DEF TokenOK, CutOK, SignedOK, Active
<1> HIDE DEF r
<1>5. QED
  BY <1>2, <1>3, <1>4, ProcStep

LEMMA RefreshReadKeeps ==
    ASSUME IInv, NEW q \in Procs, RefreshRead(q)
    PROVE IInv'
<1> DEFINE r == [proc[q] EXCEPT !.at = "read", !.cut = cutoff, !.seen = epoch]
<1>1. /\ r \in ProcType /\ r.at = "read" /\ r.tok = proc[q].tok /\ r.cut = cutoff /\ r.seen = epoch
      /\ proc[q].at = "verified"
  BY DEF IInv, TypeOK, ProcType, RefreshRead, At
<1>2. /\ proc' = [proc EXCEPT ![q] = r] /\ proc'[q] = r
      /\ UNCHANGED <<pg, clock, backs, cutoff, lock, row, snap, access, history>>
  BY DEF RefreshRead, IInv, TypeOK
<1>3. TokenOK(q)' /\ CutOK(q)' /\ SignedOK(q)'
  BY <1>1, <1>2 DEF TokenOK, CutOK, SignedOK, history, IInv, Known, TypeOK
<1> HIDE DEF r
<1>4. QED
  BY <1>1, <1>2, <1>3, ProcStep

LEMMA MintKeeps ==
    ASSUME IInv, NEW q \in Procs, Mint(q)
    PROVE IInv'
<1> DEFINE r == [proc[q] EXCEPT !.at = "minted", !.iat = issued_at(proc[q].cut), !.since = epoch]
<1>0. /\ proc[q].at = "read" /\ proc[q] \in ProcType /\ clock \in Nat /\ cutoff \in Nat /\ epoch \in Nat
      /\ TokenOK(q) /\ CutOK(q)
  BY DEF IInv, TypeOK, ProcType, Mint, At, Known
<1>1. issued_at(proc[q].cut) \in Nat /\ issued_at(proc[q].cut) > proc[q].cut /\ Past(issued_at(proc[q].cut))
  BY <1>0 DEF issued_at, Past, CutOK, ProcType
<1>2. /\ r \in ProcType /\ r.at = "minted" /\ r.tok = proc[q].tok /\ r.cut = proc[q].cut
      /\ r.seen = proc[q].seen /\ r.iat = issued_at(proc[q].cut) /\ r.since = epoch
  BY <1>0, <1>1 DEF ProcType
<1>3. /\ proc' = [proc EXCEPT ![q] = r] /\ proc'[q] = r
      /\ UNCHANGED <<pg, clock, backs, cutoff, lock, row, snap, access, history>>
  BY DEF Mint, IInv, TypeOK
<1> HIDE DEF r
<1>4. TokenOK(q)' /\ CutOK(q)' /\ SignedOK(q)'
  BY <1>0, <1>1, <1>2, <1>3 DEF TokenOK, CutOK, SignedOK, Past, Active, history
<1>5. QED
  BY <1>2, <1>3, <1>4, ProcStep

LEMMA StoreRefusedKeeps ==
    ASSUME IInv, NEW q \in Procs, StoreRefused(q)
    PROVE IInv'
<1> DEFINE r == [proc[q] EXCEPT !.at = "refused"]
<1>0. /\ proc[q].at = "minted" /\ proc[q] \in ProcType /\ cutoff \in Nat /\ epoch \in Nat
      /\ proc[q].iat <= cutoff /\ TokenOK(q) /\ CutOK(q)
  BY DEF IInv, TypeOK, ProcType, StoreRefused, At, Known
<1>1. r \in ProcType /\ r.at = "refused" /\ r.tok = proc[q].tok /\ r.seen = proc[q].seen
  BY <1>0 DEF ProcType
<1>2. /\ proc' = [proc EXCEPT ![q] = r] /\ proc'[q] = r
      /\ UNCHANGED <<pg, clock, backs, cutoff, lock, row, snap, access, history>>
  BY DEF StoreRefused, Go, IInv, TypeOK
<1>3. proc[q].seen < epoch
  BY <1>0 DEF CutOK, ProcType
<1> HIDE DEF r
<1>4. TokenOK(q)' /\ CutOK(q)' /\ SignedOK(q)'
  BY <1>0, <1>1, <1>2, <1>3 DEF TokenOK, CutOK, SignedOK, history
<1>5. QED
  BY <1>1, <1>2, <1>4, ProcStep

-----------------------------------------------------------------------------
(* Steps that take or release the lock. *)
LEMMA RotateReplaceKeeps ==
    ASSUME IInv, NEW q \in Procs, RotateReplace(q)
    PROVE IInv'
<1>0. /\ proc[q].at = "minted" /\ proc[q] \in ProcType /\ proc[q].tok # None /\ lock = None
      /\ TokenOK(q) /\ CutOK(q) /\ SignedOK(q) /\ None \notin Procs
      /\ UNCHANGED <<pg, clock, backs, cutoff, row, snap, access, history>>
  BY SessionsAssumption DEF IInv, TypeOK, ProcType, RotateReplace, At, Known, None
<1>1. CASE Active(proc[q].tok) /\ lock' = q /\ Go(q, "replaced")
  <2> DEFINE r == [proc[q] EXCEPT !.at = "replaced"]
  <2>1. /\ r \in ProcType /\ r.at = "replaced" /\ r.tok = proc[q].tok /\ r.cut = proc[q].cut
        /\ r.seen = proc[q].seen /\ r.iat = proc[q].iat /\ r.since = proc[q].since
    BY <1>0 DEF ProcType
  <2>2. proc' = [proc EXCEPT ![q] = r] /\ proc'[q] = r
    BY <1>1 DEF Go, IInv, TypeOK
  <2> HIDE DEF r
  <2>3. TokenOK(q)' /\ CutOK(q)' /\ SignedOK(q)' /\ UpdateOK(q)'
    BY <1>0, <1>1, <2>1, <2>2 DEF TokenOK, CutOK, SignedOK, UpdateOK, Past, Active, history
  <2>4. /\ snap' \in [Procs -> SUBSET Tokens] /\ \A t \in snap'[q] : row[t].st # "none"
        /\ \A p \in Procs \ {q} : lock # p
    BY <1>0 DEF IInv, TypeOK, RowsOK
  <2>5. QED
    BY <1>0, <1>1, <2>1, <2>2, <2>3, <2>4, RequestStep
<1>2. CASE ~Active(proc[q].tok) /\ Go(q, "failed") /\ UNCHANGED lock
  <2> DEFINE r == [proc[q] EXCEPT !.at = "failed"]
  <2>1. r \in ProcType /\ r.at = "failed" /\ r.tok = proc[q].tok
    BY <1>0 DEF ProcType
  <2>2. proc' = [proc EXCEPT ![q] = r] /\ proc'[q] = r
    BY <1>2 DEF Go, IInv, TypeOK
  <2> HIDE DEF r
  <2>3. TokenOK(q)' /\ CutOK(q)' /\ SignedOK(q)'
    BY <1>0, <2>1, <2>2 DEF TokenOK, CutOK, SignedOK
  <2>4. QED
    BY <1>0, <1>2, <2>1, <2>2, <2>3, ProcStep
<1>3. QED
  BY <1>1, <1>2 DEF RotateReplace

LEMMA FamilyBeginsKeeps ==
    ASSUME IInv, NEW q \in Procs, FamilyBegins(q)
    PROVE IInv'
<1> DEFINE r == [proc[q] EXCEPT !.at = "updating"]
<1>0. /\ proc[q].at = "ending" /\ proc[q] \in ProcType /\ TokenOK(q) /\ None \notin Procs
      /\ IF pg THEN UNCHANGED lock ELSE lock = None /\ lock' = q
      /\ snap' = [snap EXCEPT ![q] = family(proc[q].tok)]
      /\ UNCHANGED <<pg, clock, backs, cutoff, row, access, history>>
  BY SessionsAssumption DEF IInv, TypeOK, ProcType, FamilyBegins, At, Known, None
<1>1. r \in ProcType /\ r.at = "updating" /\ r.tok = proc[q].tok
  BY <1>0 DEF ProcType
<1>2. proc' = [proc EXCEPT ![q] = r] /\ proc'[q] = r
  BY DEF FamilyBegins, Go, IInv, TypeOK
<1>3. /\ snap' \in [Procs -> SUBSET Tokens] /\ snap'[q] = family(proc[q].tok)
      /\ \A p \in Procs \ {q} : snap'[p] = snap[p]
      /\ \A t \in snap'[q] : row[t].st # "none"
  BY <1>0 DEF IInv, TypeOK, family, Active
<1> HIDE DEF r
<1>4. TokenOK(q)' /\ CutOK(q)' /\ SignedOK(q)'
  BY <1>0, <1>1, <1>2 DEF TokenOK, CutOK, SignedOK, Active
<1>5. UpdateOK(q)'
  BY <1>0, <1>1, <1>2, <1>3 DEF UpdateOK, family, Active
<1>6. lock' \in Procs \cup {None} /\ \A p \in Procs \ {q} : lock = p => lock' = p
  BY <1>0 DEF IInv, TypeOK
<1>7. QED
  BY <1>0, <1>1, <1>2, <1>3, <1>4, <1>5, <1>6, RequestStep

LEMMA RevokeAllLocksKeeps ==
    ASSUME IInv, NEW q \in Procs, RevokeAllLocks(q)
    PROVE IInv'
<1> DEFINE r == [proc[q] EXCEPT !.at = "all"]
<1>0. /\ proc[q].at = "idle" /\ proc[q] \in ProcType /\ TokenOK(q) /\ None \notin Procs
      /\ lock = None /\ lock' = q
      /\ UNCHANGED <<pg, clock, backs, cutoff, row, snap, access, history>>
  BY SessionsAssumption DEF IInv, TypeOK, ProcType, RevokeAllLocks, At, Known, None
<1>1. r \in ProcType /\ r.at = "all" /\ r.tok = proc[q].tok
  BY <1>0 DEF ProcType
<1>2. proc' = [proc EXCEPT ![q] = r] /\ proc'[q] = r
  BY DEF RevokeAllLocks, Go, IInv, TypeOK
<1>3. /\ snap' \in [Procs -> SUBSET Tokens] /\ \A t \in snap'[q] : row[t].st # "none"
      /\ \A p \in Procs \ {q} : lock # p
  BY <1>0 DEF IInv, TypeOK, RowsOK
<1> HIDE DEF r
<1>4. TokenOK(q)' /\ CutOK(q)' /\ SignedOK(q)' /\ UpdateOK(q)'
  BY <1>0, <1>1, <1>2 DEF TokenOK, CutOK, SignedOK, UpdateOK, Active
<1>5. QED
  BY <1>0, <1>1, <1>2, <1>3, <1>4, RequestStep

LEMMA FailsKeeps ==
    ASSUME IInv, NEW q \in Procs, Fails(q)
    PROVE IInv'
<1> DEFINE r == [proc[q] EXCEPT !.at = "failed"]
<1>0. /\ proc[q] \in ProcType /\ TokenOK(q)
      /\ lock' = IF lock = q THEN None ELSE lock
      /\ snap' = [snap EXCEPT ![q] = {}]
      /\ UNCHANGED <<pg, clock, backs, cutoff, row, access, history>>
  BY DEF IInv, TypeOK, ProcType, Fails, Known
<1>1. r \in ProcType /\ r.at = "failed" /\ r.tok = proc[q].tok
  BY <1>0 DEF ProcType
<1>2. proc' = [proc EXCEPT ![q] = r] /\ proc'[q] = r
  BY DEF Fails, Go, IInv, TypeOK
<1>3. /\ snap' \in [Procs -> SUBSET Tokens] /\ \A p \in Procs \ {q} : snap'[p] = snap[p]
      /\ snap'[q] = {}
      /\ lock' \in Procs \cup {None} /\ \A p \in Procs \ {q} : lock = p => lock' = p
  BY <1>0 DEF IInv, TypeOK
<1> HIDE DEF r
<1>4. TokenOK(q)' /\ CutOK(q)' /\ SignedOK(q)' /\ UpdateOK(q)'
  BY <1>0, <1>1, <1>2 DEF TokenOK, CutOK, SignedOK, UpdateOK, Active
<1>5. QED
  BY <1>0, <1>1, <1>2, <1>3, <1>4, RequestStep

-----------------------------------------------------------------------------
(* Steps that commit. *)
LEMMA StoreSessionKeeps ==
    ASSUME IInv, NEW q \in Procs, StoreSession(q)
    PROVE IInv'
<1> DEFINE r == [proc[q] EXCEPT !.at = "done"]
<1>0. /\ proc[q].at = "minted" /\ proc[q] \in ProcType /\ proc[q].tok = None /\ lock = None
      /\ TokenOK(q) /\ CutOK(q) /\ SignedOK(q) /\ None \notin Procs /\ proc[q].iat > cutoff
      /\ access' = access \cup {[iat |-> proc[q].iat, since |-> proc[q].since]}
      /\ UNCHANGED <<pg, clock, backs, cutoff, lock, snap, epoch, gone>>
      /\ cutoff \in Nat /\ epoch \in Nat /\ clock \in Nat
  BY SessionsAssumption DEF IInv, TypeOK, ProcType, StoreSession, At, Known, None, HandOut, history
<1>1. PICK t \in Tokens :
        /\ row[t].st = "none"
        /\ row' = [row EXCEPT ![t] = [st |-> "active", fam |-> t, replaced |-> "no", since |-> proc[q].since]]
  BY DEF StoreSession, Free
<1>2. /\ row'[t].st = "active" /\ row'[t].fam = t /\ row'[t].since = proc[q].since
      /\ \A u \in Tokens \ {t} : row'[u] = row[u]
  BY <1>1 DEF IInv, TypeOK
<1>3. r \in ProcType /\ r.at = "done" /\ r.tok = None
  BY <1>0 DEF ProcType
<1>4. proc' = [proc EXCEPT ![q] = r] /\ proc'[q] = r /\ \A p \in Procs \ {q} : proc'[p] = proc[p]
  BY DEF StoreSession, Go, IInv, TypeOK
<1> HIDE DEF r
<1>5. TypeOK'
  <2>1. row' \in [Tokens -> [st : {"none", "active", "revoked"}, fam : 0..MaxTokens,
                             replaced : {"no", "grace", "past"}, since : Nat]]
    BY <1>0, <1>1 DEF IInv, TypeOK, ProcType, Tokens
  <2>2. proc' \in [Procs -> ProcType] /\ \A p \in Procs : proc'[p].at \in {"replaced", "all"} => lock' = p
    BY <1>0, <1>3, <1>4 DEF IInv, TypeOK, ProcType
  <2>3. access' \subseteq [iat : Nat, since : Nat]
    BY <1>0 DEF IInv, TypeOK, ProcType
  <2>4. QED
    BY <1>0, <2>1, <2>2, <2>3 DEF IInv, TypeOK, ProcType
<1>6. ASSUME NEW p \in Procs PROVE (TokenOK(p) /\ CutOK(p) /\ SignedOK(p) /\ UpdateOK(p))'
  <2>1. CASE p = q
    BY <2>1, <1>3, <1>4 DEF TokenOK, CutOK, SignedOK, UpdateOK
  <2>2. CASE p # q
    <3>1. /\ TokenOK(p) /\ CutOK(p) /\ SignedOK(p) /\ UpdateOK(p) /\ proc'[p] = proc[p]
          /\ proc[p].tok = None \/ proc[p].tok \in Tokens
      BY <1>4, <2>2 DEF IInv, Known, TypeOK, None, Tokens
    <3>2. proc[p].tok # None => proc[p].tok # t /\ row'[proc[p].tok] = row[proc[p].tok]
      BY <3>1, <1>1, <1>2 DEF TokenOK
    <3>3. TokenOK(p)' /\ CutOK(p)' /\ SignedOK(p)'
      BY <3>1, <3>2, <1>0 DEF TokenOK, CutOK, SignedOK, Past, Active
    <3>4. UpdateOK(p)'
      BY <3>1, <1>0 DEF UpdateOK
    <3>5. QED
      BY <3>3, <3>4
  <2>3. QED
    BY <2>1, <2>2
<1>7. backs = 0 => proc[q].since = epoch
  BY <1>0 DEF SignedOK, CutOK, ProcType
<1>8. AccessOK'
  <2>1. ASSUME NEW a \in access'
        PROVE (/\ a.since <= epoch
               /\ a.since = epoch => a.iat > cutoff
               /\ backs = 0 => Past(a.iat) /\ (a.since < epoch => a.iat <= cutoff))'
    <3>1. CASE a \in access
      BY <3>1, <1>0 DEF IInv, AccessOK, Past
    <3>2. CASE a = [iat |-> proc[q].iat, since |-> proc[q].since]
      BY <3>2, <1>0, <1>7 DEF SignedOK, CutOK, Past, ProcType
    <3>3. QED
      BY <3>1, <3>2, <1>0
  <2>2. QED
    BY <2>1 DEF AccessOK
<1>9. RowsOK' /\ NoneSurvives'
  BY <1>0, <1>1, <1>2, <1>7 DEF IInv, TypeOK, RowsOK, NoneSurvives, Active
<1>10. FamilyGoneSqlite'
  BY <1>0, <1>1, <1>2 DEF IInv, TypeOK, RowsOK, FamilyGoneSqlite, FamilyGone, Active
<1>11. QED
  BY <1>5, <1>6, <1>8, <1>9, <1>10 DEF IInv, Known

LEMMA RotateCommitKeeps ==
    ASSUME IInv, NEW q \in Procs, RotateCommit(q)
    PROVE IInv'
<1> DEFINE r == [proc[q] EXCEPT !.at = "done"]
           old == proc[q].tok
<1>0. /\ proc[q].at = "replaced" /\ proc[q] \in ProcType /\ lock = q /\ lock' = None
      /\ TokenOK(q) /\ CutOK(q) /\ SignedOK(q) /\ None \notin Procs
      /\ access' = access \cup {[iat |-> proc[q].iat, since |-> proc[q].since]}
      /\ UNCHANGED <<pg, clock, backs, cutoff, snap, epoch, gone>>
      /\ cutoff \in Nat /\ epoch \in Nat /\ clock \in Nat
  BY SessionsAssumption DEF IInv, TypeOK, ProcType, RotateCommit, At, Known, None, HandOut, history
<1>1. old \in Tokens /\ row[old].st = "active" /\ proc[q].iat > cutoff /\ proc[q].since <= epoch
  BY <1>0 DEF TokenOK, CutOK, Active, ProcType, None, Tokens
<1>2. PICK t \in Tokens :
        /\ row[t].st = "none"
        /\ row' = [row EXCEPT ![old].replaced = "grace",
                     ![t] = [st |-> "active", fam |-> row[old].fam, replaced |-> "no", since |-> row[old].since]]
  BY DEF RotateCommit, Free
<1>3. /\ row'[t] = [st |-> "active", fam |-> row[old].fam, replaced |-> "no", since |-> row[old].since]
      /\ \A u \in Tokens \ {t} : row'[u].st = row[u].st /\ row'[u].fam = row[u].fam /\ row'[u].since = row[u].since
      /\ row' \in [Tokens -> [st : {"none", "active", "revoked"}, fam : 0..MaxTokens,
                              replaced : {"no", "grace", "past"}, since : Nat]]
  <2> DEFINE S == [st : {"none", "active", "revoked"}, fam : 0..MaxTokens,
                   replaced : {"no", "grace", "past"}, since : Nat]
             x == [row[old] EXCEPT !.replaced = "grace"]
             y == [st |-> "active", fam |-> row[old].fam, replaced |-> "no", since |-> row[old].since]
  <2>1. row \in [Tokens -> S] /\ t # old
    BY <1>1, <1>2 DEF IInv, TypeOK
  <2>2. row[old] \in S
    BY <1>1, <2>1
  <2>3. /\ x \in S /\ y \in S
        /\ x.st = row[old].st /\ x.fam = row[old].fam /\ x.since = row[old].since
    BY <2>2
  <2>4. row' = [row EXCEPT ![old] = x, ![t] = y]
    BY <1>2
  <2> HIDE DEF S, x, y
  <2>5. /\ row'[t] = y /\ row'[old] = x /\ row' \in [Tokens -> S]
        /\ \A u \in Tokens : u # t /\ u # old => row'[u] = row[u]
    BY <1>1, <2>1, <2>3, <2>4
  <2>6. \A u \in Tokens \ {t} : row'[u].st = row[u].st /\ row'[u].fam = row[u].fam /\ row'[u].since = row[u].since
    BY <2>3, <2>5
  <2>7. QED
    BY <2>5, <2>6 DEF S, y
<1>4. r \in ProcType /\ r.at = "done" /\ r.tok = old
  BY <1>0 DEF ProcType
<1>5. proc' = [proc EXCEPT ![q] = r] /\ proc'[q] = r /\ \A p \in Procs \ {q} : proc'[p] = proc[p]
  BY DEF RotateCommit, Go, IInv, TypeOK
<1> HIDE DEF r, old
<1>6. TypeOK'
  <2>1. proc' \in [Procs -> ProcType] /\ \A p \in Procs : proc'[p].at \in {"replaced", "all"} => lock' = p
    BY <1>0, <1>4, <1>5 DEF IInv, TypeOK, ProcType
  <2>2. access' \subseteq [iat : Nat, since : Nat]
    BY <1>0 DEF IInv, TypeOK, ProcType
  <2>3. QED
    BY <1>0, <1>3, <2>1, <2>2 DEF IInv, TypeOK, ProcType
<1>7. ASSUME NEW p \in Procs PROVE (TokenOK(p) /\ CutOK(p) /\ SignedOK(p) /\ UpdateOK(p))'
  <2>1. CASE p = q
    <3>1. row'[old].st # "none"
      BY <1>1, <1>2, <1>3
    <3>2. QED
      BY <2>1, <3>1, <1>4, <1>5 DEF TokenOK, CutOK, SignedOK, UpdateOK
  <2>2. CASE p # q
    <3>1. /\ TokenOK(p) /\ CutOK(p) /\ SignedOK(p) /\ UpdateOK(p) /\ proc'[p] = proc[p]
          /\ proc[p].tok = None \/ proc[p].tok \in Tokens
      BY <1>5, <2>2 DEF IInv, Known, TypeOK, None, Tokens
    <3>2. proc[p].tok # None => proc[p].tok # t /\ row'[proc[p].tok].st = row[proc[p].tok].st
      BY <3>1, <1>2, <1>3 DEF TokenOK
    <3>3. TokenOK(p)' /\ CutOK(p)' /\ SignedOK(p)'
      BY <3>1, <3>2, <1>0 DEF TokenOK, CutOK, SignedOK, Past, Active
    <3>4. UpdateOK(p)'
      BY <3>1, <2>2, <1>0 DEF UpdateOK
    <3>5. QED
      BY <3>3, <3>4
  <2>3. QED
    BY <2>1, <2>2
<1>8. AccessOK'
  <2>1. ASSUME NEW a \in access'
        PROVE (/\ a.since <= epoch
               /\ a.since = epoch => a.iat > cutoff
               /\ backs = 0 => Past(a.iat) /\ (a.since < epoch => a.iat <= cutoff))'
    <3>1. CASE a \in access
      BY <3>1, <1>0 DEF IInv, AccessOK, Past
    <3>2. CASE a = [iat |-> proc[q].iat, since |-> proc[q].since]
      BY <3>2, <1>0, <1>1 DEF SignedOK, Past, ProcType
    <3>3. QED
      BY <3>1, <3>2, <1>0
  <2>2. QED
    BY <2>1 DEF AccessOK
<1>9. RowsOK'
  <2>1. row[old].fam \in Tokens /\ row[row[old].fam].st # "none"
    BY <1>1 DEF IInv, RowsOK
  <2>2. \A u \in Tokens : row[u].st # "none" => row'[u].st # "none" /\ row'[u].fam = row[u].fam
    BY <1>2, <1>3
  <2>3. \A u \in Tokens : row'[u].st # "none" => row'[u].fam \in Tokens /\ row[row'[u].fam].st # "none"
    BY <1>3, <2>1 DEF IInv, RowsOK
  <2>4. /\ gone \subseteq Tokens /\ \A f \in gone : row[f].st # "none"
        /\ snap \in [Procs -> SUBSET Tokens] /\ \A p \in Procs : \A u \in snap[p] : row[u].st # "none"
    BY DEF IInv, TypeOK, RowsOK
  <2>5. QED
    BY <1>0, <2>2, <2>3, <2>4 DEF RowsOK
<1>10. NoneSurvives' /\ FamilyGoneSqlite'
  BY <1>0, <1>1, <1>2, <1>3 DEF IInv, TypeOK, NoneSurvives, FamilyGoneSqlite, FamilyGone, Active
<1>11. QED
  BY <1>6, <1>7, <1>8, <1>9, <1>10 DEF IInv, Known

LEMMA FamilyEndsKeeps ==
    ASSUME IInv, NEW q \in Procs, FamilyEnds(q)
    PROVE IInv'
<1> DEFINE r == [proc[q] EXCEPT !.at = "done"]
           f == row[proc[q].tok].fam
<1>0. /\ proc[q].at = "updating" /\ proc[q] \in ProcType /\ TokenOK(q) /\ UpdateOK(q) /\ None \notin Procs
      /\ \A t \in snap[q] : ~Locked(t)
      /\ row' = [t \in Tokens |-> IF t \in snap[q] THEN [row[t] EXCEPT !.st = "revoked"] ELSE row[t]]
      /\ snap' = [snap EXCEPT ![q] = {}]
      /\ lock' = IF pg THEN lock ELSE None
      /\ gone' = gone \cup {f}
      /\ UNCHANGED <<pg, clock, backs, cutoff, access, epoch>>
  BY SessionsAssumption DEF IInv, TypeOK, ProcType, FamilyEnds, At, Known, None
<1>1. proc[q].tok \in Tokens /\ row[proc[q].tok].st # "none" /\ f \in Tokens /\ row[f].st # "none"
  BY <1>0 DEF TokenOK, IInv, RowsOK, ProcType, None, Tokens
<1>2. \A t \in Tokens :
         /\ row'[t].fam = row[t].fam /\ row'[t].since = row[t].since
         /\ row'[t].st = IF t \in snap[q] THEN "revoked" ELSE row[t].st
  BY <1>0 DEF IInv, TypeOK
<1>3. r \in ProcType /\ r.at = "done" /\ r.tok = proc[q].tok
  BY <1>0 DEF ProcType
<1>4. proc' = [proc EXCEPT ![q] = r] /\ proc'[q] = r /\ \A p \in Procs \ {q} : proc'[p] = proc[p]
  BY DEF FamilyEnds, Go, IInv, TypeOK
<1> HIDE DEF r, f
<1>5. TypeOK'
  <2>1. row' \in [Tokens -> [st : {"none", "active", "revoked"}, fam : 0..MaxTokens,
                             replaced : {"no", "grace", "past"}, since : Nat]]
    BY <1>0 DEF IInv, TypeOK
  <2>2. proc' \in [Procs -> ProcType] /\ lock' \in Procs \cup {None}
    BY <1>0, <1>3, <1>4 DEF IInv, TypeOK, ProcType
  <2>3. \A p \in Procs : proc'[p].at \in {"replaced", "all"} => lock' = p
    BY <1>0, <1>3, <1>4 DEF IInv, TypeOK, UpdateOK
  <2>4. snap' \in [Procs -> SUBSET Tokens] /\ gone' \subseteq Tokens
    BY <1>0, <1>1 DEF IInv, TypeOK
  <2>5. QED
    BY <1>0, <2>1, <2>2, <2>3, <2>4 DEF IInv, TypeOK, ProcType
<1>6. ASSUME NEW p \in Procs PROVE (TokenOK(p) /\ CutOK(p) /\ SignedOK(p) /\ UpdateOK(p))'
  <2>1. CASE p = q
    <3>1. row'[proc[q].tok].st # "none"
      BY <1>1, <1>2
    <3>2. QED
      BY <2>1, <3>1, <1>3, <1>4 DEF TokenOK, CutOK, SignedOK, UpdateOK
  <2>2. CASE p # q
    <3>1. /\ TokenOK(p) /\ CutOK(p) /\ SignedOK(p) /\ UpdateOK(p) /\ proc'[p] = proc[p]
          /\ proc[p].tok = None \/ proc[p].tok \in Tokens
      BY <1>4, <2>2 DEF IInv, Known, TypeOK, None, Tokens
    <3>2. proc[p].at = "replaced" => proc[p].tok \notin snap[q]
      BY <1>0 DEF Locked, At
    <3>3. TokenOK(p)'
      BY <3>1, <3>2, <1>2 DEF TokenOK, Active
    <3>4. CutOK(p)' /\ SignedOK(p)'
      BY <3>1, <1>2, <1>0 DEF CutOK, SignedOK, Past, Active
    <3>5. UpdateOK(p)'
      BY <3>1, <2>2, <1>0 DEF UpdateOK
    <3>6. QED
      BY <3>3, <3>4, <3>5
  <2>3. QED
    BY <2>1, <2>2
<1>7. AccessOK'
  BY <1>0 DEF IInv, AccessOK, Past
<1>8. RowsOK'
  <2>1. \A u \in Tokens : row[u].st # "none" => row'[u].st # "none"
    BY <1>2
  <2>2. \A t \in Tokens : row'[t].st # "none" => row'[t].fam \in Tokens /\ row'[row'[t].fam].st # "none"
    BY <1>2, <2>1 DEF IInv, RowsOK
  <2>3. /\ gone \subseteq Tokens /\ \A g \in gone : row[g].st # "none"
        /\ snap \in [Procs -> SUBSET Tokens] /\ \A p \in Procs : \A u \in snap[p] : row[u].st # "none"
    BY DEF IInv, TypeOK, RowsOK
  <2>4. QED
    BY <1>0, <1>1, <2>1, <2>2, <2>3 DEF RowsOK
<1>9. NoneSurvives'
  BY <1>0, <1>2 DEF IInv, NoneSurvives, Active
<1>10. FamilyGoneSqlite'
  BY <1>0, <1>2 DEF IInv, FamilyGoneSqlite, FamilyGone, Active, UpdateOK, f
<1>11. QED
  BY <1>5, <1>6, <1>7, <1>8, <1>9, <1>10 DEF IInv, Known

LEMMA RevokeAllCommitsKeeps ==
    ASSUME IInv, NEW q \in Procs, RevokeAllCommits(q)
    PROVE IInv'
<1> DEFINE r == [proc[q] EXCEPT !.at = "done"]
<1>0. /\ proc[q].at = "all" /\ proc[q] \in ProcType /\ lock = q /\ lock' = None /\ TokenOK(q)
      /\ None \notin Procs
      /\ row' = [t \in Tokens |-> IF Active(t) THEN [row[t] EXCEPT !.st = "revoked"] ELSE row[t]]
      /\ epoch' = epoch + 1 /\ cutoff' = advanced
      /\ UNCHANGED <<pg, clock, backs, snap, access, gone>>
      /\ cutoff \in Nat /\ epoch \in Nat /\ clock \in Nat
  BY SessionsAssumption DEF IInv, TypeOK, ProcType, RevokeAllCommits, At, Known, None
<1>1. cutoff' \in Nat /\ cutoff' > cutoff /\ cutoff' >= clock
  BY <1>0 DEF advanced
<1>2. \A t \in Tokens : row'[t].fam = row[t].fam /\ row'[t].st # "active" /\ (row'[t].st = "none" <=> row[t].st = "none")
  BY <1>0 DEF IInv, TypeOK, Active
<1>3. r \in ProcType /\ r.at = "done" /\ r.tok = proc[q].tok
  BY <1>0 DEF ProcType
<1>4. proc' = [proc EXCEPT ![q] = r] /\ proc'[q] = r /\ \A p \in Procs \ {q} : proc'[p] = proc[p]
  BY DEF RevokeAllCommits, Go, IInv, TypeOK
<1> HIDE DEF r
<1>5. TypeOK'
  <2>1. row' \in [Tokens -> [st : {"none", "active", "revoked"}, fam : 0..MaxTokens,
                             replaced : {"no", "grace", "past"}, since : Nat]]
    <3> DEFINE S == [st : {"none", "active", "revoked"}, fam : 0..MaxTokens,
                     replaced : {"no", "grace", "past"}, since : Nat]
    <3>1. row \in [Tokens -> S]
      BY DEF IInv, TypeOK
    <3>2. ASSUME NEW t \in Tokens PROVE row[t] \in S /\ [row[t] EXCEPT !.st = "revoked"] \in S
      <4>1. row[t] \in S
        BY <3>1
      <4>2. QED
        BY <4>1
    <3> HIDE DEF S
    <3>3. row' \in [Tokens -> S]
      BY <1>0, <3>2
    <3>4. QED
      BY <3>3 DEF S
  <2>2. proc' \in [Procs -> ProcType] /\ \A p \in Procs : proc'[p].at \in {"replaced", "all"} => lock' = p
    BY <1>0, <1>3, <1>4 DEF IInv, TypeOK, ProcType
  <2>3. QED
    BY <1>0, <1>1, <2>1, <2>2 DEF IInv, TypeOK, ProcType
<1>6. ASSUME NEW p \in Procs PROVE (TokenOK(p) /\ CutOK(p) /\ SignedOK(p) /\ UpdateOK(p))'
  <2>1. CASE p = q
    <3>1. proc'[p].at = "done" /\ proc'[p].tok = proc[q].tok
      BY <1>3, <1>4, <2>1
    <3>2. (CutOK(p) /\ SignedOK(p) /\ UpdateOK(p))'
      BY <3>1 DEF CutOK, SignedOK, UpdateOK
    <3>3. proc[q].tok # None => proc[q].tok \in Tokens /\ row[proc[q].tok].st # "none"
      BY <1>0 DEF TokenOK, ProcType, None, Tokens
    <3>4. TokenOK(p)'
      BY <1>2, <3>1, <3>3 DEF TokenOK
    <3>5. QED
      BY <3>2, <3>4
  <2>2. CASE p # q
    <3>1. /\ TokenOK(p) /\ CutOK(p) /\ SignedOK(p) /\ UpdateOK(p) /\ proc'[p] = proc[p]
          /\ proc[p] \in ProcType /\ proc[p].at # "replaced"
          /\ proc[p].tok = None \/ proc[p].tok \in Tokens
      BY <1>0, <1>4, <2>2 DEF IInv, Known, TypeOK, ProcType, None, Tokens
    <3>2. TokenOK(p)'
      BY <3>1, <1>2 DEF TokenOK
    <3>3. CutOK(p)'
      BY <3>1, <1>0, <1>1, <1>2 DEF CutOK, Active, ProcType
    <3>4. SignedOK(p)'
      BY <3>1, <1>0, <1>1 DEF SignedOK, Past, ProcType
    <3>5. UpdateOK(p)'
      BY <3>1, <2>2, <1>0 DEF UpdateOK
    <3>6. QED
      BY <3>2, <3>3, <3>4, <3>5
  <2>3. QED
    BY <2>1, <2>2
<1>7. AccessOK'
  <2>1. ASSUME NEW a \in access
        PROVE (/\ a.since <= epoch
               /\ a.since = epoch => a.iat > cutoff
               /\ backs = 0 => Past(a.iat) /\ (a.since < epoch => a.iat <= cutoff))'
    BY <1>0, <1>1 DEF IInv, TypeOK, AccessOK, Past
  <2>2. QED
    BY <2>1, <1>0 DEF AccessOK
<1>8. RowsOK' /\ NoneSurvives' /\ FamilyGoneSqlite'
  BY <1>0, <1>2 DEF IInv, TypeOK, RowsOK, NoneSurvives, FamilyGoneSqlite, FamilyGone, Active
<1>9. QED
  BY <1>5, <1>6, <1>7, <1>8 DEF IInv, Known

-----------------------------------------------------------------------------
(* The invariant holds at first and every step keeps it. *)
LEMMA InitIInv == Init => IInv
<1> SUFFICES ASSUME Init PROVE IInv
  OBVIOUS
<1>1. NoProc \in ProcType /\ NoProc.at = "idle" /\ NoProc.tok = None
  BY SessionsAssumption DEF NoProc, ProcType, None
<1>2. /\ NoRow \in [st : {"none", "active", "revoked"}, fam : 0..MaxTokens,
                    replaced : {"no", "grace", "past"}, since : Nat]
      /\ NoRow.st = "none" /\ NoRow.fam = None
  BY SessionsAssumption DEF NoRow, None
<1>3. TypeOK
  BY <1>1, <1>2, SessionsAssumption DEF Init, TypeOK, ProcType
<1>4. Known
  BY <1>1 DEF Init, Known, TokenOK, CutOK, SignedOK, UpdateOK
<1>5. AccessOK /\ RowsOK /\ NoneSurvives /\ FamilyGoneSqlite
  BY <1>2 DEF Init, AccessOK, RowsOK, NoneSurvives, FamilyGoneSqlite, FamilyGone, Active
<1>6. QED
  BY <1>3, <1>4, <1>5 DEF IInv

LEMMA NextIInv == IInv /\ [Next]_vars => IInv'
<1> SUFFICES ASSUME IInv, [Next]_vars PROVE IInv'
  OBVIOUS
<1>1. CASE UNCHANGED vars
  BY <1>1 DEF vars, history, IInv, TypeOK, Known, TokenOK, CutOK, SignedOK, UpdateOK, AccessOK, RowsOK,
              NoneSurvives, FamilyGoneSqlite, FamilyGone, Past, Active
<1>2. CASE Tick \/ SetBack
  BY <1>2, ClockKeeps
<1>3. CASE \E t \in Tokens : GraceEnds(t)
  BY <1>3, GraceKeeps
<1>4. ASSUME NEW q \in Procs,
             \/ LoginRead(q) \/ RefreshRead(q) \/ Mint(q)
             \/ StoreSession(q) \/ StoreRefused(q)
             \/ RotateReplace(q) \/ RotateCommit(q)
             \/ FamilyBegins(q) \/ FamilyEnds(q)
             \/ RevokeAllLocks(q) \/ RevokeAllCommits(q)
             \/ Fails(q)
             \/ \E t \in Tokens : RefreshVerify(q, t) \/ EndFamily(q, t)
      PROVE IInv'
  BY <1>4, LoginReadKeeps, RefreshReadKeeps, MintKeeps, StoreSessionKeeps, StoreRefusedKeeps,
     RotateReplaceKeeps, RotateCommitKeeps, FamilyBeginsKeeps, FamilyEndsKeeps, RevokeAllLocksKeeps,
     RevokeAllCommitsKeeps, FailsKeeps, RefreshVerifyKeeps
<1>5. QED
  BY <1>1, <1>2, <1>3, <1>4 DEF Next

LEMMA SpecIInv == Spec => []IInv
  BY InitIInv, NextIInv, PTL DEF Spec

(* Requests, rows and the lock have the values that the code gives them:   *)
(* one request at a time is between the UPDATE of the users row and the    *)
(* end of its transaction.                                                 *)
THEOREM SessionsTyped == Spec => []TypeOK
<1>1. IInv => TypeOK
  BY DEF IInv
<1>2. QED
  BY <1>1, SpecIInv, PTL

(* No refresh token of an earlier epoch is usable, while the clock was not *)
(* set back: revoke_all_user_sessions leaves nothing that a refresh or a   *)
(* login under way could bring back.                                       *)
THEOREM NoneSurvivesHolds == Spec => []NoneSurvives
<1>1. IInv => NoneSurvives
  BY DEF IInv
<1>2. QED
  BY <1>1, SpecIInv, PTL

(* require_current_session accepts every access token signed since the     *)
(* sessions were last ended and, on a clock that was not set back, only    *)
(* those.                                                                  *)
THEOREM AccessExactHolds == Spec => []AccessExact
<1>1. IInv => AccessExact
  <2> SUFFICES ASSUME IInv, NEW a \in access
               PROVE /\ a.since = epoch => require_current_session(a)
                     /\ backs = 0 /\ require_current_session(a) => a.since = epoch
    BY DEF AccessExact
  <2>1. a.since \in Nat /\ a.iat \in Nat /\ epoch \in Nat /\ cutoff \in Nat
    BY DEF IInv, TypeOK
  <2>2. QED
    BY <2>1 DEF IInv, AccessOK, require_current_session
<1>2. QED
  BY <1>1, SpecIInv, PTL

(* StoreSession refuses a login only when all sessions were ended after    *)
(* the login had read the cutoff.                                          *)
THEOREM FreshLoginWorksHolds == Spec => []FreshLoginWorks
<1>1. IInv => FreshLoginWorks
  BY DEF IInv, Known, CutOK, FreshLoginWorks, At
<1>2. QED
  BY <1>1, SpecIInv, PTL

(* With one writer at a time, revoke_token_family leaves no usable token   *)
(* of the family, whatever rotations are under way.                        *)
THEOREM FamilyGoneSqliteHolds == Spec => []FamilyGoneSqlite
<1>1. IInv => FamilyGoneSqlite
  BY DEF IInv
<1>2. QED
  BY <1>1, SpecIInv, PTL

(* Ending all sessions moves sessions_valid_from strictly forward, and     *)
(* nothing else moves it.                                                  *)
THEOREM CutoffAdvancesHolds == Spec => CutoffAdvances
<1>1. IInv /\ [Next]_vars => [epoch' # epoch \/ cutoff' # cutoff => cutoff' > cutoff]_vars
  <2> SUFFICES ASSUME IInv, Next, epoch' # epoch \/ cutoff' # cutoff PROVE cutoff' > cutoff
    BY DEF vars, history
  <2>1. PICK q \in Procs : RevokeAllCommits(q)
    BY DEF Next, Tick, SetBack, GraceEnds, LoginRead, RefreshRead, Mint, StoreSession, StoreRefused,
           RotateReplace, RotateCommit, FamilyBegins, FamilyEnds, RevokeAllLocks, Fails, RefreshVerify,
           EndFamily, history
  <2>2. cutoff \in Nat /\ clock \in Nat
    BY DEF IInv, TypeOK
  <2>3. QED
    BY <2>1, <2>2 DEF RevokeAllCommits, advanced
<1>2. QED
  BY <1>1, SpecIInv, PTL DEF Spec, CutoffAdvances
=============================================================================
