----------------------- MODULE ConversationReadsProofs ----------------------
(***************************************************************************)
(* Proofs about durable reads.  A page stands for a range of the journal;  *)
(* the invariant says that every page, wherever it is, holds exactly the   *)
(* events of its range (PagesExact, from ReadPageExact about the store's   *)
(* query), that a first answer continues what the client holds             *)
(* (AskedFromHeld) and that of a subscription there is one page or one     *)
(* acknowledgement under way (InOnePlace).                                 *)
(***************************************************************************)
EXTENDS ConversationReads, FiniteSetTheorems, WellFoundedInduction, TLAPS

(***************************************************************************)
(* The inductive invariant.  Where a part of it speaks of the server, it   *)
(* takes the newest request n, the subscription s, the response h that the *)
(* send task holds and the queue q of commands as parameters: a command    *)
(* changes the subscription before it reads, and the invariant holds of    *)
(* the subscription in between as well.                                    *)
(***************************************************************************)
PageKinds == {"snapshot", "replay"}
Responses == [kind: PageKinds \cup {"reset", "error"}, conn: Nat, req: Nat, page: Pages]
Subscribes == [type: {"subscribe"}, req: Nat, after: Nat \cup {None}, live: BOOLEAN]
Acks == [type: {"ack"}, conn: Nat, req: Nat, through: Nat]
Unsubscribes == [type: {"unsubscribe"}, req: Nat]
Commands == Subscribes \cup Acks \cup Unsubscribes
Subs == [req: Nat, cursor: Nat \cup {None}, snapshot_through: Nat \cup {None},
         pending: Nat \cup {None}, live: BOOLEAN]
Clients == [conn: Nat, req: Nat, cursor: Nat, pending: Tokens \cup {None}, attempt: Nat,
            last: Nat, asked: Nat, live: BOOLEAN, snapshot: BOOLEAN]

(* The types of the state. *)
TypeOK ==
    /\ journal \in Seq(Records) /\ pruned \in Nat /\ access \in BOOLEAN /\ up \in BOOLEAN
    /\ conn \in Nat /\ newest \in Nat /\ sub \in Subs /\ captured \in Responses \cup {None}
    /\ toServer \in Seq(Commands) /\ toClient \in Seq(Responses)
    /\ client \in Clients /\ applying \subseteq Tokens /\ projection \subseteq Nat
    /\ faults \in Nat

(* A page holds the events of the range it stands for, neither fewer nor   *)
(* others, and a snapshot starts at the beginning.                         *)
Exact(p) ==
    /\ p.from <= p.through /\ p.through <= Len(journal)
    /\ p.events = {i \in p.from + 1 .. p.through : journal[i] = "shown"}

ExactResponse(m) == Exact(m.page) /\ (m.kind = "snapshot" => m.page.from = 0)

PagesExact ==
    /\ captured # None => ExactResponse(captured)
    /\ \A i \in 1 .. Len(toClient) : ExactResponse(toClient[i])
    /\ \A k \in applying : Exact(k.page)
    /\ client.pending # None => Exact(client.pending.page)
    /\ projection \subseteq 1 .. Len(journal)

(* No cursor is past the journal, and a snapshot stays under its watermark. *)
SubInJournal(s) ==
    /\ s.cursor # None => s.cursor <= Len(journal)
    /\ s.snapshot_through # None =>
          /\ s.snapshot_through <= Len(journal)
          /\ s.cursor # None => s.cursor <= s.snapshot_through
          /\ s.pending # None => s.pending <= s.snapshot_through
    /\ s.pending # None => s.pending <= Len(journal)

CursorsInJournal(s, q) ==
    /\ client.cursor <= Len(journal)
    /\ SubInJournal(s)
    /\ \A i \in 1 .. Len(q) : q[i].type = "subscribe" =>
          (q[i].after # None => q[i].after <= Len(journal))

(* Requests are numbered in the order they are made; a request still on    *)
(* its way is newer than all that the server or the cursor know of.        *)
Answers(m, n, s) == /\ 0 < m.req /\ m.req <= n /\ m.conn = conn
                    /\ m.kind = "reset" => s.req # m.req

Numbered(n, s, h, q) ==
    /\ client.req <= client.last /\ client.asked \in {0, client.last} /\ n <= client.last
    /\ s # NoSub => s.req = n /\ n # 0
    /\ h # None => Answers(h, n, s)
    /\ \A i \in 1 .. Len(toClient) : Answers(toClient[i], n, s)
    /\ \A i \in 1 .. Len(q) :
          /\ q[i].type = "subscribe" =>
                n < q[i].req /\ client.req < q[i].req /\ q[i].req <= client.last
          /\ q[i].type = "ack" => q[i].req <= client.req
    /\ \A i, j \in 1 .. Len(q) :
          i < j /\ q[i].type = "subscribe" /\ q[j].type = "subscribe" => q[i].req < q[j].req
    /\ client.asked # 0 /\ client.req = client.asked => client.conn = conn

(* Nothing is under way between server and client while the socket is down. *)
Down ==
    ~up => /\ client.asked = 0 /\ sub = NoSub /\ captured = None
           /\ toServer = <<>> /\ toClient = <<>>

(* Until the first answer to its newest request the client holds           *)
(* everything up to the cursor that it sent with it.                       *)
FromHeld(m) == m.req = client.asked /\ m.kind = "replay" => m.page.from <= client.cursor

AskedFromHeld(s, h, q) ==
    client.asked # 0 /\ client.req # client.asked =>
        /\ \A i \in 1 .. Len(q) : q[i].type = "subscribe" /\ q[i].req = client.asked =>
              (q[i].after # None => q[i].after <= client.cursor)
        /\ s.req = client.asked /\ s.cursor # None => s.cursor <= client.cursor
        /\ h # None => FromHeld(h)
        /\ \A i \in 1 .. Len(toClient) : FromHeld(toClient[i])

(* What the server takes from an acknowledgement has been applied, and a   *)
(* page of the subscription follows the server's cursor.                   *)
PageOf(m, s) == m.kind \in PageKinds /\ m.req = s.req
AckOf(c, s) == c.type = "ack" /\ c.req = s.req

Follows(s, h, q) ==
    s # NoSub =>
        /\ s.req = client.req =>
              /\ s.cursor # None => s.cursor <= client.cursor
              /\ \A i \in 1 .. Len(q) : AckOf(q[i], s) => q[i].through <= client.cursor
        /\ h # None /\ PageOf(h, s) /\ s.cursor # None => s.cursor <= h.page.from
        /\ \A i \in 1 .. Len(toClient) :
              PageOf(toClient[i], s) /\ s.cursor # None => s.cursor <= toClient[i].page.from

(* The page of a subscription is in one place: held by the send task, on   *)
(* its way, at the client, or its acknowledgement is on its way back.      *)
Held(s, h) == h # None /\ PageOf(h, s)
Sent(i, s) == i \in 1 .. Len(toClient) /\ PageOf(toClient[i], s)
Staged(s) == client.pending # None /\ client.req = s.req
Acked(i, s, q) == i \in 1 .. Len(q) /\ AckOf(q[i], s)

InOnePlace(s, h, q) ==
    s # NoSub =>
        /\ s.pending = None =>
              ~Held(s, h) /\ ~Staged(s) /\ \A i \in Nat : ~Sent(i, s) /\ ~Acked(i, s, q)
        /\ Held(s, h) => ~Staged(s) /\ \A i \in Nat : ~Sent(i, s) /\ ~Acked(i, s, q)
        /\ Staged(s) => \A i \in Nat : ~Sent(i, s) /\ ~Acked(i, s, q)
        /\ \A i, j \in Nat : Sent(i, s) => ~Acked(j, s, q)
        /\ \A i, j \in Nat : Sent(i, s) /\ Sent(j, s) => i = j
        /\ \A i, j \in Nat : Acked(i, s, q) /\ Acked(j, s, q) => i = j

(* What of the invariant depends on the subscription. *)
ServerInv(n, s, h, q) ==
    /\ CursorsInJournal(s, q) /\ Numbered(n, s, h, q) /\ AskedFromHeld(s, h, q)
    /\ Follows(s, h, q) /\ InOnePlace(s, h, q)

RInv ==
    /\ TypeOK /\ PagesExact /\ Down /\ CopyExact
    /\ ServerInv(newest, sub, captured, toServer)

(***************************************************************************)
(* What a page of the store holds.                                         *)
(***************************************************************************)
(* Every set of numbers that is not empty has a least element. *)
LEMMA LeastNumber ==
    ASSUME NEW T \in SUBSET Nat, T # {}
    PROVE  \E x \in T : \A y \in T : x <= y
<1> DEFINE R == OpToRel(<, Nat)
<1>1. \E x \in T : \A y \in T : ~(<<y, x>> \in R)
  <2>1. IsWellFoundedOn(R, Nat) BY NatLessThanWellFounded
  <2> HIDE DEF R
  <2> QED BY <2>1, WFMin
<1>2. \A x, y \in Nat : y < x => <<y, x>> \in R BY DEF OpToRel
<1> HIDE DEF R
<1>3. PICK x \in T : \A y \in T : ~(<<y, x>> \in R) BY <1>1
<1>4. ASSUME NEW y \in T PROVE x <= y
  <2>1. x \in Nat /\ y \in Nat OBVIOUS
  <2>2. ~(y < x) BY <1>2, <1>3, <2>1
  <2> QED BY <2>1, <2>2
<1> QED BY <1>3, <1>4

(* The last row of a page exists, because the page is bounded. *)
LEMMA LastRow ==
    ASSUME NEW high \in Nat, NEW S, S \subseteq 1 .. high, S # {}
    PROVE  Last(S) \in S /\ \A j \in S : j <= Last(S)
<1> DEFINE T == {n \in Nat : high - n \in S}
<1>1. T # {}
  <2>1. PICK i \in S : TRUE OBVIOUS
  <2>2. i \in 1 .. high BY <2>1
  <2>3. high - i \in Nat /\ high - (high - i) = i BY <2>2
  <2> QED BY <2>1, <2>3
<1>2. PICK n \in T : \A y \in T : n <= y BY <1>1, LeastNumber
<1>3. high - n \in S BY <1>2
<1>4. \A j \in S : j <= high - n
  <2> TAKE j \in S
  <2>1. j \in 1 .. high OBVIOUS
  <2>2. high - j \in Nat /\ high - (high - j) = j BY <2>1
  <2>3. high - j \in T BY <2>2
  <2>4. n <= high - j BY <1>2, <2>3
  <2> QED BY <2>1, <2>4, <1>2
<1> HIDE DEF T
<1>5. \E i \in S : \A j \in S : j <= i BY <1>3, <1>4
<1> QED BY <1>5 DEF Last

LEMMA RowsFinite ==
    ASSUME NEW a \in Int, NEW b \in Int, NEW S, S \subseteq a .. b
    PROVE  IsFiniteSet(S) /\ Cardinality(S) \in Nat
BY FS_Interval, FS_Subset, FS_CardinalityType

(* The rows that fit on a page are the first ones. *)
LEMMA FirstRowsFirst ==
    ASSUME NEW high \in Nat, NEW S, S \subseteq 1 .. high,
           NEW i \in FirstRows(S), NEW j \in S, j <= i
    PROVE  j \in FirstRows(S)
<1> DEFINE upto(k) == {l \in S : l <= k}
<1>1. i \in S /\ Cardinality(upto(i)) <= Limit BY DEF FirstRows
<1>2. i \in 1 .. high /\ j \in 1 .. high BY <1>1
<1>3. upto(j) \subseteq upto(i)
  <2> SUFFICES ASSUME NEW l \in S, l <= j PROVE l <= i OBVIOUS
  <2>1. l \in 1 .. high OBVIOUS
  <2> QED BY <2>1, <1>2
<1>4. upto(i) \subseteq 1 .. high /\ upto(j) \subseteq 1 .. high OBVIOUS
<1>5. IsFiniteSet(upto(i)) /\ Cardinality(upto(i)) \in Nat /\ Cardinality(upto(j)) \in Nat
  <2> HIDE DEF upto
  <2>1. 1 \in Int /\ high \in Int OBVIOUS
  <2> QED BY <1>4, <2>1, RowsFinite
<1>6. Cardinality(upto(j)) <= Cardinality(upto(i))
  <2> HIDE DEF upto
  <2> QED BY <1>3, <1>5, FS_Subset
<1>7. Cardinality(upto(j)) <= Limit BY <1>1, <1>5, <1>6, ReadAssumption
<1> QED BY <1>7 DEF FirstRows

(* A page with room left has all the rows there are. *)
LEMMA ShortPageIsAll ==
    ASSUME NEW high \in Nat, NEW S, S \subseteq 1 .. high,
           Cardinality(FirstRows(S)) < Limit
    PROVE  FirstRows(S) = S
<1> DEFINE F == FirstRows(S)
           upto(k) == {l \in S : l <= k}
<1>1. F \subseteq S BY DEF FirstRows
<1> SUFFICES ASSUME S \ F # {} PROVE FALSE BY <1>1
<1>2. PICK r \in S \ F : \A y \in S \ F : r <= y
  <2>1. S \ F \in SUBSET Nat
    <3> SUFFICES ASSUME NEW x \in S PROVE x \in Nat OBVIOUS
    <3>1. x \in 1 .. high OBVIOUS
    <3> QED BY <3>1
  <2> HIDE DEF F
  <2> QED BY <2>1, LeastNumber
<1>3. upto(r) \subseteq F \cup {r}
  <2> SUFFICES ASSUME NEW l \in S, l <= r, l # r PROVE l \in F OBVIOUS
  <2>1. l \in 1 .. high /\ r \in 1 .. high OBVIOUS
  <2>2. ~(r <= l) BY <2>1
  <2> HIDE DEF F
  <2> QED BY <2>2, <1>2
<1>4. F \subseteq 1 .. high BY <1>1
<1>5. IsFiniteSet(F) /\ Cardinality(F) \in Nat BY <1>4, RowsFinite
<1>6. IsFiniteSet(F \cup {r}) /\ Cardinality(F \cup {r}) = Cardinality(F) + 1
  <2>1. r \notin F BY <1>2
  <2> HIDE DEF F
  <2> QED BY <1>5, <2>1, FS_AddElement
<1>7. Cardinality(upto(r)) \in Nat
  <2>1. upto(r) \subseteq 1 .. high OBVIOUS
  <2> QED BY <2>1, RowsFinite
<1>8. Cardinality(upto(r)) <= Cardinality(F \cup {r})
  <2> HIDE DEF upto, F
  <2> QED BY <1>3, <1>6, FS_Subset
<1>9. Cardinality(upto(r)) <= Limit
  <2>1. Cardinality(F) < Limit OBVIOUS
  <2> HIDE DEF upto, F
  <2> QED BY <2>1, <1>5, <1>6, <1>7, <1>8, ReadAssumption
<1>10. r \in F BY <1>9, <1>2 DEF FirstRows
<1> QED BY <1>10, <1>2

(* What the byte limit leaves of a page still is the first rows. *)
LEMMA PrefixFirst ==
    ASSUME NEW high \in Nat, NEW S, S \subseteq 1 .. high, NEW rest \in Prefixes(FirstRows(S))
    PROVE  rest \subseteq S /\ \A i \in rest, j \in S : j <= i => j \in rest
<1> DEFINE F == FirstRows(S)
<1>1. F \subseteq S BY DEF FirstRows
<1>2. \A i \in F, j \in S : j <= i => j \in F BY FirstRowsFirst
<1> HIDE DEF F
<1>3. CASE rest = F BY <1>1, <1>2, <1>3
<1>4. CASE \E i \in F : rest = {j \in F : j < i}
  <2>1. PICK n \in F : rest = {j \in F : j < n} BY <1>4
  <2>2. ASSUME NEW i \in rest, NEW j \in S, j <= i PROVE j \in rest
    <3>1. i \in F /\ i < n BY <2>1
    <3>2. j \in F BY <3>1, <1>2, <2>2
    <3>3. i \in 1 .. high /\ j \in 1 .. high /\ n \in 1 .. high BY <3>1, <1>1
    <3>4. j < n BY <3>1, <3>3, <2>2
    <3> QED BY <3>2, <3>4, <2>1
  <2> QED BY <2>1, <2>2, <1>1
<1>5. rest = F \/ \E i \in F : rest = {j \in F : j < i} BY DEF Prefixes, F
<1> QED BY <1>3, <1>4, <1>5

(* A page that the store reads is exact if its cursor is not below what    *)
(* was pruned, or the projection, which is not pruned, is read.            *)
LEMMA ReadPageExact ==
    ASSUME journal \in Seq(Records), pruned \in Nat,
           NEW after \in Nat, NEW high \in Nat, after <= high, high <= Len(journal),
           NEW snapshot \in BOOLEAN, snapshot \/ pruned <= after \/ high <= after,
           NEW p \in read_page(after, high, snapshot)
    PROVE  /\ p \in Pages /\ Exact(p) /\ p.from = after /\ p.through <= high
           /\ p.through # None
<1> DEFINE rows == {i \in after + 1 .. high :
                       IF snapshot THEN journal[i] # "restricted" ELSE i > pruned}
           found == FirstRows(rows)
           shown(S) == {i \in S : journal[i] = "shown"}
<1>0. Len(journal) \in Nat OBVIOUS
<1>1. rows \subseteq after + 1 .. high /\ rows \subseteq 1 .. high OBVIOUS
<1>2. \A i \in after + 1 .. high : journal[i] = "shown" => i \in rows
  <2>1. CASE snapshot BY <2>1
  <2>2. CASE ~snapshot BY <2>2
  <2> QED BY <2>1, <2>2
<1> DEFINE through(rest) ==
        IF snapshot /\ rest = found /\ Cardinality(found) < Limit THEN high
        ELSE IF rest = {} THEN after ELSE Last(rest)
<1>3. PICK rest \in Prefixes(found) : p = Page(after, through(rest), high, shown(rest))
  BY DEF read_page
<1>4. rest \subseteq rows /\ \A i \in rest, j \in rows : j <= i => j \in rest
  <2> HIDE DEF rows
  <2> QED BY <1>1, <1>3, PrefixFirst
<1>5. /\ through(rest) \in after .. high
      /\ \A i \in after + 1 .. high : journal[i] = "shown" => (i \in rest <=> i <= through(rest))
  <2>1. CASE snapshot /\ rest = found /\ Cardinality(found) < Limit
    <3>1. through(rest) = high BY <2>1
    <3>2. rest = rows
      <4> HIDE DEF rows
      <4> QED BY <2>1, <1>1, ShortPageIsAll
    <3> HIDE DEF through, found, rows
    <3> QED BY <3>1, <3>2, <1>2
  <2>2. CASE ~(snapshot /\ rest = found /\ Cardinality(found) < Limit) /\ rest = {}
    <3>1. through(rest) = after BY <2>2
    <3> HIDE DEF through, found, rows
    <3> QED BY <3>1, <2>2
  <2>3. CASE ~(snapshot /\ rest = found /\ Cardinality(found) < Limit) /\ rest # {}
    <3>1. through(rest) = Last(rest) BY <2>3
    <3> HIDE DEF through, found, rows
    <3>2. rest \subseteq 1 .. high BY <1>1, <1>4
    <3>3. Last(rest) \in rest /\ \A j \in rest : j <= Last(rest) BY <3>2, <2>3, LastRow
    <3>4. Last(rest) \in after + 1 .. high BY <3>3, <1>1, <1>4
    <3>5. ASSUME NEW i \in after + 1 .. high, journal[i] = "shown"
          PROVE  i \in rest <=> i <= Last(rest)
      BY <1>2, <1>4, <3>3, <3>5
    <3> QED BY <3>1, <3>4, <3>5
  <2> QED BY <2>1, <2>2, <2>3
<1>6. shown(rest) = {i \in after + 1 .. through(rest) : journal[i] = "shown"}
  <2>1. rest \subseteq after + 1 .. high BY <1>1, <1>4
  <2>2. through(rest) \in after .. high BY <1>5
  <2> HIDE DEF through, found, rows
  <2>3. ASSUME NEW i \in rest, journal[i] = "shown"
        PROVE  i \in after + 1 .. through(rest)
    <3>1. i \in after + 1 .. high BY <2>1
    <3>2. i <= through(rest) BY <1>5, <2>3, <3>1
    <3> QED BY <3>1, <3>2, <2>2
  <2>4. ASSUME NEW i \in after + 1 .. through(rest), journal[i] = "shown"
        PROVE  i \in rest
    <3>1. i \in after + 1 .. high /\ i <= through(rest) BY <2>2
    <3> QED BY <1>5, <2>4, <3>1
  <2> QED BY <2>3, <2>4
<1>7. shown(rest) \in SUBSET Nat
  <2> SUFFICES ASSUME NEW i \in rest PROVE i \in Nat OBVIOUS
  <2> HIDE DEF rows, found, shown, through
  <2>1. i \in 1 .. high BY <1>1, <1>4
  <2> QED BY <2>1
<1>8. /\ p.from = after /\ p.through = through(rest) /\ p.high = high /\ p.events = shown(rest)
      /\ p = [from |-> after, through |-> through(rest), high |-> high, events |-> shown(rest)]
  BY <1>3 DEF Page
<1> HIDE DEF through, found, rows, shown
<1>9. through(rest) \in Nat /\ through(rest) <= high /\ after <= through(rest) BY <1>5
<1>10. p \in Pages BY <1>7, <1>8, <1>9 DEF Pages
<1>11. Exact(p)
  <2>1. through(rest) <= Len(journal) BY <1>9, <1>0
  <2>2. p.events = {i \in after + 1 .. through(rest) : journal[i] = "shown"} BY <1>6, <1>8
  <2> QED BY <2>1, <2>2, <1>8, <1>9 DEF Exact
<1>12. p.through # None BY <1>8, <1>9, NoneAssumption
<1> QED BY <1>8, <1>9, <1>10, <1>11, <1>12

(***************************************************************************)
(* What reading the next page of a subscription comes to.                  *)
(***************************************************************************)
Stopped(s) ==
    sub' = NoSub /\ \E kind \in {"error", "reset"} : captured' = Response(kind, s.req, NoPage)
Nothing(s) == sub' = s /\ captured' = None
ReadOne(s, kind, p, w) ==
    /\ s.pending = None /\ Exact(p)
    /\ w # None => p.through <= w /\ w <= Len(journal)
    /\ IF kind = "snapshot" THEN p.from = 0 /\ s.cursor = None
                            ELSE p.from = s.cursor /\ s.cursor # None
    /\ sub' = [s EXCEPT !.snapshot_through = w, !.pending = p.through]
    /\ captured' = Response(kind, s.req, p)
Outcome(s) ==
    \/ Stopped(s) \/ Nothing(s)
    \/ \E kind \in PageKinds, p \in Pages, w \in Nat \cup {None} : ReadOne(s, kind, p, w)

(* Every page that a catch-up reads is exact and follows the cursor, and   *)
(* it reads none while one is outstanding.                                 *)
LEMMA CatchUpOutcomes ==
    ASSUME TypeOK, NEW s \in Subs, SubInJournal(s), catch_up(s)
    PROVE  Outcome(s) /\ faults' \in Nat
<1> DEFINE high == IF s.snapshot_through = None THEN event_sequence ELSE s.snapshot_through
<1>0. /\ journal \in Seq(Records) /\ pruned \in Nat /\ faults \in Nat
      /\ Len(journal) \in Nat /\ event_sequence = Len(journal)
  BY DEF TypeOK, event_sequence
<1>1. faults' \in Nat
  <2>1. Fault \/ UNCHANGED faults BY Zenon DEF catch_up
  <2> QED BY <1>0, <2>1 DEF Fault
<1>2. ASSUME sub' = NoSub, captured' = Response("error", s.req, NoPage) PROVE Outcome(s)
  BY <1>2 DEF Outcome, Stopped
<1>3. ASSUME sub' = NoSub, captured' = Response("reset", s.req, NoPage) PROVE Outcome(s)
  BY <1>3 DEF Outcome, Stopped
<1>4. ASSUME sub' = s, captured' = None PROVE Outcome(s) BY <1>4 DEF Outcome, Nothing
<1>5. ASSUME s.pending = None, s.cursor = None,
             NEW p \in read_page(0, event_sequence, TRUE),
             sub' = [s EXCEPT !.snapshot_through = event_sequence, !.pending = p.through],
             captured' = Response("snapshot", s.req, p)
      PROVE  Outcome(s)
  <2>1. p \in Pages /\ Exact(p) /\ p.from = 0 /\ p.through <= event_sequence
    <3>1. 0 \in Nat /\ event_sequence \in Nat /\ 0 <= event_sequence
          /\ event_sequence <= Len(journal) /\ TRUE \in BOOLEAN
      BY <1>0
    <3> QED BY <1>0, <1>5, <3>1, ReadPageExact
  <2>2. ReadOne(s, "snapshot", p, event_sequence) BY <1>0, <1>5, <2>1 DEF ReadOne
  <2> QED BY <1>0, <2>1, <2>2 DEF Outcome, PageKinds
<1>6. ASSUME s.pending = None, s.cursor # None,
             s.snapshot_through = None => ~pruned_under(s.cursor),
             NEW p \in read_page(s.cursor, high, s.snapshot_through # None),
             sub' = [s EXCEPT !.pending = p.through],
             captured' = Response("replay", s.req, p)
      PROVE  Outcome(s)
  <2>1. s.cursor \in Nat BY <1>6 DEF Subs
  <2>2. high \in Nat /\ s.cursor <= high /\ high <= Len(journal)
    BY <1>0, <1>6, <2>1 DEF Subs, SubInJournal
  <2>3. (s.snapshot_through # None) \/ pruned <= s.cursor \/ high <= s.cursor
    BY <1>0, <1>6, <2>1, <2>2 DEF pruned_under
  <2>4. (s.snapshot_through # None) \in BOOLEAN OBVIOUS
  <2> HIDE DEF high
  <2>5. p \in Pages /\ Exact(p) /\ p.from = s.cursor /\ p.through <= high
    BY <1>0, <1>6, <2>1, <2>2, <2>3, <2>4, ReadPageExact
  <2>6. s.snapshot_through \in Nat \cup {None} BY DEF Subs
  <2>7. sub' = [s EXCEPT !.snapshot_through = s.snapshot_through, !.pending = p.through]
    BY <1>6 DEF Subs
  <2>8. s.snapshot_through # None =>
            p.through <= s.snapshot_through /\ s.snapshot_through <= Len(journal)
    BY <2>5, <2>2 DEF high
  <2>9. ReadOne(s, "replay", p, s.snapshot_through)
    BY <1>6, <2>5, <2>7, <2>8 DEF ReadOne
  <2> QED BY <2>5, <2>6, <2>9 DEF Outcome, PageKinds
<1> HIDE DEF high
<1>7. ASSUME access, s.pending = None, s.cursor # None,
             s.snapshot_through = None => ~pruned_under(s.cursor),
             NEW p \in read_page(s.cursor, high, s.snapshot_through # None),
             IF p.through = p.from /\ s.live
             THEN sub' = s /\ captured' = None
             ELSE /\ sub' = [s EXCEPT !.pending = p.through]
                  /\ captured' = Response("replay", s.req, p)
      PROVE  Outcome(s)
  BY <1>4, <1>6, <1>7
<1> USE DEF high
<1> QED BY <1>1, <1>2, <1>3, <1>4, <1>5, <1>7 DEF catch_up

(***************************************************************************)
(* A catch-up keeps the invariant.                                         *)
(***************************************************************************)
LEMMA NoSubFields ==
    /\ NoSub \in Subs /\ NoSub.req = 0 /\ NoSub.cursor = None
    /\ NoSub.snapshot_through = None /\ NoSub.pending = None
BY DEF NoSub, Subs

LEMMA NoPageExact ==
    ASSUME journal \in Seq(Records)
    PROVE  NoPage \in Pages /\ NoPage.from = 0 /\ Exact(NoPage)
<1>1. NoPage \in Pages /\ NoPage.from = 0 /\ NoPage.through = 0 /\ NoPage.events = {}
  BY DEF NoPage, Page, Pages
<1>2. {i \in 0 + 1 .. 0 : journal[i] = "shown"} = {} OBVIOUS
<1> QED BY <1>1, <1>2 DEF Exact

LEMMA ResponseFields ==
    ASSUME TypeOK, NEW kind \in PageKinds \cup {"reset", "error"}, NEW r \in Nat, NEW p \in Pages
    PROVE  /\ Response(kind, r, p) \in Responses /\ Response(kind, r, p).kind = kind
           /\ Response(kind, r, p).conn = conn /\ Response(kind, r, p).req = r
           /\ Response(kind, r, p).page = p
BY DEF TypeOK, Response, Responses

(* A server without a subscription has nothing to answer for but what is   *)
(* on its way.                                                             *)
LEMMA StoppedKeeps ==
    ASSUME TypeOK, NEW n \in Nat, NEW s \in Subs, NEW q \in Seq(Commands),
           ServerInv(n, s, None, q),
           NEW h, h # None => /\ h \in Responses /\ 0 < h.req /\ h.req <= n /\ h.conn = conn
                              /\ h.kind \notin PageKinds
    PROVE  ServerInv(n, NoSub, h, q)
<1> USE NoSubFields
<1>1. CursorsInJournal(NoSub, q) BY DEF ServerInv, CursorsInJournal, SubInJournal
<1>2. Numbered(n, NoSub, h, q)
  <2>1. h # None => Answers(h, n, NoSub) BY DEF Answers
  <2>2. \A i \in 1 .. Len(toClient) : Answers(toClient[i], n, NoSub)
    BY DEF ServerInv, Numbered, Answers
  <2> QED BY <2>1, <2>2 DEF ServerInv, Numbered
<1>3. AskedFromHeld(NoSub, h, q)
  <2>1. h # None => FromHeld(h) BY DEF FromHeld, PageKinds
  <2> QED BY <2>1 DEF ServerInv, AskedFromHeld
<1> QED BY <1>1, <1>2, <1>3 DEF ServerInv, Follows, InOnePlace

LEMMA ReadOneKeeps ==
    ASSUME TypeOK, NEW n \in Nat, NEW s \in Subs, NEW q \in Seq(Commands), s # NoSub,
           ServerInv(n, s, None, q),
           NEW kind \in PageKinds, NEW p \in Pages, NEW w \in Nat \cup {None},
           ReadOne(s, kind, p, w)
    PROVE  /\ sub' \in Subs /\ captured' \in Responses /\ ExactResponse(captured')
           /\ ServerInv(n, sub', captured', q)
<1> DEFINE z == sub'
           h == captured'
<1>0. CursorsInJournal(s, q) /\ Numbered(n, s, None, q) /\ AskedFromHeld(s, None, q)
      /\ Follows(s, None, q) /\ InOnePlace(s, None, q)
  BY DEF ServerInv
<1>1. /\ z \in Subs /\ z.req = s.req /\ z.cursor = s.cursor /\ z.snapshot_through = w
      /\ z.pending = p.through /\ p.through \in Nat /\ p.from \in Nat
  BY DEF ReadOne, Subs, Pages
<1>2. h \in Responses /\ h.kind = kind /\ h.conn = conn /\ h.req = s.req /\ h.page = p
  BY ResponseFields DEF ReadOne, Subs
<1>3. /\ s.pending = None /\ Exact(p) /\ p.through # None
      /\ w # None => p.through <= w /\ w <= Len(journal)
      /\ kind = "snapshot" => p.from = 0 /\ s.cursor = None
      /\ kind # "snapshot" => p.from = s.cursor /\ s.cursor # None
      /\ p.from <= p.through /\ p.through <= Len(journal)
  BY <1>1, NoneAssumption DEF ReadOne, Exact
<1>4. ExactResponse(h) BY <1>2, <1>3 DEF ExactResponse
<1>5. z # NoSub /\ s.req = n /\ n # 0 BY <1>0, <1>1, NoSubFields DEF Numbered
<1>6. s.cursor \in Nat \cup {None} /\ Len(journal) \in Nat BY DEF Subs, TypeOK
<1> HIDE DEF z, h
<1>7. CursorsInJournal(z, q)
  <2>1. SubInJournal(z)
    BY <1>0, <1>1, <1>3, <1>6 DEF CursorsInJournal, SubInJournal, PageKinds
  <2> QED BY <2>1, <1>0 DEF CursorsInJournal
<1>8. Numbered(n, z, h, q)
  <2>1. Answers(h, n, z) BY <1>1, <1>2, <1>5 DEF Answers, PageKinds
  <2>2. \A i \in 1 .. Len(toClient) : Answers(toClient[i], n, z)
    BY <1>0, <1>1 DEF Numbered, Answers
  <2> QED BY <2>1, <2>2, <1>0, <1>1, <1>5 DEF Numbered
<1>9. AskedFromHeld(z, h, q)
  <2> SUFFICES ASSUME client.asked # 0, client.req # client.asked
               PROVE  /\ z.req = client.asked /\ z.cursor # None => z.cursor <= client.cursor
                      /\ FromHeld(h)
    BY <1>0 DEF AskedFromHeld
  <2>1. z.req = client.asked /\ z.cursor # None => z.cursor <= client.cursor
    BY <1>0, <1>1 DEF AskedFromHeld
  <2>2. FromHeld(h)
    <3> SUFFICES ASSUME h.req = client.asked, h.kind = "replay"
                 PROVE  h.page.from <= client.cursor
      BY DEF FromHeld
    <3>1. kind # "snapshot" /\ s.req = client.asked BY <1>2
    <3> QED BY <3>1, <1>1, <1>2, <1>3, <2>1
  <2> QED BY <2>1, <2>2
<1>10. \A m : PageOf(m, z) <=> PageOf(m, s) BY <1>1 DEF PageOf
<1>11. \A c : AckOf(c, z) <=> AckOf(c, s) BY <1>1 DEF AckOf
<1>12. Follows(z, h, q)
  <2>1. z.cursor # None => z.cursor <= h.page.from BY <1>1, <1>2, <1>3, <1>6 DEF PageKinds
  <2> QED BY <2>1, <1>0, <1>1, <1>10, <1>11 DEF Follows
<1>13. InOnePlace(z, h, q)
  <2>1. ~Staged(z) /\ \A i \in Nat : ~Sent(i, z) /\ ~Acked(i, z, q)
    BY <1>0, <1>1, <1>3, <1>10, <1>11 DEF InOnePlace, Staged, Sent, Acked
  <2> QED BY <2>1, <1>1, <1>3 DEF InOnePlace
<1> QED BY <1>1, <1>2, <1>4, <1>7, <1>8, <1>9, <1>12, <1>13 DEF z, h, ServerInv

LEMMA OutcomeKeeps ==
    ASSUME TypeOK, NEW n \in Nat, NEW s \in Subs, NEW q \in Seq(Commands), s # NoSub,
           ServerInv(n, s, None, q), Outcome(s)
    PROVE  /\ sub' \in Subs /\ captured' \in Responses \cup {None}
           /\ captured' # None => ExactResponse(captured')
           /\ ServerInv(n, sub', captured', q)
<1>1. CASE Stopped(s)
  <2>1. PICK kind \in {"error", "reset"} :
            sub' = NoSub /\ captured' = Response(kind, s.req, NoPage)
    BY <1>1 DEF Stopped
  <2>2. NoPage \in Pages /\ NoPage.from = 0 /\ Exact(NoPage) BY NoPageExact DEF TypeOK
  <2>3. s.req \in Nat /\ s.req = n /\ n # 0 BY DEF Subs, ServerInv, Numbered
  <2>4. /\ captured' \in Responses /\ captured'.kind = kind /\ captured'.conn = conn
        /\ captured'.req = s.req /\ captured'.page = NoPage
    <3>1. kind \in PageKinds \cup {"reset", "error"} BY <2>1
    <3> QED BY <2>1, <2>2, <2>3, <3>1, ResponseFields
  <2>5. ExactResponse(captured') BY <2>2, <2>4 DEF ExactResponse
  <2>6. 0 < captured'.req /\ captured'.req <= n /\ captured'.kind \notin PageKinds
    BY <2>3, <2>4 DEF PageKinds
  <2>7. ServerInv(n, NoSub, captured', q) BY <2>4, <2>6, StoppedKeeps
  <2> QED BY <2>1, <2>4, <2>5, <2>7, NoSubFields
<1>2. CASE Nothing(s) BY <1>2 DEF Nothing
<1>3. ASSUME NEW kind \in PageKinds, NEW p \in Pages, NEW w \in Nat \cup {None},
             ReadOne(s, kind, p, w)
      PROVE  /\ sub' \in Subs /\ captured' \in Responses \cup {None}
             /\ captured' # None => ExactResponse(captured')
             /\ ServerInv(n, sub', captured', q)
  BY <1>3, ReadOneKeeps
<1> QED BY <1>1, <1>2, <1>3 DEF Outcome

(* The server's steps leave the client and the journal alone. *)
LEMMA ServerStep ==
    ASSUME RInv, up, newest' \in Nat, sub' \in Subs, captured' \in Responses \cup {None},
           captured' # None => ExactResponse(captured'),
           toServer' \in Seq(Commands), faults' \in Nat,
           ServerInv(newest', sub', captured', toServer'),
           UNCHANGED <<journal, pruned, access, up, conn, toClient, host>>
    PROVE  RInv'
<1> USE DEF RInv, host
<1>0. UNCHANGED <<journal, conn, toClient, client>> OBVIOUS
<1>1. TypeOK' BY DEF TypeOK
<1>2. PagesExact' BY DEF PagesExact, ExactResponse, Exact
<1>3. Down' BY DEF Down
<1>4. CopyExact' BY DEF CopyExact
<1>5. CursorsInJournal(sub, toServer)'
  BY <1>0 DEF ServerInv, CursorsInJournal, SubInJournal
<1>6. Numbered(newest, sub, captured, toServer)'
  BY <1>0 DEF ServerInv, Numbered, Answers, NoSub
<1>7. AskedFromHeld(sub, captured, toServer)'
  BY <1>0 DEF ServerInv, AskedFromHeld, FromHeld
<1>8. Follows(sub, captured, toServer)'
  BY <1>0 DEF ServerInv, Follows, PageOf, AckOf, NoSub
<1>9. InOnePlace(sub, captured, toServer)'
  BY <1>0 DEF ServerInv, InOnePlace, Held, Sent, Staged, Acked, PageOf, AckOf, NoSub
<1> QED BY <1>1, <1>2, <1>3, <1>4, <1>5, <1>6, <1>7, <1>8, <1>9 DEF ServerInv

(***************************************************************************)
(* The commands.                                                           *)
(***************************************************************************)
LEMMA TailFacts ==
    ASSUME NEW S, NEW q \in Seq(S), q # <<>>
    PROVE  /\ Tail(q) \in Seq(S) /\ Len(Tail(q)) = Len(q) - 1 /\ Len(q) \in Nat /\ 1 <= Len(q)
           /\ Len(Tail(q)) \in Nat
           /\ Head(q) = q[1] /\ Head(q) \in S
           /\ \A i \in 1 .. Len(Tail(q)) : i + 1 \in 1 .. Len(q) /\ Tail(q)[i] = q[i + 1]
OBVIOUS

LEMMA CommandTypes ==
    ASSUME NEW c \in Commands
    PROVE  /\ c.req \in Nat
           /\ c.type = "subscribe" => c.after \in Nat \cup {None} /\ c.live \in BOOLEAN
           /\ c.type = "ack" => c.through \in Nat /\ c.conn \in Nat
BY DEF Commands, Subscribes, Acks, Unsubscribes

LEMMA ResponseTypes ==
    ASSUME NEW t \in Seq(Responses)
    PROVE  /\ Len(t) \in Nat
           /\ \A i \in 1 .. Len(t) :
                 /\ t[i] \in Responses /\ t[i].req \in Nat /\ t[i].conn \in Nat
                 /\ t[i].page \in Pages /\ t[i].page.from \in Nat
<1>1. \A i \in 1 .. Len(t) : t[i] \in Responses OBVIOUS
<1>2. \A m \in Responses : /\ m.req \in Nat /\ m.conn \in Nat /\ m.page \in Pages
                           /\ m.page.from \in Nat
  BY DEF Responses, Pages
<1>3. Len(t) \in Nat OBVIOUS
<1> QED BY <1>1, <1>2, <1>3

(* A command that is taken off its queue. *)
LEMMA TailKeeps ==
    ASSUME TypeOK, NEW n \in Nat, NEW s \in Subs, NEW h, NEW q \in Seq(Commands), q # <<>>,
           ServerInv(n, s, h, q)
    PROVE  ServerInv(n, s, h, Tail(q))
<1> DEFINE t == Tail(q)
<1>0. CursorsInJournal(s, q) /\ Numbered(n, s, h, q) /\ AskedFromHeld(s, h, q)
      /\ Follows(s, h, q) /\ InOnePlace(s, h, q)
  BY DEF ServerInv
<1>1. /\ t \in Seq(Commands) /\ Len(t) \in Nat
      /\ \A i \in 1 .. Len(t) : i + 1 \in 1 .. Len(q) /\ t[i] = q[i + 1]
  BY TailFacts
<1>2. \A i \in Nat : i \in 1 .. Len(t) => i + 1 \in Nat /\ i + 1 \in 1 .. Len(q)
  BY <1>1
<1> HIDE DEF t
<1>3. CursorsInJournal(s, t) BY <1>0, <1>1 DEF CursorsInJournal
<1>4. Numbered(n, s, h, t)
  <2>1. \A i, j \in 1 .. Len(t) : i < j => i + 1 < j + 1 BY <1>1
  <2>2. \A i, j \in 1 .. Len(t) :
          i < j /\ t[i].type = "subscribe" /\ t[j].type = "subscribe" => t[i].req < t[j].req
    BY <1>0, <1>1, <2>1 DEF Numbered
  <2>3. \A i \in 1 .. Len(t) :
          /\ t[i].type = "subscribe" =>
                n < t[i].req /\ client.req < t[i].req /\ t[i].req <= client.last
          /\ t[i].type = "ack" => t[i].req <= client.req
    BY <1>0, <1>1 DEF Numbered
  <2> QED BY <1>0, <2>2, <2>3 DEF Numbered
<1>5. AskedFromHeld(s, h, t) BY <1>0, <1>1 DEF AskedFromHeld
<1>6. Follows(s, h, t) BY <1>0, <1>1 DEF Follows
<1>7. \A i \in Nat : Acked(i, s, t) => i + 1 \in Nat /\ Acked(i + 1, s, q)
  BY <1>1, <1>2 DEF Acked
<1>8. \A i, j \in Nat : Acked(i, s, t) /\ Acked(j, s, t) /\ s # NoSub => i = j
  <2> TAKE i, j \in Nat
  <2> HAVE Acked(i, s, t) /\ Acked(j, s, t) /\ s # NoSub
  <2>1. i + 1 = j + 1 BY <1>0, <1>7 DEF InOnePlace
  <2> QED BY <2>1
<1>9. InOnePlace(s, h, t)
  BY <1>0, <1>7, <1>8 DEF InOnePlace
<1> QED BY <1>3, <1>4, <1>5, <1>6, <1>9 DEF t, ServerInv

(* A new request replaces the subscription. *)
LEMMA StartKeeps ==
    ASSUME RInv, captured = None, toServer # <<>>,
           NEW c, c = Head(toServer), c.type = "subscribe", c.req > newest
    PROVE  /\ [NoSub EXCEPT !.req = c.req, !.cursor = c.after, !.live = c.live] \in Subs
           /\ [NoSub EXCEPT !.req = c.req, !.cursor = c.after, !.live = c.live] # NoSub
           /\ ServerInv(c.req,
                  [NoSub EXCEPT !.req = c.req, !.cursor = c.after, !.live = c.live],
                  None, Tail(toServer))
<1> DEFINE s == [NoSub EXCEPT !.req = c.req, !.cursor = c.after, !.live = c.live]
           q == Tail(toServer)
<1> USE DEF RInv
<1>0. /\ CursorsInJournal(sub, toServer) /\ Numbered(newest, sub, captured, toServer)
      /\ AskedFromHeld(sub, captured, toServer)
  BY DEF ServerInv
<1>1. /\ toServer \in Seq(Commands) /\ newest \in Nat /\ client \in Clients
      /\ toClient \in Seq(Responses) /\ Len(toClient) \in Nat
  BY DEF TypeOK
<1>2. /\ q \in Seq(Commands) /\ Len(q) \in Nat /\ c = toServer[1] /\ c \in Commands
      /\ \A i \in 1 .. Len(q) : i + 1 \in 1 .. Len(toServer) /\ q[i] = toServer[i + 1]
      /\ 1 \in 1 .. Len(toServer)
  BY <1>1, TailFacts
<1>3. c.req \in Nat /\ c.after \in Nat \cup {None} /\ c.live \in BOOLEAN
  BY <1>2, CommandTypes
<1>4. /\ s \in Subs /\ s.req = c.req /\ s.cursor = c.after /\ s.snapshot_through = None
      /\ s.pending = None
  BY <1>3 DEF NoSub, Subs
<1>5. s # NoSub
  <2> HIDE DEF s
  <2>1. c.req # 0 BY <1>1, <1>3
  <2> QED BY <2>1, <1>4, NoSubFields
<1>6. /\ newest < c.req /\ client.req < c.req /\ c.req <= client.last
      /\ c.after # None => c.after <= Len(journal)
  BY <1>0, <1>2 DEF Numbered, CursorsInJournal
<1>7. \A i \in 1 .. Len(toClient) : toClient[i] \in Responses /\ toClient[i].req \in Nat
  BY <1>1, ResponseTypes
<1>8. \A i \in 1 .. Len(toClient) : toClient[i].req < c.req
  BY <1>0, <1>1, <1>3, <1>6, <1>7 DEF Numbered, Answers
<1>9. \A i \in 1 .. Len(q) : q[i] \in Commands /\ q[i].req \in Nat BY <1>2, CommandTypes
<1>10. \A i \in 1 .. Len(q) : q[i].type = "ack" => q[i].req < c.req
  BY <1>0, <1>1, <1>2, <1>3, <1>6, <1>9 DEF Numbered, Clients
<1> HIDE DEF s, q
<1>11. CursorsInJournal(s, q)
  <2>1. \A i \in 1 .. Len(q) : q[i].type = "subscribe" =>
            (q[i].after # None => q[i].after <= Len(journal))
    BY <1>0, <1>2 DEF CursorsInJournal
  <2> QED BY <1>0, <1>4, <1>6, <2>1 DEF CursorsInJournal, SubInJournal
<1>12. Numbered(c.req, s, None, q)
  <2>1. \A i \in 1 .. Len(toClient) : Answers(toClient[i], c.req, s)
    <3> TAKE i \in 1 .. Len(toClient)
    <3>1. Answers(toClient[i], newest, sub) BY <1>0 DEF Numbered
    <3> QED BY <1>3, <1>4, <1>7, <1>8, <3>1 DEF Answers
  <2>2. \A i \in 1 .. Len(q) : 1 < i + 1 BY <1>2
  <2>3. \A i \in 1 .. Len(q) :
          /\ q[i].type = "subscribe" =>
                c.req < q[i].req /\ client.req < q[i].req /\ q[i].req <= client.last
          /\ q[i].type = "ack" => q[i].req <= client.req
    BY <1>0, <1>2, <2>2 DEF Numbered
  <2>4. \A i, j \in 1 .. Len(q) : i < j => i + 1 < j + 1 BY <1>2
  <2>5. \A i, j \in 1 .. Len(q) :
          i < j /\ q[i].type = "subscribe" /\ q[j].type = "subscribe" => q[i].req < q[j].req
    BY <1>0, <1>2, <2>4 DEF Numbered
  <2>6. s.req = c.req /\ c.req # 0 BY <1>1, <1>3, <1>4, <1>6
  <2> QED BY <1>0, <1>6, <2>1, <2>3, <2>5, <2>6 DEF Numbered
<1>13. AskedFromHeld(s, None, q)
  <2> SUFFICES ASSUME client.asked # 0, client.req # client.asked
               PROVE  AskedFromHeld(s, None, q)
    BY DEF AskedFromHeld
  <2>1. \A i \in 1 .. Len(q) : q[i].type = "subscribe" /\ q[i].req = client.asked =>
              (q[i].after # None => q[i].after <= client.cursor)
    BY <1>0, <1>2 DEF AskedFromHeld
  <2>2. s.req = client.asked /\ s.cursor # None => s.cursor <= client.cursor
    BY <1>0, <1>2, <1>4 DEF AskedFromHeld
  <2>3. \A i \in 1 .. Len(toClient) : FromHeld(toClient[i]) BY <1>0 DEF AskedFromHeld
  <2> QED BY <2>1, <2>2, <2>3 DEF AskedFromHeld
<1>14. ~Staged(s) /\ s.req # client.req
  BY <1>1, <1>3, <1>4, <1>6 DEF Staged, Clients
<1>15. \A i \in 1 .. Len(toClient) : ~PageOf(toClient[i], s)
  BY <1>3, <1>4, <1>7, <1>8 DEF PageOf
<1>16. \A i \in 1 .. Len(q) : ~AckOf(q[i], s) BY <1>3, <1>4, <1>9, <1>10 DEF AckOf
<1>17. Follows(s, None, q) BY <1>14, <1>15, <1>16 DEF Follows
<1>18. InOnePlace(s, None, q)
  BY <1>14, <1>15, <1>16 DEF InOnePlace, Held, Sent, Acked
<1> QED BY <1>4, <1>5, <1>11, <1>12, <1>13, <1>17, <1>18 DEF s, q, ServerInv

(* An acknowledgement moves the server's cursor to what the client has     *)
(* applied.                                                                *)
LEMMA AckKeeps ==
    ASSUME RInv, captured = None, toServer # <<>>,
           NEW c, c = Head(toServer), acked(c),
           NEW w, w = IF sub.snapshot_through = c.through THEN None ELSE sub.snapshot_through,
           NEW s, s = [sub EXCEPT !.pending = None, !.cursor = c.through, !.snapshot_through = w]
    PROVE  s \in Subs /\ s # NoSub /\ ServerInv(newest, s, None, Tail(toServer))
<1> DEFINE q == Tail(toServer)
<1> USE DEF RInv
<1>0. /\ CursorsInJournal(sub, toServer) /\ Numbered(newest, sub, captured, toServer)
      /\ AskedFromHeld(sub, captured, toServer) /\ Follows(sub, captured, toServer)
      /\ InOnePlace(sub, captured, toServer)
  BY DEF ServerInv
<1>1. /\ toServer \in Seq(Commands) /\ newest \in Nat /\ client \in Clients /\ sub \in Subs
      /\ toClient \in Seq(Responses) /\ Len(toClient) \in Nat
  BY DEF TypeOK
<1>2. /\ q \in Seq(Commands) /\ Len(q) \in Nat /\ c = toServer[1] /\ c \in Commands
      /\ \A i \in 1 .. Len(q) : i + 1 \in 1 .. Len(toServer) /\ q[i] = toServer[i + 1]
      /\ 1 \in 1 .. Len(toServer)
  BY <1>1, TailFacts
<1>3. /\ c.type = "ack" /\ sub # NoSub /\ c.req = sub.req /\ c.through = sub.pending
      /\ c.through \in Nat /\ c.through # None /\ c.req \in Nat
  BY <1>2, CommandTypes, NoneAssumption DEF acked
<1>4. w \in Nat \cup {None} BY <1>1 DEF Subs
<1>5. /\ s \in Subs /\ s.req = sub.req /\ s.cursor = c.through /\ s.snapshot_through = w
      /\ s.pending = None
  BY <1>1, <1>3, <1>4 DEF Subs
<1>6. s # NoSub /\ sub.req = newest /\ newest # 0
  BY <1>0, <1>3, <1>5, NoSubFields DEF Numbered
<1>7. ServerInv(newest, sub, captured, q) BY <1>1, TailKeeps
<1>8. Acked(1, sub, toServer) BY <1>2, <1>3 DEF Acked, AckOf
<1> HIDE DEF q
<1>9. CursorsInJournal(s, q)
  <2>1. SubInJournal(sub) BY <1>0 DEF CursorsInJournal
  <2>2. SubInJournal(s) BY <2>1, <1>1, <1>3, <1>5 DEF SubInJournal, Subs
  <2> QED BY <1>7, <2>2 DEF ServerInv, CursorsInJournal
<1>10. Numbered(newest, s, None, q)
  <2>1. \A i \in 1 .. Len(toClient) : Answers(toClient[i], newest, s)
    BY <1>0, <1>5 DEF Numbered, Answers
  <2> QED BY <1>5, <1>6, <1>7, <2>1 DEF ServerInv, Numbered
<1>11. AskedFromHeld(s, None, q)
  <2> SUFFICES ASSUME client.asked # 0, client.req # client.asked
               PROVE  AskedFromHeld(s, None, q)
    BY DEF AskedFromHeld
  <2>1. c.req <= client.req BY <1>0, <1>2, <1>3 DEF Numbered
  <2>2. s.req # client.asked
    BY <1>0, <1>1, <1>3, <1>5, <2>1 DEF Numbered, Clients
  <2> QED BY <1>7, <2>2 DEF ServerInv, AskedFromHeld
<1>12. \A m : PageOf(m, s) <=> PageOf(m, sub) BY <1>5 DEF PageOf
<1>13. \A d : AckOf(d, s) <=> AckOf(d, sub) BY <1>5 DEF AckOf
<1>14. ~Staged(s) /\ \A i \in Nat : ~Sent(i, s)
  BY <1>0, <1>3, <1>5, <1>8, <1>12 DEF InOnePlace, Staged, Sent
<1>15. \A i \in Nat : ~Acked(i, s, q)
  <2> SUFFICES ASSUME NEW i \in Nat, Acked(i, s, q) PROVE FALSE OBVIOUS
  <2>1. i \in 1 .. Len(q) /\ i + 1 \in Nat BY DEF Acked
  <2>2. Acked(i + 1, sub, toServer) BY <2>1, <1>2, <1>13 DEF Acked
  <2>3. i + 1 = 1 BY <1>0, <1>3, <1>8, <2>1, <2>2 DEF InOnePlace
  <2> QED BY <2>1, <2>3
<1>16. Follows(s, None, q)
  <2>1. \A i \in 1 .. Len(toClient) : ~PageOf(toClient[i], s) BY <1>14 DEF Sent
  <2>2. \A i \in 1 .. Len(q) : ~AckOf(q[i], s) BY <1>15 DEF Acked
  <2>3. s.req = client.req => c.through <= client.cursor
    BY <1>0, <1>2, <1>3, <1>5, <1>8 DEF Follows, Acked
  <2> QED BY <1>5, <2>1, <2>2, <2>3 DEF Follows
<1>17. InOnePlace(s, None, q) BY <1>14, <1>15 DEF InOnePlace, Held
<1> QED BY <1>5, <1>6, <1>9, <1>10, <1>11, <1>16, <1>17 DEF q, ServerInv

(***************************************************************************)
(* The steps of the server.                                                *)
(***************************************************************************)
LEMMA CommandStep ==
    ASSUME RInv, Command
    PROVE  RInv'
<1> DEFINE c == Head(toServer)
           q == Tail(toServer)
<1> USE DEF RInv
<1>0. /\ TypeOK /\ PagesExact /\ Down /\ ServerInv(newest, sub, captured, toServer)
      /\ toServer # <<>> /\ captured = None /\ toServer' = q /\ faults \in Nat
      /\ UNCHANGED <<journal, pruned, access, up, conn, toClient, host>>
      /\ start(c) \/ ack(c) \/ unsubscribe(c) \/ ignored(c)
      /\ newest \in Nat /\ sub \in Subs /\ toServer \in Seq(Commands) /\ up
  BY DEF Command, TypeOK, Down
<1>1. q \in Seq(Commands) /\ c \in Commands BY <1>0, TailFacts
<1>2. ServerInv(newest, sub, None, q) BY <1>0, TailKeeps
<1>3. c.req \in Nat BY <1>1, CommandTypes
<1>4. ASSUME NEW n \in Nat, newest' = n, NEW s \in Subs, s # NoSub, ServerInv(n, s, None, q),
             catch_up(s)
      PROVE  RInv'
  <2>1. SubInJournal(s) BY <1>4 DEF ServerInv, CursorsInJournal
  <2>2. Outcome(s) /\ faults' \in Nat BY <1>0, <1>4, <2>1, CatchUpOutcomes
  <2>3. /\ sub' \in Subs /\ captured' \in Responses \cup {None}
        /\ captured' # None => ExactResponse(captured')
        /\ ServerInv(n, sub', captured', q)
    BY <1>0, <1>1, <1>4, <2>2, OutcomeKeeps
  <2> HIDE DEF q
  <2> QED BY <1>0, <1>1, <1>4, <2>2, <2>3, ServerStep
<1>5. ASSUME newest' = newest, sub' = NoSub, captured' = None, faults' = faults PROVE RInv'
  <2> HIDE DEF q
  <2>1. ServerInv(newest, NoSub, None, q) BY <1>0, <1>1, <1>2, StoppedKeeps
  <2> QED BY <1>0, <1>1, <1>5, <2>1, NoSubFields, ServerStep
<1> HIDE DEF c, q
<1>6. CASE start(c)
  <2> DEFINE s == [NoSub EXCEPT !.req = c.req, !.cursor = c.after, !.live = c.live]
  <2>1. c.type = "subscribe" /\ c.req > newest /\ newest' = c.req /\ catch_up(s)
    BY <1>6 DEF start
  <2>2. s \in Subs /\ s # NoSub /\ ServerInv(c.req, s, None, q)
    BY <1>0, <2>1, StartKeeps DEF c, q
  <2> HIDE DEF s
  <2> QED BY <1>3, <1>4, <2>1, <2>2
<1>7. CASE ack(c)
  <2> DEFINE w == IF sub.snapshot_through = c.through THEN None ELSE sub.snapshot_through
             s == [sub EXCEPT !.pending = None, !.cursor = c.through, !.snapshot_through = w]
  <2>1. /\ acked(c) /\ newest' = newest
        /\ \/ sub' = NoSub /\ captured' = None /\ UNCHANGED faults
           \/ catch_up(s)
    BY <1>7 DEF ack
  <2>2. s \in Subs /\ s # NoSub /\ ServerInv(newest, s, None, q)
    BY <1>0, <2>1, AckKeeps DEF c, q
  <2> HIDE DEF s
  <2> QED BY <1>0, <1>4, <1>5, <2>1, <2>2
<1>8. CASE unsubscribe(c) BY <1>0, <1>5, <1>8 DEF unsubscribe
<1>9. CASE ignored(c)
  <2>1. newest' = newest /\ sub' = sub /\ captured' = captured /\ faults' = faults
    BY <1>9 DEF ignored
  <2> QED BY <1>0, <1>1, <1>2, <2>1, ServerStep
<1> QED BY <1>0, <1>6, <1>7, <1>8, <1>9

LEMMA CatchUpStep ==
    ASSUME RInv, CatchUp
    PROVE  RInv'
<1> USE DEF RInv
<1>0. /\ TypeOK /\ Down /\ ServerInv(newest, sub, None, toServer) /\ sub # NoSub
      /\ newest' = newest /\ toServer' = toServer /\ catch_up(sub) /\ up
      /\ UNCHANGED <<journal, pruned, access, up, conn, toClient, host>>
      /\ newest \in Nat /\ sub \in Subs /\ toServer \in Seq(Commands)
  BY DEF CatchUp, TypeOK, Down
<1>1. SubInJournal(sub) BY <1>0 DEF ServerInv, CursorsInJournal
<1>2. Outcome(sub) /\ faults' \in Nat BY <1>0, <1>1, CatchUpOutcomes
<1>3. /\ sub' \in Subs /\ captured' \in Responses \cup {None}
      /\ captured' # None => ExactResponse(captured')
      /\ ServerInv(newest, sub', captured', toServer)
  BY <1>0, <1>2, OutcomeKeeps
<1> QED BY <1>0, <1>2, <1>3, ServerStep

LEMMA AppendFacts ==
    ASSUME NEW S, NEW q \in Seq(S), NEW x \in S
    PROVE  /\ Append(q, x) \in Seq(S) /\ Len(q) \in Nat /\ Len(Append(q, x)) = Len(q) + 1
           /\ \A i \in 1 .. Len(q) : i # Len(q) + 1 /\ Append(q, x)[i] = q[i]
           /\ \A i \in 1 .. Len(q) + 1 : i \in 1 .. Len(q) \/ i = Len(q) + 1
           /\ Append(q, x)[Len(q) + 1] = x /\ Append(q, x) # <<>>
OBVIOUS

(* What the send task holds goes to the client, or an error in its place. *)
LEMMA SendStep ==
    ASSUME RInv, send_response
    PROVE  RInv'
<1> DEFINE m == IF access THEN captured ELSE Response("error", captured.req, NoPage)
           l == Len(toClient)
<1> USE DEF RInv
<1>0. /\ TypeOK /\ PagesExact /\ Down /\ CopyExact /\ captured # None
      /\ CursorsInJournal(sub, toServer) /\ Numbered(newest, sub, captured, toServer)
      /\ AskedFromHeld(sub, captured, toServer) /\ Follows(sub, captured, toServer)
      /\ InOnePlace(sub, captured, toServer)
  BY DEF send_response, ServerInv
<1>1. /\ toClient' = Append(toClient, m) /\ captured' = None
      /\ UNCHANGED <<journal, pruned, access, up, conn, newest, sub, toServer, client,
                     applying, projection, faults>>
  BY DEF send_response, host
<1>2. captured \in Responses /\ captured.req \in Nat /\ toClient \in Seq(Responses) /\ up
  BY <1>0 DEF TypeOK, Responses, Down
<1>3. NoPage \in Pages /\ NoPage.from = 0 /\ Exact(NoPage) BY <1>0, NoPageExact DEF TypeOK
<1>4. /\ m \in Responses /\ m.req = captured.req /\ ExactResponse(m)
      /\ Answers(m, newest, sub) /\ (m.kind \in PageKinds => m = captured)
  <2>1. CASE access BY <2>1, <1>0, <1>2 DEF PagesExact, Numbered
  <2>2. CASE ~access
    <3>1. m = Response("error", captured.req, NoPage) BY <2>2
    <3> HIDE DEF m
    <3>2. "error" \in PageKinds \cup {"reset", "error"} OBVIOUS
    <3>3. /\ m \in Responses /\ m.kind = "error" /\ m.conn = conn /\ m.req = captured.req
          /\ m.page = NoPage
      <4> DEFINE e == Response("error", captured.req, NoPage)
      <4>1. /\ e \in Responses /\ e.kind = "error" /\ e.conn = conn /\ e.req = captured.req
            /\ e.page = NoPage
        <5>1. conn \in Nat BY <1>0 DEF TypeOK
        <5> QED BY <5>1, <1>2, <1>3, <3>2 DEF Response, Responses
      <4> HIDE DEF e
      <4> QED BY <4>1, <3>1 DEF e
    <3> QED BY <1>0, <1>3, <3>3 DEF ExactResponse, Numbered, Answers, PageKinds
  <2> QED BY <2>1, <2>2
<1> HIDE DEF m
<1>5. /\ toClient' \in Seq(Responses) /\ l \in Nat /\ Len(toClient') = l + 1
      /\ \A i \in 1 .. l : i # l + 1 /\ toClient'[i] = toClient[i]
      /\ \A i \in 1 .. l + 1 : i \in 1 .. l \/ i = l + 1
      /\ toClient'[l + 1] = m
  BY <1>1, <1>2, <1>4, AppendFacts
<1> HIDE DEF l
<1>6. TypeOK' BY <1>0, <1>1, <1>5 DEF TypeOK
<1>7. PagesExact'
  <2>1. \A i \in 1 .. l : ExactResponse(toClient[i]) BY <1>0 DEF PagesExact, l
  <2>2. \A i \in 1 .. Len(toClient') : ExactResponse(toClient'[i]) BY <1>4, <1>5, <2>1
  <2> QED BY <1>0, <1>1, <2>2 DEF PagesExact, ExactResponse, Exact
<1>8. Down' BY <1>1, <1>2 DEF Down
<1>9. CopyExact' BY <1>0, <1>1 DEF CopyExact
<1>10. CursorsInJournal(sub, toServer)'
  BY <1>0, <1>1 DEF CursorsInJournal, SubInJournal
<1>11. Numbered(newest, sub, captured, toServer)'
  <2>1. \A i \in 1 .. l : Answers(toClient[i], newest, sub) BY <1>0 DEF Numbered, l
  <2>2. \A i \in 1 .. Len(toClient') : Answers(toClient'[i], newest, sub)
    BY <1>4, <1>5, <2>1
  <2> QED BY <1>0, <1>1, <2>2 DEF Numbered, Answers, NoSub
<1>12. AskedFromHeld(sub, captured, toServer)'
  <2>1. ASSUME client.asked # 0, client.req # client.asked
        PROVE  \A i \in 1 .. Len(toClient') : FromHeld(toClient'[i])
    <3>1. \A i \in 1 .. l : FromHeld(toClient[i]) BY <1>0, <2>1 DEF AskedFromHeld, l
    <3>2. FromHeld(captured) BY <1>0, <2>1 DEF AskedFromHeld
    <3>3. FromHeld(m) BY <1>4, <3>2 DEF FromHeld, PageKinds
    <3> QED BY <1>5, <3>1, <3>3
  <2> QED BY <1>0, <1>1, <2>1 DEF AskedFromHeld, FromHeld
<1>13. PageOf(m, sub) => PageOf(captured, sub) /\ m = captured BY <1>4 DEF PageOf
<1>14. Follows(sub, captured, toServer)'
  <2>1. ASSUME sub # NoSub
        PROVE  \A i \in 1 .. Len(toClient') :
                  PageOf(toClient'[i], sub) /\ sub.cursor # None =>
                      sub.cursor <= toClient'[i].page.from
    <3>1. \A i \in 1 .. l : PageOf(toClient[i], sub) /\ sub.cursor # None =>
                               sub.cursor <= toClient[i].page.from
      BY <1>0, <2>1 DEF Follows, l
    <3>2. PageOf(m, sub) /\ sub.cursor # None => sub.cursor <= m.page.from
      BY <1>0, <1>13, <2>1 DEF Follows
    <3> QED BY <1>5, <3>1, <3>2
  <2> QED BY <1>0, <1>1, <2>1 DEF Follows, PageOf, AckOf, NoSub
<1>15. InOnePlace(sub, captured, toServer)'
  <2> DEFINE sent(i) == i \in 1 .. Len(toClient') /\ PageOf(toClient'[i], sub)
  <2> SUFFICES ASSUME sub # NoSub
               PROVE  /\ sub.pending = None =>
                            ~Staged(sub) /\ \A i \in Nat : ~sent(i) /\ ~Acked(i, sub, toServer)
                      /\ Staged(sub) => \A i \in Nat : ~sent(i) /\ ~Acked(i, sub, toServer)
                      /\ \A i, j \in Nat : sent(i) => ~Acked(j, sub, toServer)
                      /\ \A i, j \in Nat : sent(i) /\ sent(j) => i = j
                      /\ \A i, j \in Nat :
                            Acked(i, sub, toServer) /\ Acked(j, sub, toServer) => i = j
    BY <1>1 DEF InOnePlace, Held, Staged, Sent, Acked, PageOf, AckOf, NoSub
  <2>1. \A i \in Nat : sent(i) => Sent(i, sub) \/ (i = l + 1 /\ Held(sub, captured))
    BY <1>0, <1>5, <1>13 DEF Sent, Held, l
  <2> HIDE DEF sent
  <2> QED BY <1>0, <2>1 DEF InOnePlace
<1> QED BY <1>6, <1>7, <1>8, <1>9, <1>10, <1>11, <1>12, <1>14, <1>15 DEF ServerInv

(***************************************************************************)
(* The journal, its retention, sharing and the connection.                 *)
(***************************************************************************)
LEMMA AppendRecordStep ==
    ASSUME RInv, NEW k \in Records, AppendRecord(k)
    PROVE  RInv'
<1> USE DEF RInv
<1>0. /\ TypeOK /\ PagesExact /\ Down /\ CopyExact
      /\ CursorsInJournal(sub, toServer) /\ Numbered(newest, sub, captured, toServer)
      /\ AskedFromHeld(sub, captured, toServer) /\ Follows(sub, captured, toServer)
      /\ InOnePlace(sub, captured, toServer)
  BY DEF ServerInv
<1>1. /\ journal' = Append(journal, k)
      /\ UNCHANGED <<pruned, access, up, conn, newest, sub, captured, toServer, toClient,
                     client, applying, projection, faults>>
  BY DEF AppendRecord, server, host
<1>2. /\ journal' \in Seq(Records) /\ Len(journal) \in Nat /\ Len(journal') = Len(journal) + 1
      /\ \A i \in 1 .. Len(journal) : journal'[i] = journal[i]
  BY <1>0, <1>1, AppendFacts DEF TypeOK
<1>3. TypeOK' BY <1>0, <1>1, <1>2 DEF TypeOK
<1>4. /\ sub \in Subs /\ client \in Clients /\ toServer \in Seq(Commands)
      /\ toClient \in Seq(Responses) /\ captured \in Responses \cup {None}
      /\ applying \subseteq Tokens
  BY <1>0 DEF TypeOK
<1> DEFINE exact(p) == /\ p.from <= p.through /\ p.through <= Len(journal')
                       /\ p.events = {i \in p.from + 1 .. p.through : journal'[i] = "shown"}
           response(m) == exact(m.page) /\ (m.kind = "snapshot" => m.page.from = 0)
<1>5. ASSUME NEW p \in Pages, Exact(p) PROVE exact(p)
  <2>1. p.from \in Nat /\ p.through \in Nat /\ p.from <= p.through /\ p.through <= Len(journal)
    BY <1>5 DEF Exact, Pages
  <2>2. \A i \in p.from + 1 .. p.through : journal'[i] = journal[i] BY <1>2, <2>1
  <2>3. p.through <= Len(journal') BY <1>2, <2>1
  <2> QED BY <1>5, <2>1, <2>2, <2>3 DEF Exact
<1>6. PagesExact'
  <2> HIDE DEF exact
  <2>1. \A m \in Responses : ExactResponse(m) => response(m)
    BY <1>5 DEF ExactResponse, Responses
  <2>2. captured # None => response(captured)
    BY <1>0, <1>4, <2>1 DEF PagesExact
  <2>3. \A i \in 1 .. Len(toClient) : response(toClient[i])
    BY <1>0, <1>4, <2>1, ResponseTypes DEF PagesExact
  <2>4. \A x \in Tokens : Exact(x.page) => exact(x.page) BY <1>5 DEF Tokens
  <2>5. \A x \in applying : exact(x.page) BY <1>0, <1>4, <2>4 DEF PagesExact
  <2>6. client.pending # None => client.pending \in Tokens BY <1>4 DEF Clients
  <2>7. client.pending # None => exact(client.pending.page)
    BY <1>0, <2>4, <2>6 DEF PagesExact
  <2>8. projection \subseteq 1 .. Len(journal') BY <1>0, <1>2 DEF PagesExact
  <2> QED BY <1>1, <2>2, <2>3, <2>5, <2>7, <2>8 DEF PagesExact, ExactResponse, Exact, exact
<1>7. Down' BY <1>0, <1>1 DEF Down, NoSub
<1>8. client.cursor \in Nat /\ client.cursor <= Len(journal)
  BY <1>0, <1>4 DEF CursorsInJournal, Clients
<1>9. CopyExact'
  <2>1. \A i \in 1 .. client.cursor : journal'[i] = journal[i] BY <1>2, <1>8
  <2>2. \A i \in projection : journal'[i] = journal[i] BY <1>0, <1>2 DEF PagesExact
  <2> QED BY <1>0, <1>1, <2>1, <2>2 DEF CopyExact
<1>10. CursorsInJournal(sub, toServer)'
  <2>1. \A x \in Nat : x <= Len(journal) => x <= Len(journal') BY <1>2
  <2>2. SubInJournal(sub)' BY <1>0, <1>1, <1>4, <2>1 DEF CursorsInJournal, SubInJournal, Subs
  <2>3. \A i \in 1 .. Len(toServer) : toServer[i].type = "subscribe" =>
            (toServer[i].after # None => toServer[i].after \in Nat)
    <3>1. \A i \in 1 .. Len(toServer) : toServer[i] \in Commands BY <1>4
    <3> QED BY <3>1, CommandTypes
  <2>4. \A i \in 1 .. Len(toServer) : toServer[i].type = "subscribe" =>
            (toServer[i].after # None => toServer[i].after <= Len(journal'))
    BY <1>0, <2>1, <2>3 DEF CursorsInJournal
  <2> QED BY <1>1, <1>8, <2>1, <2>2, <2>4 DEF CursorsInJournal
<1>11. Numbered(newest, sub, captured, toServer)'
  BY <1>0, <1>1 DEF Numbered, Answers, NoSub
<1>12. AskedFromHeld(sub, captured, toServer)' BY <1>0, <1>1 DEF AskedFromHeld, FromHeld
<1>13. Follows(sub, captured, toServer)'
  BY <1>0, <1>1 DEF Follows, PageOf, AckOf, NoSub
<1>14. InOnePlace(sub, captured, toServer)'
  BY <1>0, <1>1 DEF InOnePlace, Held, Sent, Staged, Acked, PageOf, AckOf, NoSub
<1> QED BY <1>3, <1>6, <1>7, <1>9, <1>10, <1>11, <1>12, <1>13, <1>14 DEF ServerInv

(* What the invariant does not speak of. *)
LEMMA FrameKeeps ==
    ASSUME RInv, pruned' \in Nat, access' \in BOOLEAN, faults' \in Nat,
           UNCHANGED <<journal, up, conn, newest, sub, captured, toServer, toClient, client,
                       applying, projection>>
    PROVE  RInv'
<1> USE DEF RInv
<1>1. TypeOK' BY DEF TypeOK
<1>2. PagesExact' BY DEF PagesExact, ExactResponse, Exact
<1>3. Down' BY DEF Down, NoSub
<1>4. CopyExact' BY DEF CopyExact
<1>5. CursorsInJournal(sub, toServer)' BY DEF ServerInv, CursorsInJournal, SubInJournal
<1>6. Numbered(newest, sub, captured, toServer)' BY DEF ServerInv, Numbered, Answers, NoSub
<1>7. AskedFromHeld(sub, captured, toServer)' BY DEF ServerInv, AskedFromHeld, FromHeld
<1>8. Follows(sub, captured, toServer)' BY DEF ServerInv, Follows, PageOf, AckOf, NoSub
<1>9. InOnePlace(sub, captured, toServer)'
  BY DEF ServerInv, InOnePlace, Held, Sent, Staged, Acked, PageOf, AckOf, NoSub
<1> QED BY <1>1, <1>2, <1>3, <1>4, <1>5, <1>6, <1>7, <1>8, <1>9 DEF ServerInv

LEMMA FaultCount ==
    ASSUME TypeOK, Fault
    PROVE  faults' \in Nat
BY DEF TypeOK, Fault

LEMMA PruneStep ==
    ASSUME RInv, Prune
    PROVE  RInv'
<1>1. pruned' \in Nat BY DEF RInv, TypeOK, Prune, event_sequence
<1>2. faults' \in Nat BY FaultCount DEF RInv, Prune
<1>3. access' \in BOOLEAN BY DEF RInv, TypeOK, Prune
<1>4. UNCHANGED <<journal, up, conn, newest, sub, captured, toServer, toClient, client,
                  applying, projection>>
  BY DEF Prune, server, host
<1> QED BY <1>1, <1>2, <1>3, <1>4, FrameKeeps

LEMMA ShareStep ==
    ASSUME RInv, Share
    PROVE  RInv'
<1>1. pruned' \in Nat BY DEF RInv, TypeOK, Share
<1>2. faults' \in Nat BY FaultCount DEF RInv, Share
<1>3. access' \in BOOLEAN BY Zenon DEF RInv, TypeOK, Share
<1>4. UNCHANGED <<journal, up, conn, newest, sub, captured, toServer, toClient, client,
                  applying, projection>>
  BY DEF Share, server, host
<1> QED BY <1>1, <1>2, <1>3, <1>4, FrameKeeps

LEMMA ConnectStep ==
    ASSUME RInv, Connect
    PROVE  RInv'
<1> USE DEF RInv
<1>0. /\ TypeOK /\ PagesExact /\ CopyExact
      /\ CursorsInJournal(sub, toServer) /\ Numbered(newest, sub, captured, toServer)
      /\ client.asked = 0 /\ sub = NoSub /\ captured = None /\ toServer = <<>> /\ toClient = <<>>
  BY DEF ServerInv, Connect, Down
<1>1. /\ up' = TRUE /\ conn' = conn + 1
      /\ UNCHANGED <<journal, pruned, access, newest, sub, captured, toServer, toClient,
                     client, applying, projection, faults>>
  BY DEF Connect, host
<1>2. TypeOK' BY <1>0, <1>1 DEF TypeOK
<1>3. PagesExact' BY <1>0, <1>1 DEF PagesExact, ExactResponse, Exact
<1>4. Down' BY <1>1 DEF Down
<1>5. CopyExact' BY <1>0, <1>1 DEF CopyExact
<1>6. CursorsInJournal(sub, toServer)' BY <1>0, <1>1 DEF CursorsInJournal, SubInJournal
<1>7. sub' = NoSub /\ NoSub' = NoSub /\ client'.asked = 0 /\ Len(toServer') = 0
      /\ Len(toClient') = 0 /\ captured' = None
  BY <1>0, <1>1 DEF NoSub
<1>8. Numbered(newest, sub, captured, toServer)' BY <1>0, <1>1, <1>7 DEF Numbered
<1>9. AskedFromHeld(sub, captured, toServer)' BY <1>7 DEF AskedFromHeld
<1> QED BY <1>2, <1>3, <1>4, <1>5, <1>6, <1>7, <1>8, <1>9 DEF ServerInv, Follows, InOnePlace

LEMMA DisconnectStep ==
    ASSUME RInv, Disconnect
    PROVE  RInv'
<1> USE DEF RInv
<1>0. /\ TypeOK /\ PagesExact /\ CopyExact
      /\ CursorsInJournal(sub, toServer) /\ Numbered(newest, sub, captured, toServer)
      /\ client \in Clients
  BY DEF ServerInv, TypeOK
<1>1. /\ up' = FALSE /\ newest' = 0 /\ sub' = NoSub /\ captured' = None
      /\ toServer' = <<>> /\ toClient' = <<>> /\ client' = [client EXCEPT !.asked = 0]
      /\ UNCHANGED <<journal, pruned, access, conn, applying, projection>>
  BY DEF Disconnect
<1>2. /\ client' \in Clients /\ client'.asked = 0 /\ client'.cursor = client.cursor
      /\ client'.req = client.req /\ client'.last = client.last
      /\ client'.pending = client.pending
  BY <1>0, <1>1 DEF Clients
<1>3. faults' \in Nat BY <1>0, FaultCount DEF Disconnect
<1>4. NoSub' = NoSub /\ Len(toServer') = 0 /\ Len(toClient') = 0 BY <1>1 DEF NoSub
<1>5. TypeOK'
  <2>1. \A S : <<>> \in Seq(S) OBVIOUS
  <2>2. toServer' \in Seq(Commands) /\ toClient' \in Seq(Responses) /\ 0 \in Nat
    BY <1>1, <2>1
  <2>3. sub' \in Subs BY <1>1, NoSubFields
  <2> QED BY <1>0, <1>1, <1>2, <1>3, <2>2, <2>3 DEF TypeOK
<1>6. PagesExact' BY <1>0, <1>1, <1>2, <1>4 DEF PagesExact, Exact
<1>7. Down' BY <1>1, <1>2, <1>4 DEF Down
<1>8. CopyExact' BY <1>0, <1>1, <1>2 DEF CopyExact
<1>9. CursorsInJournal(sub, toServer)'
  BY <1>0, <1>1, <1>2, <1>4, NoSubFields DEF CursorsInJournal, SubInJournal
<1>10. Numbered(newest, sub, captured, toServer)'
  <2>1. client.last \in Nat BY <1>0 DEF Clients
  <2> QED BY <1>0, <1>1, <1>2, <1>4, <2>1 DEF Numbered
<1>11. AskedFromHeld(sub, captured, toServer)' BY <1>2 DEF AskedFromHeld
<1> QED BY <1>1, <1>4, <1>5, <1>6, <1>7, <1>8, <1>9, <1>10, <1>11
      DEF ServerInv, Follows, InOnePlace

(***************************************************************************)
(* The steps of the client.                                                *)
(***************************************************************************)
LEMMA AskStep ==
    ASSUME RInv, up, NEW after \in Nat \cup {None}, after # None => after = client.cursor,
           NEW live \in BOOLEAN, Ask(after, live), faults' \in Nat
    PROVE  RInv'
<1> DEFINE c == [type |-> "subscribe", req |-> client.last + 1, after |-> after, live |-> live]
           l == Len(toServer)
<1> USE DEF RInv
<1>0. /\ TypeOK /\ PagesExact /\ CopyExact
      /\ CursorsInJournal(sub, toServer) /\ Numbered(newest, sub, captured, toServer)
      /\ Follows(sub, captured, toServer) /\ InOnePlace(sub, captured, toServer)
  BY DEF ServerInv
<1>1. /\ client' = [client EXCEPT !.last = @ + 1, !.asked = client.last + 1, !.live = live,
                                  !.snapshot = (after = None)]
      /\ toServer' = Append(toServer, c)
      /\ UNCHANGED <<journal, pruned, access, up, conn, newest, sub, captured, toClient,
                     applying, projection>>
  BY DEF Ask, server
<1>2. /\ client \in Clients /\ client.last \in Nat /\ client.req \in Nat /\ client.cursor \in Nat
      /\ toServer \in Seq(Commands) /\ toClient \in Seq(Responses) /\ newest \in Nat
      /\ sub \in Subs /\ sub.req \in Nat
  BY <1>0 DEF TypeOK, Clients, Subs
<1>3. /\ client' \in Clients /\ client'.last = client.last + 1 /\ client'.asked = client.last + 1
      /\ client'.req = client.req /\ client'.conn = client.conn
      /\ client'.cursor = client.cursor /\ client'.pending = client.pending
  <2> DEFINE b == (after = None)
  <2>1. b \in BOOLEAN /\ client.last + 1 \in Nat BY <1>2
  <2>2. client' = [client EXCEPT !.last = client.last + 1, !.asked = client.last + 1,
                                 !.live = live, !.snapshot = b]
    BY <1>1
  <2> HIDE DEF b
  <2> QED BY <1>2, <2>1, <2>2 DEF Clients
<1>4. /\ c \in Commands /\ c.type = "subscribe" /\ c.req = client.last + 1 /\ c.after = after
  BY <1>2 DEF Commands, Subscribes
<1> HIDE DEF c
<1>5. /\ toServer' \in Seq(Commands) /\ l \in Nat /\ Len(toServer') = l + 1
      /\ \A i \in 1 .. l : i # l + 1 /\ toServer'[i] = toServer[i]
      /\ \A i \in 1 .. l + 1 : i \in 1 .. l \/ i = l + 1
      /\ toServer'[l + 1] = c
  BY <1>1, <1>2, <1>4, AppendFacts
<1>6. \A i \in 1 .. l : toServer[i] \in Commands /\ toServer[i].req \in Nat
  <2>1. \A i \in 1 .. l : toServer[i] \in Commands BY <1>2
  <2> QED BY <2>1, CommandTypes
<1>7. \A i \in 1 .. Len(toClient) : toClient[i].req \in Nat BY <1>2, ResponseTypes
<1>8. captured # None => captured.req \in Nat BY <1>0 DEF TypeOK, Responses
<1> HIDE DEF l
<1>9. TypeOK' BY <1>0, <1>1, <1>3, <1>5 DEF TypeOK
<1>10. PagesExact' BY <1>0, <1>1, <1>3 DEF PagesExact, ExactResponse, Exact
<1>11. Down' BY <1>1 DEF Down
<1>12. CopyExact' BY <1>0, <1>1, <1>3 DEF CopyExact
<1>13. CursorsInJournal(sub, toServer)'
  <2>1. \A i \in 1 .. l : toServer[i].type = "subscribe" =>
            (toServer[i].after # None => toServer[i].after <= Len(journal))
    BY <1>0 DEF CursorsInJournal, l
  <2>2. c.after # None => c.after <= Len(journal) BY <1>0, <1>4 DEF CursorsInJournal
  <2>3. \A i \in 1 .. Len(toServer') : toServer'[i].type = "subscribe" =>
            (toServer'[i].after # None => toServer'[i].after <= Len(journal))
    BY <1>5, <2>1, <2>2
  <2> QED BY <1>0, <1>1, <1>3, <2>3 DEF CursorsInJournal, SubInJournal
<1>14. Numbered(newest, sub, captured, toServer)'
  <2>1. \A i \in 1 .. l :
          /\ toServer[i].type = "subscribe" =>
                newest < toServer[i].req /\ client.req < toServer[i].req
                /\ toServer[i].req <= client.last
          /\ toServer[i].type = "ack" => toServer[i].req <= client.req
    BY <1>0 DEF Numbered, l
  <2>2. newest < c.req /\ client.req < c.req /\ c.req <= client'.last /\ c.type # "ack"
    BY <1>0, <1>2, <1>3, <1>4 DEF Numbered
  <2>3. \A i \in 1 .. l : toServer[i].type = "subscribe" =>
            toServer[i].req <= client'.last /\ toServer[i].req < c.req
    BY <1>2, <1>3, <1>4, <1>6, <2>1
  <2>4. \A i \in 1 .. Len(toServer') :
          /\ toServer'[i].type = "subscribe" =>
                newest < toServer'[i].req /\ client.req < toServer'[i].req
                /\ toServer'[i].req <= client'.last
          /\ toServer'[i].type = "ack" => toServer'[i].req <= client.req
    BY <1>5, <2>1, <2>2, <2>3
  <2>5. \A i, j \in 1 .. Len(toServer') :
          i < j /\ toServer'[i].type = "subscribe" /\ toServer'[j].type = "subscribe"
              => toServer'[i].req < toServer'[j].req
    <3>1. \A i, j \in 1 .. l :
            i < j /\ toServer[i].type = "subscribe" /\ toServer[j].type = "subscribe"
                => toServer[i].req < toServer[j].req
      BY <1>0 DEF Numbered, l
    <3>2. \A i \in 1 .. l + 1 : ~(l + 1 < i) BY <1>5
    <3> QED BY <1>5, <2>3, <3>1, <3>2
  <2>6. client.req # client'.asked /\ client'.req <= client'.last /\ newest <= client'.last
    BY <1>0, <1>2, <1>3 DEF Numbered
  <2> QED BY <1>0, <1>1, <1>3, <2>4, <2>5, <2>6 DEF Numbered, Answers, NoSub
<1>15. AskedFromHeld(sub, captured, toServer)'
  <2>1. \A i \in 1 .. l : toServer[i].type = "subscribe" => toServer[i].req # client'.asked
    BY <1>0, <1>2, <1>3, <1>6 DEF Numbered, l
  <2>2. \A i \in 1 .. Len(toServer') :
          toServer'[i].type = "subscribe" /\ toServer'[i].req = client'.asked =>
              (toServer'[i].after # None => toServer'[i].after <= client.cursor)
    <3>1. c.after # None => c.after <= client.cursor BY <1>2, <1>4
    <3> QED BY <1>5, <2>1, <3>1
  <2>3. sub.req # client'.asked
    BY <1>0, <1>2, <1>3, NoSubFields DEF Numbered
  <2>4. captured # None => captured.req # client'.asked
    BY <1>0, <1>2, <1>3, <1>8 DEF Numbered, Answers
  <2>5. \A i \in 1 .. Len(toClient) : toClient[i].req # client'.asked
    BY <1>0, <1>2, <1>3, <1>7 DEF Numbered, Answers
  <2> QED BY <1>1, <1>3, <2>2, <2>3, <2>4, <2>5 DEF AskedFromHeld, FromHeld
<1>16. ~AckOf(c, sub) BY <1>4 DEF AckOf
<1>17. Follows(sub, captured, toServer)'
  <2>1. \A i \in 1 .. Len(toServer') :
           AckOf(toServer'[i], sub) => i \in 1 .. l /\ toServer'[i] = toServer[i]
    BY <1>5, <1>16
  <2> QED BY <1>0, <1>1, <1>3, <2>1 DEF Follows, PageOf, AckOf, NoSub, l
<1>18. InOnePlace(sub, captured, toServer)'
  <2>1. \A i \in Nat : Acked(i, sub, toServer)' <=> Acked(i, sub, toServer)
    BY <1>1, <1>5, <1>16 DEF Acked, AckOf, l
  <2>2. \A i \in Nat : Sent(i, sub)' <=> Sent(i, sub) BY <1>1 DEF Sent, PageOf
  <2>3. Held(sub, captured)' <=> Held(sub, captured) BY <1>1 DEF Held, PageOf
  <2>4. Staged(sub)' <=> Staged(sub) BY <1>1, <1>3 DEF Staged
  <2>5. NoSub' = NoSub /\ sub' = sub BY <1>1 DEF NoSub
  <2> QED BY <1>0, <2>1, <2>2, <2>3, <2>4, <2>5 DEF InOnePlace
<1> QED BY <1>9, <1>10, <1>11, <1>12, <1>13, <1>14, <1>15, <1>17, <1>18 DEF ServerInv

LEMMA SubscribeStep ==
    ASSUME RInv, Subscribe
    PROVE  RInv'
<1>1. resume \in Nat \cup {None} /\ (resume # None => resume = client.cursor)
  BY DEF resume, RInv, TypeOK, Clients
<1>2. up /\ Ask(resume, TRUE) /\ faults' \in Nat BY DEF Subscribe, RInv, TypeOK
<1> QED BY <1>1, <1>2, AskStep

LEMMA AskAnewStep ==
    ASSUME RInv, AskAnew
    PROVE  RInv'
<1>1. resume \in Nat \cup {None} /\ (resume # None => resume = client.cursor)
  BY DEF resume, RInv, TypeOK, Clients
<1>2. up /\ faults' \in Nat BY FaultCount DEF AskAnew, RInv
<1>3. Ask(resume, TRUE) \/ Ask(None, FALSE) \/ Ask(resume, FALSE) BY DEF AskAnew
<1>4. TRUE \in BOOLEAN /\ FALSE \in BOOLEAN /\ None \in Nat \cup {None} OBVIOUS
<1> QED BY <1>1, <1>2, <1>3, <1>4, AskStep

LEMMA UnsubscribeStep ==
    ASSUME RInv, Unsubscribe
    PROVE  RInv'
<1> DEFINE c == [type |-> "unsubscribe", req |-> client.asked]
           l == Len(toServer)
<1> USE DEF RInv
<1>0. /\ TypeOK /\ PagesExact /\ CopyExact /\ up
      /\ CursorsInJournal(sub, toServer) /\ Numbered(newest, sub, captured, toServer)
      /\ Follows(sub, captured, toServer) /\ InOnePlace(sub, captured, toServer)
  BY DEF ServerInv, Unsubscribe
<1>1. /\ client' = [client EXCEPT !.asked = 0] /\ toServer' = Append(toServer, c)
      /\ UNCHANGED <<journal, pruned, access, up, conn, newest, sub, captured, toClient,
                     applying, projection>>
  BY DEF Unsubscribe, server
<1>2. faults' \in Nat BY <1>0, FaultCount DEF Unsubscribe
<1>3. client \in Clients /\ client.asked \in Nat /\ toServer \in Seq(Commands)
  BY <1>0 DEF TypeOK, Clients
<1>4. /\ client' \in Clients /\ client'.asked = 0 /\ client'.last = client.last
      /\ client'.req = client.req /\ client'.conn = client.conn
      /\ client'.cursor = client.cursor /\ client'.pending = client.pending
  BY <1>1, <1>3 DEF Clients
<1>5. c \in Commands /\ c.type = "unsubscribe" BY <1>3 DEF Commands, Unsubscribes
<1> HIDE DEF c
<1>6. /\ toServer' \in Seq(Commands) /\ l \in Nat /\ Len(toServer') = l + 1
      /\ \A i \in 1 .. l : i # l + 1 /\ toServer'[i] = toServer[i]
      /\ \A i \in 1 .. l + 1 : i \in 1 .. l \/ i = l + 1
      /\ toServer'[l + 1] = c
  BY <1>1, <1>3, <1>5, AppendFacts
<1>7. \A i \in 1 .. Len(toServer') : toServer'[i].type \in {"subscribe", "ack"} =>
          i \in 1 .. l /\ toServer'[i] = toServer[i]
  <2>1. c.type \notin {"subscribe", "ack"} BY <1>5
  <2> QED BY <1>6, <2>1
<1>8. TypeOK' BY <1>0, <1>1, <1>2, <1>4, <1>6 DEF TypeOK
<1>9. PagesExact' BY <1>0, <1>1, <1>4 DEF PagesExact, ExactResponse, Exact
<1>10. Down' BY <1>0, <1>1 DEF Down
<1>11. CopyExact' BY <1>0, <1>1, <1>4 DEF CopyExact
<1>12. CursorsInJournal(sub, toServer)'
  BY <1>0, <1>1, <1>4, <1>7 DEF CursorsInJournal, SubInJournal
<1>13. Numbered(newest, sub, captured, toServer)'
  BY <1>0, <1>1, <1>4, <1>7 DEF Numbered, Answers, NoSub
<1>14. AskedFromHeld(sub, captured, toServer)' BY <1>4 DEF AskedFromHeld
<1>15. Follows(sub, captured, toServer)'
  BY <1>0, <1>1, <1>4, <1>7 DEF Follows, PageOf, AckOf, NoSub
<1>16. InOnePlace(sub, captured, toServer)'
  <2>1. \A i \in Nat : Acked(i, sub, toServer)' <=> Acked(i, sub, toServer)
    BY <1>1, <1>6, <1>7 DEF Acked, AckOf
  <2>2. \A i \in Nat : Sent(i, sub)' <=> Sent(i, sub) BY <1>1 DEF Sent, PageOf
  <2>3. Held(sub, captured)' <=> Held(sub, captured) BY <1>1 DEF Held, PageOf
  <2>4. Staged(sub)' <=> Staged(sub) BY <1>1, <1>4 DEF Staged
  <2>5. NoSub' = NoSub /\ sub' = sub BY <1>1 DEF NoSub
  <2> QED BY <1>0, <2>1, <2>2, <2>3, <2>4, <2>5 DEF InOnePlace
<1> QED BY <1>8, <1>9, <1>10, <1>11, <1>12, <1>13, <1>14, <1>15, <1>16 DEF ServerInv

(* A first answer continues what the client holds. *)
LEMMA ReceivePageFacts ==
    ASSUME RInv, toClient # <<>>, NEW m, m = Head(toClient), ReceivePage(m)
    PROVE  /\ m \in Responses /\ m.kind \in PageKinds /\ m.req = client.asked
           /\ 0 < m.req /\ m.req <= newest /\ m.conn = conn
           /\ client' \in Clients /\ client'.conn = m.conn /\ client'.req = m.req
           /\ client'.cursor = m.page.from /\ client'.asked = client.asked
           /\ client'.last = client.last
           /\ client'.pending \in Tokens /\ client'.pending.page = m.page
           /\ applying' = applying \cup {client'.pending}
           /\ m.kind # "snapshot" => m.page.from <= client.cursor
<1> DEFINE r == replace(m)
<1> USE DEF RInv
<1>0. /\ TypeOK /\ Numbered(newest, sub, captured, toServer) /\ client \in Clients
      /\ AskedFromHeld(sub, captured, toServer) /\ toClient \in Seq(Responses)
  BY DEF ServerInv, TypeOK
<1>1. m \in Responses /\ m = toClient[1] /\ 1 \in 1 .. Len(toClient) BY <1>0, TailFacts
<1>2. m.req \in Nat /\ m.conn \in Nat /\ m.page \in Pages /\ m.page.from \in Nat
  BY <1>1 DEF Responses, Pages
<1>3. /\ m.kind \in PageKinds /\ m.req = client.asked /\ r.pending = None
      /\ m.page.from = r.cursor /\ stage(r, m.page)
  BY DEF ReceivePage, PageKinds, stageable
<1>4. 0 < m.req /\ m.req <= newest /\ m.conn = conn BY <1>0, <1>1 DEF Numbered, Answers
<1>5. /\ r \in Clients /\ r.conn = m.conn /\ r.req = m.req /\ r.asked = client.asked
      /\ r.last = client.last
      /\ client.conn = m.conn /\ client.req = m.req => r = client
  <2>1. CASE client.conn = m.conn /\ client.req = m.req BY <1>0, <2>1 DEF replace
  <2>2. CASE ~(client.conn = m.conn /\ client.req = m.req)
    <3>1. r = [client EXCEPT !.conn = m.conn, !.req = m.req, !.cursor = m.page.from,
                             !.pending = None]
      BY <2>2 DEF replace
    <3> HIDE DEF r
    <3> QED BY <3>1, <1>0, <1>2, <2>2 DEF Clients
  <2> QED BY <2>1, <2>2
<1> HIDE DEF r
<1>6. token(r, m.page) \in Tokens /\ token(r, m.page).page = m.page
  BY <1>2, <1>5 DEF token, Tokens, Clients
<1>7. /\ client' = [r EXCEPT !.attempt = @ + 1, !.pending = token(r, m.page)]
      /\ applying' = applying \cup {token(r, m.page)}
  BY <1>3 DEF stage
<1>8. /\ client' \in Clients /\ client'.conn = m.conn /\ client'.req = m.req
      /\ client'.cursor = m.page.from /\ client'.asked = client.asked
      /\ client'.last = client.last /\ client'.pending = token(r, m.page)
  <2> DEFINE k == token(r, m.page)
  <2> HIDE DEF k
  <2>1. k \in Tokens BY <1>6 DEF k
  <2>2. client' = [r EXCEPT !.attempt = @ + 1, !.pending = k] BY <1>7 DEF k
  <2>3. /\ client' \in Clients /\ client'.conn = r.conn /\ client'.req = r.req
        /\ client'.cursor = r.cursor /\ client'.asked = r.asked
        /\ client'.last = r.last /\ client'.pending = k
    <3> DEFINE n == r.attempt + 1
    <3>1. r \in Clients BY <1>5
    <3>2. n \in Nat BY <3>1 DEF Clients
    <3>3. client' = [r EXCEPT !.attempt = n, !.pending = k] BY <2>2
    <3> HIDE DEF n
    <3> QED BY <2>1, <3>1, <3>2, <3>3 DEF Clients
  <2> QED BY <1>3, <1>5, <2>3 DEF k
<1>9. m.kind # "snapshot" => m.page.from <= client.cursor
  <2> SUFFICES ASSUME m.kind # "snapshot" PROVE m.page.from <= client.cursor OBVIOUS
  <2>1. m.kind = "replay" /\ client.asked # 0 BY <1>2, <1>3, <1>4 DEF PageKinds
  <2>2. CASE client.req = client.asked
    <3>1. client.conn = m.conn BY <1>0, <1>4, <2>1, <2>2 DEF Numbered
    <3>2. r = client BY <1>3, <1>5, <2>2, <3>1
    <3> QED BY <1>2, <1>3, <3>2
  <2>3. CASE client.req # client.asked
    BY <1>0, <1>1, <1>3, <2>1, <2>3 DEF AskedFromHeld, FromHeld
  <2> QED BY <2>2, <2>3
<1> QED BY <1>1, <1>3, <1>4, <1>6, <1>7, <1>8, <1>9

LEMMA ReceivePageStep ==
    ASSUME RInv, toClient # <<>>, NEW m, m = Head(toClient), ReceivePage(m),
           toClient' = Tail(toClient),
           UNCHANGED <<journal, pruned, access, server, toServer, faults>>
    PROVE  RInv'
<1> DEFINE l == Len(toClient)
<1> USE DEF RInv
<1>0. /\ TypeOK /\ PagesExact /\ Down /\ CopyExact
      /\ CursorsInJournal(sub, toServer) /\ Numbered(newest, sub, captured, toServer)
      /\ Follows(sub, captured, toServer) /\ InOnePlace(sub, captured, toServer)
      /\ toClient \in Seq(Responses) /\ client \in Clients
      /\ sub \in Subs /\ newest \in Nat /\ toServer \in Seq(Commands)
  BY DEF ServerInv, TypeOK
<1>1. UNCHANGED <<journal, pruned, access, up, conn, newest, sub, captured, toServer, faults>>
  BY DEF server
<1>2. /\ m \in Responses /\ m.kind \in PageKinds /\ m.req = client.asked
      /\ 0 < m.req /\ m.req <= newest /\ m.conn = conn
      /\ client' \in Clients /\ client'.conn = m.conn /\ client'.req = m.req
      /\ client'.cursor = m.page.from /\ client'.asked = client.asked
      /\ client'.last = client.last
      /\ client'.pending \in Tokens /\ client'.pending.page = m.page
      /\ applying' = applying \cup {client'.pending}
      /\ m.kind # "snapshot" => m.page.from <= client.cursor
  BY ReceivePageFacts
<1>3. projection' = IF m.kind = "snapshot" THEN {} ELSE projection BY DEF ReceivePage
<1>4. /\ toClient' \in Seq(Responses) /\ Len(toClient') \in Nat /\ m = toClient[1]
      /\ \A i \in 1 .. Len(toClient') : i + 1 \in 1 .. l /\ toClient'[i] = toClient[i + 1]
      /\ 1 \in 1 .. l
  BY <1>0, TailFacts
<1>5. ExactResponse(m) BY <1>0, <1>4 DEF PagesExact
<1>6. m.req \in Nat /\ m.page \in Pages /\ m.page.from \in Nat /\ m.page.through \in Nat
  BY <1>2 DEF Responses, Pages
<1>7. client.asked = client.last /\ client.req <= m.req /\ client.req \in Nat
  BY <1>0, <1>2, <1>6 DEF Numbered, Clients
<1> HIDE DEF l
<1>8. TypeOK'
  <2>1. projection' \subseteq Nat BY <1>0, <1>3 DEF TypeOK
  <2> QED BY <1>0, <1>1, <1>2, <1>4, <2>1 DEF TypeOK
<1>9. PagesExact'
  <2>1. \A i \in 1 .. Len(toClient') : ExactResponse(toClient'[i])
    BY <1>0, <1>4 DEF PagesExact, l
  <2>2. Exact(client'.pending.page) BY <1>2, <1>5 DEF ExactResponse
  <2>3. \A k \in applying' : Exact(k.page) BY <1>0, <1>2, <2>2 DEF PagesExact
  <2>4. projection' \subseteq 1 .. Len(journal) BY <1>0, <1>3 DEF PagesExact
  <2> QED BY <1>0, <1>1, <2>1, <2>2, <2>3, <2>4 DEF PagesExact, ExactResponse, Exact
<1>10. Down'
  <2>1. up BY <1>4, <1>0 DEF Down, l
  <2> QED BY <1>1, <2>1 DEF Down
<1>11. CopyExact'
  <2>1. CASE m.kind = "snapshot"
    <3>1. client'.cursor = 0 /\ projection' = {}
      BY <1>2, <1>3, <1>5, <2>1 DEF ExactResponse
    <3> QED BY <3>1 DEF CopyExact
  <2>2. CASE m.kind # "snapshot"
    <3>1. projection' = projection BY <1>3, <2>2
    <3>2. client.cursor \in Nat BY <1>0 DEF Clients
    <3>3. \A i \in 1 .. m.page.from : i \in 1 .. client.cursor BY <1>2, <1>6, <2>2, <3>2
    <3> QED BY <1>0, <1>1, <1>2, <3>1, <3>3 DEF CopyExact
  <2> QED BY <2>1, <2>2
<1>12. CursorsInJournal(sub, toServer)'
  <2>1. m.page.from <= Len(journal)
    <3>1. Len(journal) \in Nat BY <1>0 DEF TypeOK
    <3> QED BY <1>5, <1>6, <3>1 DEF ExactResponse, Exact
  <2> QED BY <1>0, <1>1, <1>2, <2>1 DEF CursorsInJournal, SubInJournal
<1>13. \A i \in 1 .. Len(toServer) : toServer[i].req \in Nat
  <2>1. \A i \in 1 .. Len(toServer) : toServer[i] \in Commands BY <1>0
  <2> QED BY <2>1, CommandTypes
<1>14. Numbered(newest, sub, captured, toServer)'
  <2>1. \A i \in 1 .. Len(toServer) :
          /\ toServer[i].type = "subscribe" => m.req < toServer[i].req
          /\ toServer[i].type = "ack" => toServer[i].req <= m.req
    BY <1>0, <1>2, <1>6, <1>7, <1>13 DEF Numbered
  <2>2. \A i \in 1 .. Len(toClient') : Answers(toClient'[i], newest, sub)
    BY <1>0, <1>4 DEF Numbered, l
  <2>3. m.req <= client'.last BY <1>2, <1>6, <1>7
  <2> QED BY <1>0, <1>1, <1>2, <2>1, <2>2, <2>3 DEF Numbered, Answers, NoSub
<1>15. AskedFromHeld(sub, captured, toServer)' BY <1>2 DEF AskedFromHeld
<1>16. sub.req = m.req => PageOf(m, sub) /\ Sent(1, sub) BY <1>2, <1>4 DEF PageOf, Sent, l
<1>17. Follows(sub, captured, toServer)'
  <2>1. ASSUME sub # NoSub, sub.req = m.req
        PROVE  /\ sub.cursor # None => sub.cursor <= m.page.from
               /\ \A i \in 1 .. Len(toServer) : ~AckOf(toServer[i], sub)
    <3>1. sub.cursor # None => sub.cursor <= m.page.from
      BY <1>0, <1>4, <1>16, <2>1 DEF Follows, l
    <3>2. \A i \in 1 .. Len(toServer) : i \in Nat OBVIOUS
    <3>3. \A i \in 1 .. Len(toServer) : ~AckOf(toServer[i], sub)
      BY <1>0, <1>16, <2>1, <3>2 DEF InOnePlace, Acked
    <3> QED BY <3>1, <3>3
  <2>2. sub # NoSub => \A i \in 1 .. Len(toClient') :
              PageOf(toClient'[i], sub) /\ sub.cursor # None =>
                  sub.cursor <= toClient'[i].page.from
    BY <1>0, <1>4 DEF Follows, l
  <2> QED BY <1>0, <1>1, <1>2, <2>1, <2>2 DEF Follows, PageOf, AckOf, NoSub
<1>18. InOnePlace(sub, captured, toServer)'
  <2>1. \A i \in Nat : Sent(i, sub)' => Sent(i + 1, sub) /\ i + 1 \in Nat /\ i + 1 # 1
    <3> TAKE i \in Nat
    <3> HAVE Sent(i, sub)'
    <3>1. i \in 1 .. Len(toClient') /\ PageOf(toClient'[i], sub) BY <1>1 DEF Sent, PageOf
    <3> QED BY <1>4, <3>1 DEF Sent, l
  <2>2. \A i \in Nat : Acked(i, sub, toServer)' <=> Acked(i, sub, toServer)
    BY <1>1 DEF Acked, AckOf
  <2>3. Held(sub, captured)' <=> Held(sub, captured) BY <1>1 DEF Held, PageOf
  <2>4. Staged(sub)' => Sent(1, sub) BY <1>1, <1>2, <1>16 DEF Staged
  <2>5. NoSub' = NoSub /\ sub' = sub BY <1>1 DEF NoSub
  <2>6. \A i, j \in Nat : i + 1 = j + 1 => i = j OBVIOUS
  <2>7. ASSUME sub # NoSub
        PROVE  \A i, j \in Nat : Sent(i, sub)' /\ Sent(j, sub)' => i = j
    BY <1>0, <2>1, <2>6, <2>7 DEF InOnePlace
  <2>8. ASSUME sub # NoSub, Sent(1, sub)
        PROVE  \A i \in Nat : ~Sent(i, sub)' /\ ~Acked(i, sub, toServer)
    BY <1>0, <2>1, <2>8 DEF InOnePlace
  <2> QED BY <1>0, <2>1, <2>2, <2>3, <2>4, <2>5, <2>7, <2>8 DEF InOnePlace
<1> QED BY <1>8, <1>9, <1>10, <1>11, <1>12, <1>14, <1>15, <1>17, <1>18 DEF ServerInv

(* An end or a stale answer only takes something off the channel; a reset  *)
(* comes when the server has already forgotten the subscription.           *)
LEMMA ReceiveOtherStep ==
    ASSUME RInv, toClient # <<>>, NEW m, m = Head(toClient), ReceiveEnd(m) \/ ReceiveStale(m),
           toClient' = Tail(toClient),
           UNCHANGED <<journal, pruned, access, server, toServer, faults>>
    PROVE  RInv'
<1> DEFINE l == Len(toClient)
<1> USE DEF RInv
<1>0. /\ TypeOK /\ PagesExact /\ Down /\ CopyExact
      /\ CursorsInJournal(sub, toServer) /\ Numbered(newest, sub, captured, toServer)
      /\ AskedFromHeld(sub, captured, toServer)
      /\ Follows(sub, captured, toServer) /\ InOnePlace(sub, captured, toServer)
      /\ toClient \in Seq(Responses) /\ client \in Clients
      /\ sub \in Subs /\ newest \in Nat /\ toServer \in Seq(Commands)
  BY DEF ServerInv, TypeOK
<1>1. UNCHANGED <<journal, pruned, access, up, conn, newest, sub, captured, toServer, faults>>
  BY DEF server
<1>2. /\ toClient' \in Seq(Responses) /\ Len(toClient') \in Nat /\ m = toClient[1]
      /\ \A i \in 1 .. Len(toClient') : i + 1 \in 1 .. l /\ toClient'[i] = toClient[i + 1]
      /\ 1 \in 1 .. l /\ m \in Responses
  BY <1>0, TailFacts
<1>3. applying' = applying /\ projection' = projection BY DEF ReceiveEnd, ReceiveStale, host
<1>4. /\ client' \in Clients /\ client'.conn = client.conn /\ client'.req = client.req
      /\ client'.last = client.last /\ client'.pending = client.pending
      /\ \/ client'.cursor = client.cursor
         \/ client'.cursor = 0 /\ m.kind = "reset" /\ m.req = client.asked
      /\ \/ client'.asked = 0
         \/ client' = client
  <2>1. CASE ReceiveEnd(m)
    <3> DEFINE z == IF m.kind = "reset" THEN 0 ELSE client.cursor
    <3>1. client' = [client EXCEPT !.asked = 0, !.cursor = z] BY <2>1 DEF ReceiveEnd
    <3>2. z \in Nat /\ (z = client.cursor \/ (z = 0 /\ m.kind = "reset")) BY <1>0 DEF Clients
    <3>3. m.req = client.asked BY <2>1 DEF ReceiveEnd
    <3> HIDE DEF z
    <3> QED BY <1>0, <3>1, <3>2, <3>3 DEF Clients
  <2>2. CASE ReceiveStale(m)
    <3>1. client' = client BY <2>2 DEF ReceiveStale, host
    <3> QED BY <1>0, <3>1
  <2> QED BY <2>1, <2>2
<1>5. client.cursor \in Nat /\ client'.cursor \in Nat /\ client'.cursor <= client.cursor
  BY <1>0, <1>4 DEF Clients
<1>6. client'.cursor # client.cursor => sub = NoSub
  <2> SUFFICES ASSUME m.kind = "reset", m.req = client.asked, sub # NoSub PROVE FALSE
    BY <1>4
  <2>1. 0 < m.req /\ m.req <= newest /\ sub.req # m.req BY <1>0, <1>2 DEF Numbered, Answers
  <2>2. sub.req = newest /\ client.asked \in {0, client.last} /\ newest <= client.last
    BY <1>0 DEF Numbered
  <2>3. m.req \in Nat /\ client.last \in Nat BY <1>0, <1>2 DEF Responses, Clients
  <2> QED BY <1>0, <2>1, <2>2, <2>3
<1> HIDE DEF l
<1>7. TypeOK' BY <1>0, <1>1, <1>2, <1>3, <1>4 DEF TypeOK
<1>8. PagesExact'
  <2>1. \A i \in 1 .. Len(toClient') : ExactResponse(toClient'[i])
    BY <1>0, <1>2 DEF PagesExact, l
  <2> QED BY <1>0, <1>1, <1>3, <1>4, <2>1 DEF PagesExact, ExactResponse, Exact
<1>9. Down'
  <2>1. up BY <1>0 DEF Down
  <2> QED BY <1>1, <2>1 DEF Down
<1>10. CopyExact'
  <2>1. \A i \in 1 .. client'.cursor : i \in 1 .. client.cursor BY <1>5
  <2> QED BY <1>0, <1>1, <1>3, <2>1 DEF CopyExact
<1>11. CursorsInJournal(sub, toServer)'
  <2>1. Len(journal) \in Nat BY <1>0 DEF TypeOK
  <2>2. client'.cursor <= Len(journal) BY <1>0, <1>5, <2>1 DEF CursorsInJournal
  <2> QED BY <1>0, <1>1, <2>2 DEF CursorsInJournal, SubInJournal
<1>12. Numbered(newest, sub, captured, toServer)'
  <2>1. \A i \in 1 .. Len(toClient') : Answers(toClient'[i], newest, sub)
    BY <1>0, <1>2 DEF Numbered, l
  <2>2. client'.asked \in {0, client'.last} BY <1>0, <1>4 DEF Numbered
  <2>3. client'.asked # 0 /\ client'.req = client'.asked => client'.conn = conn
    BY <1>0, <1>4 DEF Numbered
  <2> QED BY <1>0, <1>1, <1>4, <2>1, <2>2, <2>3 DEF Numbered, Answers, NoSub
<1>13. AskedFromHeld(sub, captured, toServer)'
  <2>1. CASE client'.asked = 0 BY <2>1 DEF AskedFromHeld
  <2>2. CASE client' = client
    <3>1. client.asked # 0 /\ client.req # client.asked =>
              \A i \in 1 .. Len(toClient') : FromHeld(toClient'[i])
      BY <1>0, <1>2 DEF AskedFromHeld, l
    <3> QED BY <1>0, <1>1, <2>2, <3>1 DEF AskedFromHeld, FromHeld
  <2> QED BY <1>4, <2>1, <2>2
<1>14. Follows(sub, captured, toServer)'
  <2>1. sub # NoSub => \A i \in 1 .. Len(toClient') :
              PageOf(toClient'[i], sub) /\ sub.cursor # None =>
                  sub.cursor <= toClient'[i].page.from
    BY <1>0, <1>2 DEF Follows, l
  <2> QED BY <1>0, <1>1, <1>4, <1>6, <2>1 DEF Follows, PageOf, AckOf, NoSub
<1>15. InOnePlace(sub, captured, toServer)'
  <2>1. \A i \in Nat : Sent(i, sub)' => Sent(i + 1, sub) /\ i + 1 \in Nat
    <3> TAKE i \in Nat
    <3> HAVE Sent(i, sub)'
    <3>1. i \in 1 .. Len(toClient') /\ PageOf(toClient'[i], sub) BY <1>1 DEF Sent, PageOf
    <3> QED BY <1>2, <3>1 DEF Sent, l
  <2>2. \A i \in Nat : Acked(i, sub, toServer)' <=> Acked(i, sub, toServer)
    BY <1>1 DEF Acked, AckOf
  <2>3. Held(sub, captured)' <=> Held(sub, captured) BY <1>1 DEF Held, PageOf
  <2>4. Staged(sub)' <=> Staged(sub) BY <1>1, <1>4 DEF Staged
  <2>5. NoSub' = NoSub /\ sub' = sub BY <1>1 DEF NoSub
  <2>6. \A i, j \in Nat : i + 1 = j + 1 => i = j OBVIOUS
  <2>7. ASSUME sub # NoSub
        PROVE  \A i, j \in Nat : Sent(i, sub)' /\ Sent(j, sub)' => i = j
    BY <1>0, <2>1, <2>6, <2>7 DEF InOnePlace
  <2> QED BY <1>0, <2>1, <2>2, <2>3, <2>4, <2>5, <2>7 DEF InOnePlace
<1> QED BY <1>7, <1>8, <1>9, <1>10, <1>11, <1>12, <1>13, <1>14, <1>15 DEF ServerInv

LEMMA ReceiveStep ==
    ASSUME RInv, Receive
    PROVE  RInv'
<1> DEFINE m == Head(toClient)
<1>1. /\ toClient # <<>> /\ toClient' = Tail(toClient)
      /\ ReceivePage(m) \/ ReceiveEnd(m) \/ ReceiveStale(m)
      /\ UNCHANGED <<journal, pruned, access, server, toServer, faults>>
  BY DEF Receive
<1> HIDE DEF m
<1>2. m = Head(toClient) BY DEF m
<1>3. CASE ReceivePage(m) BY <1>1, <1>2, <1>3, ReceivePageStep
<1>4. CASE ReceiveEnd(m) \/ ReceiveStale(m) BY <1>1, <1>2, <1>4, ReceiveOtherStep
<1> QED BY <1>1, <1>3, <1>4

(* An application of a page that is no longer waited for adds events of    *)
(* the conversation and moves no cursor.                                   *)
LEMMA LateApplied ==
    ASSUME RInv, NEW k \in applying, projection' = projection \cup k.page.events,
           applying' = applying \ {k},
           UNCHANGED <<journal, pruned, access, server, toServer, toClient, client, faults>>
    PROVE  RInv'
<1> USE DEF RInv
<1>0. /\ TypeOK /\ PagesExact /\ Down /\ CopyExact
      /\ CursorsInJournal(sub, toServer) /\ Numbered(newest, sub, captured, toServer)
      /\ AskedFromHeld(sub, captured, toServer)
      /\ Follows(sub, captured, toServer) /\ InOnePlace(sub, captured, toServer)
  BY DEF ServerInv
<1>1. UNCHANGED <<journal, pruned, access, up, conn, newest, sub, captured, toServer,
                  toClient, client, faults>>
  BY DEF server
<1>2. k \in Tokens /\ k.page \in Pages /\ Exact(k.page) /\ k.page.events \subseteq Nat
  BY <1>0 DEF TypeOK, PagesExact, Tokens, Pages
<1>3. \A i \in k.page.events : i \in 1 .. Len(journal) /\ journal[i] = "shown"
  <2>1. /\ k.page.from \in Nat /\ k.page.through \in Nat /\ Len(journal) \in Nat
        /\ k.page.through <= Len(journal)
        /\ k.page.events = {i \in k.page.from + 1 .. k.page.through : journal[i] = "shown"}
    BY <1>0, <1>2 DEF TypeOK, Pages, Exact
  <2> QED BY <2>1
<1>4. TypeOK' BY <1>0, <1>1, <1>2 DEF TypeOK
<1>5. PagesExact'
  <2>1. projection' \subseteq 1 .. Len(journal) BY <1>0, <1>3 DEF PagesExact
  <2>2. \A x \in applying' : Exact(x.page) BY <1>0 DEF PagesExact
  <2> QED BY <1>0, <1>1, <2>1, <2>2 DEF PagesExact, ExactResponse, Exact
<1>6. Down' BY <1>0, <1>1 DEF Down, NoSub
<1>7. CopyExact' BY <1>0, <1>1, <1>3 DEF CopyExact
<1>8. CursorsInJournal(sub, toServer)' BY <1>0, <1>1 DEF CursorsInJournal, SubInJournal
<1>9. Numbered(newest, sub, captured, toServer)'
  BY <1>0, <1>1 DEF Numbered, Answers, NoSub
<1>10. AskedFromHeld(sub, captured, toServer)' BY <1>0, <1>1 DEF AskedFromHeld, FromHeld
<1>11. Follows(sub, captured, toServer)' BY <1>0, <1>1 DEF Follows, PageOf, AckOf, NoSub
<1>12. InOnePlace(sub, captured, toServer)'
  BY <1>0, <1>1 DEF InOnePlace, Held, Sent, Staged, Acked, PageOf, AckOf, NoSub
<1> QED BY <1>4, <1>5, <1>6, <1>7, <1>8, <1>9, <1>10, <1>11, <1>12 DEF ServerInv

(* The page that the cursor waits for was applied: the cursor moves, and   *)
(* the acknowledgement is all that is left of the page.                    *)
LEMMA PageApplied ==
    ASSUME RInv, NEW k \in applying, projection' = projection \cup k.page.events,
           applying' = applying \ {k}, current(k), k.page.from = client.cursor,
           client' = [client EXCEPT !.cursor = k.page.through, !.pending = None,
                                    !.asked = IF finished(k) THEN 0 ELSE @],
           toServer' = IF up THEN Append(toServer, [type |-> "ack", conn |-> k.conn,
                                            req |-> k.req, through |-> k.page.through])
                       ELSE toServer,
           UNCHANGED <<journal, pruned, access, server, toClient, faults>>
    PROVE  RInv'
<1> DEFINE a == IF finished(k) THEN 0 ELSE client.asked
           c == [type |-> "ack", conn |-> k.conn, req |-> k.req, through |-> k.page.through]
           l == Len(toServer)
<1> USE DEF RInv
<1>0. /\ TypeOK /\ PagesExact /\ Down /\ CopyExact
      /\ CursorsInJournal(sub, toServer) /\ Numbered(newest, sub, captured, toServer)
      /\ AskedFromHeld(sub, captured, toServer)
      /\ Follows(sub, captured, toServer) /\ InOnePlace(sub, captured, toServer)
      /\ client \in Clients /\ client.asked \in Nat /\ client.cursor \in Nat
      /\ client.req \in Nat /\ client.last \in Nat
      /\ toServer \in Seq(Commands) /\ toClient \in Seq(Responses) /\ sub \in Subs
      /\ captured \in Responses \cup {None}
  BY DEF ServerInv, TypeOK, Clients
<1>1. UNCHANGED <<journal, pruned, access, up, conn, newest, sub, captured, toClient, faults>>
  BY DEF server
<1>2. /\ k \in Tokens /\ k.page \in Pages /\ Exact(k.page) /\ k.page.events \subseteq Nat
      /\ k.page.from \in Nat /\ k.page.through \in Nat /\ k.conn \in Nat /\ k.req \in Nat
  BY <1>0 DEF TypeOK, PagesExact, Tokens, Pages
<1>3. client.pending = k /\ client.pending # None /\ k.req = client.req
  BY <1>2, NoneAssumption DEF current
<1>4. a \in Nat /\ (a = 0 \/ a = client.asked) BY <1>0
<1>5. client' = [client EXCEPT !.cursor = k.page.through, !.pending = None, !.asked = a]
  OBVIOUS
<1> HIDE DEF a
<1>6. /\ client' \in Clients /\ client'.cursor = k.page.through /\ client'.pending = None
      /\ client'.asked = a /\ client'.req = client.req /\ client'.conn = client.conn
      /\ client'.last = client.last
  BY <1>0, <1>2, <1>4, <1>5 DEF Clients
<1>7. /\ Len(journal) \in Nat /\ client.cursor <= k.page.through
      /\ k.page.through <= Len(journal)
      /\ k.page.events = {i \in k.page.from + 1 .. k.page.through : journal[i] = "shown"}
  BY <1>0, <1>2 DEF TypeOK, Exact
<1>8. \A i \in k.page.events : i \in 1 .. Len(journal) /\ journal[i] = "shown"
  BY <1>2, <1>7
<1>9. c \in Commands /\ c.type = "ack" /\ c.req = client.req /\ c.through = k.page.through
  BY <1>2, <1>3 DEF Commands, Acks
<1>10. toServer' = IF up THEN Append(toServer, c) ELSE toServer OBVIOUS
<1> HIDE DEF c
<1>11. /\ toServer' \in Seq(Commands) /\ l \in Nat
       /\ \A i \in 1 .. Len(toServer') : \/ i \in 1 .. l /\ toServer'[i] = toServer[i]
                                         \/ i = l + 1 /\ toServer'[i] = c
  <2>1. CASE up
    <3>1. /\ toServer' \in Seq(Commands) /\ l \in Nat /\ Len(toServer') = l + 1
          /\ \A i \in 1 .. l : toServer'[i] = toServer[i]
          /\ \A i \in 1 .. l + 1 : i \in 1 .. l \/ i = l + 1
          /\ toServer'[l + 1] = c
      BY <1>0, <1>9, <1>10, <2>1, AppendFacts
    <3> QED BY <3>1
  <2>2. CASE ~up
    <3>1. toServer' = toServer BY <1>10, <2>2
    <3> QED BY <1>0, <3>1
  <2> QED BY <2>1, <2>2
<1> HIDE DEF l
<1>12. TypeOK' BY <1>0, <1>1, <1>2, <1>6, <1>11 DEF TypeOK
<1>13. PagesExact' BY <1>0, <1>1, <1>6, <1>8 DEF PagesExact, ExactResponse, Exact
<1>14. Down' BY <1>0, <1>1, <1>4, <1>6, <1>10 DEF Down, NoSub
<1>15. CopyExact'
  <2>1. ASSUME NEW i \in 1 .. k.page.through, journal[i] = "shown"
        PROVE  i \in projection \cup k.page.events
    <3>1. CASE i <= client.cursor
      <4>1. i \in 1 .. client.cursor BY <1>0, <1>2, <3>1
      <4> QED BY <1>0, <2>1, <4>1 DEF CopyExact
    <3>2. CASE ~(i <= client.cursor)
      <4>1. i \in k.page.from + 1 .. k.page.through BY <1>0, <1>2, <3>2
      <4> QED BY <1>7, <2>1, <4>1
    <3> QED BY <3>1, <3>2
  <2> QED BY <1>0, <1>1, <1>6, <1>8, <2>1 DEF CopyExact
<1>16. CursorsInJournal(sub, toServer)'
  <2>1. \A i \in 1 .. Len(toServer') : toServer'[i].type = "subscribe" =>
            i \in 1 .. l /\ toServer'[i] = toServer[i]
    BY <1>9, <1>11
  <2> QED BY <1>0, <1>1, <1>6, <1>7, <2>1 DEF CursorsInJournal, SubInJournal, l
<1>17. Numbered(newest, sub, captured, toServer)'
  <2>1. \A i \in 1 .. Len(toServer') :
          /\ toServer'[i].type = "subscribe" => i \in 1 .. l /\ toServer'[i] = toServer[i]
          /\ toServer'[i].type = "ack" => toServer'[i].req <= client.req
    BY <1>0, <1>9, <1>11 DEF Numbered, l
  <2>2. client'.asked \in {0, client'.last} BY <1>0, <1>4, <1>6 DEF Numbered
  <2>3. client'.asked # 0 /\ client'.req = client'.asked => client'.conn = conn
    BY <1>0, <1>4, <1>6 DEF Numbered
  <2> QED BY <1>0, <1>1, <1>6, <2>1, <2>2, <2>3 DEF Numbered, Answers, NoSub, l
<1>18. \A x \in Nat : x <= client.cursor => x <= client'.cursor BY <1>0, <1>2, <1>6, <1>7
<1>19. sub.cursor \in Nat \cup {None} BY <1>0 DEF Subs
<1>20. AskedFromHeld(sub, captured, toServer)'
  <2> SUFFICES ASSUME client'.asked # 0, client'.req # client'.asked
               PROVE  AskedFromHeld(sub, captured, toServer)'
    BY DEF AskedFromHeld
  <2>0. client'.asked = client.asked /\ client.asked # 0 /\ client.req # client.asked
    BY <1>4, <1>6
  <2>1. \A i \in 1 .. l : toServer[i] \in Commands BY <1>0 DEF l
  <2>2. \A i \in 1 .. l : toServer[i].type = "subscribe" /\ toServer[i].req = client.asked =>
            (toServer[i].after # None => toServer[i].after <= client'.cursor)
    BY <1>0, <1>18, <2>0, <2>1, CommandTypes DEF AskedFromHeld, l
  <2>3. \A i \in 1 .. Len(toServer') :
          toServer'[i].type = "subscribe" /\ toServer'[i].req = client'.asked =>
            (toServer'[i].after # None => toServer'[i].after <= client'.cursor)
    BY <1>9, <1>11, <2>0, <2>2
  <2>4. sub.req = client.asked /\ sub.cursor # None => sub.cursor <= client'.cursor
    BY <1>0, <1>18, <1>19, <2>0 DEF AskedFromHeld
  <2>5. \A m \in Responses : FromHeld(m) =>
          (m.req = client.asked /\ m.kind = "replay" => m.page.from <= client'.cursor)
    BY <1>18 DEF FromHeld, Responses, Pages
  <2>6. captured # None => (captured.req = client.asked /\ captured.kind = "replay"
                              => captured.page.from <= client'.cursor)
    BY <1>0, <2>0, <2>5 DEF AskedFromHeld
  <2>7. \A i \in 1 .. Len(toClient) : toClient[i].req = client.asked
            /\ toClient[i].kind = "replay" => toClient[i].page.from <= client'.cursor
    BY <1>0, <2>0, <2>5, ResponseTypes DEF AskedFromHeld
  <2> QED BY <1>1, <2>0, <2>3, <2>4, <2>6, <2>7 DEF AskedFromHeld, FromHeld
<1>21. Follows(sub, captured, toServer)'
  <2>1. ASSUME sub # NoSub, sub.req = client.req
        PROVE  /\ sub.cursor # None => sub.cursor <= client'.cursor
               /\ \A i \in 1 .. Len(toServer') :
                     AckOf(toServer'[i], sub) => toServer'[i].through <= client'.cursor
    <3>1. sub.cursor # None => sub.cursor <= client'.cursor
      BY <1>0, <1>18, <1>19, <2>1 DEF Follows
    <3>2. \A i \in 1 .. l : ~AckOf(toServer[i], sub)
      <4>1. Staged(sub) BY <1>3, <2>1 DEF Staged
      <4>2. \A i \in 1 .. l : i \in Nat BY <1>11
      <4> QED BY <1>0, <2>1, <4>1, <4>2 DEF InOnePlace, Acked, l
    <3>3. c.through <= client'.cursor BY <1>2, <1>6, <1>9
    <3> QED BY <1>11, <3>1, <3>2, <3>3
  <2> QED BY <1>0, <1>1, <1>6, <2>1 DEF Follows, PageOf, AckOf, NoSub
<1>22. InOnePlace(sub, captured, toServer)'
  <2>1. \A i \in Nat : Acked(i, sub, toServer)' =>
            Acked(i, sub, toServer) \/ (i = l + 1 /\ Staged(sub))
    <3> TAKE i \in Nat
    <3> HAVE Acked(i, sub, toServer)'
    <3>1. i \in 1 .. Len(toServer') /\ AckOf(toServer'[i], sub) BY <1>1 DEF Acked, AckOf
    <3>2. CASE i \in 1 .. l /\ toServer'[i] = toServer[i]
      BY <3>1, <3>2 DEF Acked, l
    <3>3. CASE i = l + 1 /\ toServer'[i] = c
      BY <1>3, <1>9, <3>1, <3>3 DEF Staged, AckOf
    <3> QED BY <1>11, <3>1, <3>2, <3>3
  <2>2. \A i \in Nat : Sent(i, sub)' <=> Sent(i, sub) BY <1>1 DEF Sent, PageOf
  <2>3. Held(sub, captured)' <=> Held(sub, captured) BY <1>1 DEF Held, PageOf
  <2>4. ~Staged(sub)' BY <1>6 DEF Staged
  <2>5. NoSub' = NoSub /\ sub' = sub BY <1>1 DEF NoSub
  <2> QED BY <1>0, <2>1, <2>2, <2>3, <2>4, <2>5 DEF InOnePlace
<1> QED BY <1>12, <1>13, <1>14, <1>15, <1>16, <1>17, <1>20, <1>21, <1>22 DEF ServerInv

LEMMA AppliedStep ==
    ASSUME RInv, NEW k \in applying, Applied(k)
    PROVE  RInv'
<1>1. CASE current(k) /\ k.page.from = client.cursor BY <1>1, PageApplied DEF Applied
<1>2. CASE ~(current(k) /\ k.page.from = client.cursor)
  BY <1>2, LateApplied DEF Applied
<1> QED BY <1>1, <1>2

(* A page whose application failed stays where it was, under a new token,  *)
(* or is given up.                                                         *)
LEMMA ApplicationFailedStep ==
    ASSUME RInv, NEW k \in applying, ApplicationFailed(k)
    PROVE  RInv'
<1> DEFINE c == [client EXCEPT !.pending = None]
<1> USE DEF RInv
<1>0. /\ TypeOK /\ PagesExact /\ Down /\ CopyExact
      /\ CursorsInJournal(sub, toServer) /\ Numbered(newest, sub, captured, toServer)
      /\ AskedFromHeld(sub, captured, toServer)
      /\ Follows(sub, captured, toServer) /\ InOnePlace(sub, captured, toServer)
      /\ client \in Clients /\ applying \subseteq Tokens
  BY DEF ServerInv, TypeOK
<1>1. UNCHANGED <<journal, pruned, access, up, conn, newest, sub, captured, toServer,
                  toClient, projection>>
  BY DEF server, ApplicationFailed
<1>2. faults' \in Nat BY <1>0, FaultCount DEF ApplicationFailed
<1>3. k \in Tokens /\ k.page \in Pages /\ Exact(k.page) BY <1>0 DEF PagesExact, Tokens
<1>4. client.pending = k /\ client.pending # None
  BY <1>3, NoneAssumption DEF ApplicationFailed, current
<1>5. /\ c \in Clients /\ c.conn = client.conn /\ c.req = client.req /\ c.cursor = client.cursor
      /\ c.asked = client.asked /\ c.last = client.last /\ c.pending = None
  BY <1>0 DEF Clients
<1>6. \/ /\ client' = [c EXCEPT !.attempt = @ + 1, !.pending = token(c, k.page)]
         /\ applying' = (applying \ {k}) \cup {token(c, k.page)}
      \/ client' = c /\ applying' = applying \ {k}
  BY DEF ApplicationFailed
<1> HIDE DEF c
<1>7. token(c, k.page) \in Tokens /\ token(c, k.page).page = k.page
  BY <1>3, <1>5 DEF token, Tokens, Clients
<1> DEFINE t == token(c, k.page)
<1> HIDE DEF t
<1>8. /\ client' \in Clients /\ client'.conn = client.conn /\ client'.req = client.req
      /\ client'.cursor = client.cursor /\ client'.asked = client.asked
      /\ client'.last = client.last /\ client'.pending \in {None, t}
  <2>1. CASE client' = c BY <1>5, <2>1
  <2>2. CASE client' = [c EXCEPT !.attempt = @ + 1, !.pending = t]
    <3> DEFINE n == c.attempt + 1
    <3>1. n \in Nat BY <1>5 DEF Clients
    <3>2. client' = [c EXCEPT !.attempt = n, !.pending = t] BY <2>2
    <3>3. t \in Tokens BY <1>7 DEF t
    <3> HIDE DEF n
    <3> QED BY <1>5, <3>1, <3>2, <3>3 DEF Clients
  <2> QED BY <1>6, <2>1, <2>2 DEF t
<1>9. applying' \subseteq applying \cup {t} BY <1>6 DEF t
<1>10. t \in Tokens /\ Exact(t.page) BY <1>3, <1>7 DEF t
<1>11. TypeOK' BY <1>0, <1>1, <1>2, <1>8, <1>9, <1>10 DEF TypeOK
<1>12. PagesExact'
  <2>1. \A x \in applying' : Exact(x.page) BY <1>0, <1>9, <1>10 DEF PagesExact
  <2>2. client'.pending # None => Exact(client'.pending.page) BY <1>8, <1>10
  <2> QED BY <1>0, <1>1, <2>1, <2>2 DEF PagesExact, ExactResponse, Exact
<1>13. Down' BY <1>0, <1>1, <1>8 DEF Down, NoSub
<1>14. CopyExact' BY <1>0, <1>1, <1>8 DEF CopyExact
<1>15. CursorsInJournal(sub, toServer)'
  BY <1>0, <1>1, <1>8 DEF CursorsInJournal, SubInJournal
<1>16. Numbered(newest, sub, captured, toServer)'
  BY <1>0, <1>1, <1>8 DEF Numbered, Answers, NoSub
<1>17. AskedFromHeld(sub, captured, toServer)'
  BY <1>0, <1>1, <1>8 DEF AskedFromHeld, FromHeld
<1>18. Follows(sub, captured, toServer)'
  BY <1>0, <1>1, <1>8 DEF Follows, PageOf, AckOf, NoSub
<1>19. InOnePlace(sub, captured, toServer)'
  <2>1. \A i \in Nat : Acked(i, sub, toServer)' <=> Acked(i, sub, toServer)
    BY <1>1 DEF Acked, AckOf
  <2>2. \A i \in Nat : Sent(i, sub)' <=> Sent(i, sub) BY <1>1 DEF Sent, PageOf
  <2>3. Held(sub, captured)' <=> Held(sub, captured) BY <1>1 DEF Held, PageOf
  <2>4. Staged(sub)' => Staged(sub) BY <1>1, <1>4, <1>8 DEF Staged
  <2>5. NoSub' = NoSub /\ sub' = sub BY <1>1 DEF NoSub
  <2> QED BY <1>0, <2>1, <2>2, <2>3, <2>4, <2>5 DEF InOnePlace
<1> QED BY <1>11, <1>12, <1>13, <1>14, <1>15, <1>16, <1>17, <1>18, <1>19 DEF ServerInv

-----------------------------------------------------------------------------
LEMMA InitRInv ==
    ASSUME Init
    PROVE  RInv
<1>1. /\ client.cursor = 0 /\ client.asked = 0 /\ client.last = 0 /\ client.req = 0
      /\ client.pending = None /\ client \in Clients
  BY DEF Init, Clients
<1>2. /\ sub = NoSub /\ captured = None /\ toServer = <<>> /\ toClient = <<>>
      /\ applying = {} /\ projection = {} /\ newest = 0
      /\ Len(toServer) = 0 /\ Len(toClient) = 0 /\ Len(journal) = 1
  BY DEF Init
<1>3. TypeOK
  <2>1. \A S : <<>> \in Seq(S) OBVIOUS
  <2>2. journal \in Seq(Records) BY DEF Init, Records
  <2>3. toServer \in Seq(Commands) /\ toClient \in Seq(Responses) BY <1>2, <2>1
  <2>4. sub \in Subs BY <1>2, NoSubFields
  <2>5. /\ pruned \in Nat /\ access \in BOOLEAN /\ up \in BOOLEAN /\ conn \in Nat
        /\ newest \in Nat /\ faults \in Nat
    BY DEF Init
  <2> QED BY <1>1, <1>2, <2>2, <2>3, <2>4, <2>5 DEF TypeOK
<1>4. PagesExact BY <1>1, <1>2 DEF PagesExact
<1>5. Down BY <1>1, <1>2 DEF Down
<1>6. CopyExact BY <1>1, <1>2 DEF CopyExact
<1>7. CursorsInJournal(sub, toServer)
  BY <1>1, <1>2, NoSubFields DEF CursorsInJournal, SubInJournal
<1>8. Numbered(newest, sub, captured, toServer) BY <1>1, <1>2 DEF Numbered
<1>9. AskedFromHeld(sub, captured, toServer) BY <1>1 DEF AskedFromHeld
<1> QED BY <1>2, <1>3, <1>4, <1>5, <1>6, <1>7, <1>8, <1>9
      DEF RInv, ServerInv, Follows, InOnePlace

LEMMA NextRInv ==
    ASSUME RInv, [Next]_vars
    PROVE  RInv'
<1>1. CASE UNCHANGED vars
  <2>1. /\ UNCHANGED <<journal, up, conn, newest, sub, captured, toServer, toClient, client,
                       applying, projection>>
        /\ UNCHANGED <<pruned, access, faults>>
    BY <1>1 DEF vars, server, host
  <2>2. pruned' \in Nat /\ access' \in BOOLEAN /\ faults' \in Nat BY <2>1 DEF RInv, TypeOK
  <2> QED BY <2>1, <2>2, FrameKeeps
<1>2. ASSUME NEW k \in Records, AppendRecord(k) PROVE RInv' BY <1>2, AppendRecordStep
<1>3. CASE Prune BY <1>3, PruneStep
<1>4. CASE Share BY <1>4, ShareStep
<1>5. CASE Connect BY <1>5, ConnectStep
<1>6. CASE Disconnect BY <1>6, DisconnectStep
<1>7. CASE Command BY <1>7, CommandStep
<1>8. CASE CatchUp BY <1>8, CatchUpStep
<1>9. CASE send_response BY <1>9, SendStep
<1>10. CASE Subscribe BY <1>10, SubscribeStep
<1>11. CASE AskAnew BY <1>11, AskAnewStep
<1>12. CASE Unsubscribe BY <1>12, UnsubscribeStep
<1>13. CASE Receive BY <1>13, ReceiveStep
<1>14. ASSUME NEW k \in applying, Applied(k) PROVE RInv' BY <1>14, AppliedStep
<1>15. ASSUME NEW k \in applying, ApplicationFailed(k) PROVE RInv'
  BY <1>15, ApplicationFailedStep
<1> QED BY <1>1, <1>2, <1>3, <1>4, <1>5, <1>6, <1>7, <1>8, <1>9, <1>10, <1>11, <1>12, <1>13,
           <1>14, <1>15 DEF Next

LEMMA Invariant == Spec => []RInv
<1>1. Init => RInv BY InitRInv
<1>2. RInv /\ [Next]_vars => RInv' BY NextRInv
<1> QED BY <1>1, <1>2, PTL DEF Spec

-----------------------------------------------------------------------------
(* Every variable keeps the type that the server's structs and the         *)
(* client's ReadProjectionCursor give it.                                  *)
THEOREM Typing == Spec => []TypeOK
<1>1. RInv => TypeOK BY DEF RInv
<1> QED BY <1>1, Invariant, PTL

(* The client's copy is exact up to its cursor, for every size of pages    *)
(* and every sequence of prunings, resets, reconnections and failed or     *)
(* late applications.                                                      *)
THEOREM CopyIsExact == Spec => []CopyExact
<1>1. RInv => CopyExact BY DEF RInv
<1> QED BY <1>1, Invariant, PTL

(* The server's cursor is never past what the client has applied. *)
THEOREM ServerStaysBehind == Spec => []ServerNotAhead
<1>1. RInv => ServerNotAhead BY DEF RInv, ServerInv, Follows, ServerNotAhead
<1> QED BY <1>1, Invariant, PTL

LEMMA AtMostOneElement ==
    ASSUME NEW S, \A x, y \in S : x = y
    PROVE  IsFiniteSet(S) /\ Cardinality(S) \in {0, 1} /\ (Cardinality(S) = 1 => S # {})
<1>1. CASE S = {} BY <1>1, FS_EmptySet
<1>2. CASE S # {}
  <2>1. PICK x \in S : TRUE BY <1>2
  <2>2. S = {x} BY <2>1
  <2> QED BY <2>2, FS_Singleton
<1> QED BY <1>1, <1>2

(* Of one subscription at most one page is read and not acknowledged,      *)
(* wherever it is: with the send task, on its way or at the client.        *)
THEOREM OneOutstanding == Spec => []OnePageOutstanding
<1>1. ASSUME RInv PROVE OnePageOutstanding
  <2> DEFINE sent == {i \in 1 .. Len(toClient) : toClient[i].req = sub.req
                                          /\ toClient[i].kind \in {"snapshot", "replay"}}
             held == IF captured # None /\ captured.req = sub.req
                        /\ captured.kind \in {"snapshot", "replay"} THEN 1 ELSE 0
             staged == IF client.pending # None /\ client.req = sub.req /\ client.conn = conn
                       THEN 1 ELSE 0
  <2> SUFFICES ASSUME sub # NoSub PROVE Cardinality(sent) + held + staged <= 1
    BY DEF OnePageOutstanding
  <2>1. InOnePlace(sub, captured, toServer) BY <1>1 DEF RInv, ServerInv
  <2>2. \A i : i \in sent <=> Sent(i, sub) BY DEF Sent, PageOf, PageKinds
  <2>3. \A i \in sent : i \in Nat OBVIOUS
  <2>4. held \in {0, 1} /\ (held = 1 => Held(sub, captured)) BY DEF Held, PageOf, PageKinds
  <2>5. staged \in {0, 1} /\ (staged = 1 => Staged(sub)) BY DEF Staged
  <2> HIDE DEF sent, held, staged
  <2>6. \A i, j \in sent : i = j BY <2>1, <2>2, <2>3 DEF InOnePlace
  <2>7. Cardinality(sent) \in {0, 1} /\ (Cardinality(sent) = 1 => sent # {})
    BY <2>6, AtMostOneElement
  <2>8. held = 1 => staged # 1 /\ sent = {} BY <2>1, <2>2, <2>3, <2>4, <2>5 DEF InOnePlace
  <2>9. staged = 1 => sent = {} BY <2>1, <2>2, <2>3, <2>5 DEF InOnePlace
  <2> QED BY <2>4, <2>5, <2>7, <2>8, <2>9
<1> QED BY <1>1, Invariant, PTL

(* No page leaves the server after the reader's access was revoked: only   *)
(* send_response puts something on the channel, and it looks again.        *)
THEOREM RevocationStops == Spec => NothingAfterRevocation
<1> DEFINE page == Len(toClient') > Len(toClient)
                   /\ toClient'[Len(toClient')].kind \in {"snapshot", "replay"}
<1>1. ASSUME RInv, [Next]_vars PROVE page => access
  <2>0. /\ toClient \in Seq(Responses) /\ Len(toClient) \in Nat /\ Len(<<>>) = 0
        /\ captured \in Responses \cup {None} /\ conn \in Nat
        /\ journal \in Seq(Records)
    BY <1>1 DEF RInv, TypeOK
  <2>1. ASSUME toClient' = toClient PROVE ~page BY <2>0, <2>1
  <2>2. ASSUME toClient' = <<>> PROVE ~page BY <2>0, <2>2
  <2>3. ASSUME toClient # <<>>, toClient' = Tail(toClient) PROVE ~page
    <3>1. Len(toClient') = Len(toClient) - 1 BY <2>0, <2>3, TailFacts
    <3> QED BY <2>0, <3>1
  <2>4. ASSUME send_response PROVE page => access
    <3> SUFFICES ASSUME ~access PROVE ~page OBVIOUS
    <3> DEFINE e == Response("error", captured.req, NoPage)
    <3>1. toClient' = Append(toClient, e) /\ captured # None BY <2>4 DEF send_response
    <3>2. e \in Responses /\ e.kind = "error"
      <4>1. NoPage \in Pages BY <2>0, NoPageExact
      <4>2. captured.req \in Nat BY <2>0, <3>1 DEF Responses
      <4> QED BY <2>0, <4>1, <4>2 DEF Response, Responses
    <3> HIDE DEF e
    <3>3. Len(toClient') = Len(toClient) + 1 /\ toClient'[Len(toClient) + 1] = e
      BY <2>0, <3>1, <3>2, AppendFacts
    <3> QED BY <3>2, <3>3
  <2> HIDE DEF page
  <2>5. CASE UNCHANGED vars BY <2>1, <2>5 DEF vars
  <2>6. ASSUME NEW k \in Records, AppendRecord(k) PROVE ~page BY <2>1, <2>6 DEF AppendRecord
  <2>7. CASE Prune \/ Share \/ Connect BY <2>1, <2>7 DEF Prune, Share, Connect
  <2>8. CASE Disconnect BY <2>2, <2>8 DEF Disconnect
  <2>9. CASE Command \/ CatchUp BY <2>1, <2>9 DEF Command, CatchUp
  <2>10. CASE Subscribe \/ AskAnew \/ Unsubscribe
    BY <2>1, <2>10 DEF Subscribe, AskAnew, Unsubscribe, Ask
  <2>11. CASE Receive BY <2>3, <2>11 DEF Receive
  <2>12. ASSUME NEW k \in applying, Applied(k) \/ ApplicationFailed(k) PROVE ~page
    BY <2>1, <2>12 DEF Applied, ApplicationFailed
  <2> QED BY <1>1, <2>4, <2>5, <2>6, <2>7, <2>8, <2>9, <2>10, <2>11, <2>12 DEF Next
<1>2. ASSUME RInv, [Next]_vars PROVE [page => access]_vars BY <1>1, <1>2
<1> QED BY <1>2, Invariant, PTL DEF Spec, NothingAfterRevocation
=============================================================================
