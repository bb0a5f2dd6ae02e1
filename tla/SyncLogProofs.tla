---------------------------- MODULE SyncLogProofs ---------------------------
(***************************************************************************)
(* Proof that the cursor of a device names a committed row, for every      *)
(* number of entities, writers, changes, failures and lost connections,    *)
(* and every size of deltas and channels.                                  *)
(*                                                                         *)
(* The invariant is written as types that depend on the log: Ids(log) is 0 *)
(* and the ids of committed rows, and every id that can become the cursor  *)
(* (in the handler, in messages, requests and tasks) is one of them.  The  *)
(* log only ever adds to these ids, for which the id of an open INSERT     *)
(* must be its writer's alone (Inserting).                                 *)
(***************************************************************************)
EXTENDS SyncLog, FiniteSetTheorems, SequenceTheorems, TLAPS

Ids(l) == {0} \cup {i \in 1..Len(l) : l[i].at \in {"visible", "pruned"}}

Rows == [chg: Nat, live: BOOLEAN]
Caches == [Entities -> Rows]
LogRows == [ent: Entities, x: Rows, at: {"pending", "visible", "void", "pruned"}]
Writings == {Idle} \cup [at: {"mutated", "fetched", "inserting", "logged"},
                         ent: Entities, x: Rows, id: Nat]
Messages(l) ==
    [t: {"action"}, ent: Entities, x: Rows, src: Int]
    \cup [t: {"complete"}, id: Ids(l), count: Int]
    \cup [t: {"reset"}]
Requests(l) == [at: {"bootstrap"}] \cup [at: {"delta"}, since: Ids(l)]
Handlers(l) ==
    {Idle} \cup [at: {"listed"}, rows: Caches, count: Int]
           \cup [at: {"stream"}, rows: Caches, count: Int, id: Ids(l)]
           \cup [at: {"available"}, since: Ids(l)]
           \cup [at: {"counting"}, id: Ids(l)]
Ops(l) ==
    [op: {"put"}, ent: Entities, x: Rows]
    \cup [op: {"cursor"}, id: Ids(l)]
    \cup [op: {"wipe", "bootstrap", "catchup", "hydrate"}]
Jobs(l) == [ops: Seq(Ops(l)) \ {<<>>}, begun: BOOLEAN]

ServerOK ==
    /\ db \in Caches /\ changes \in Nat
    /\ log \in Seq(LogRows)
    /\ writer \in [Writers -> Writings]

Inserting ==
    /\ \A w \in Writers : writer[w].at = "inserting" =>
           writer[w].id \in 1..Len(log) /\ log[writer[w].id].at = "pending"
    /\ \A v, w \in Writers : v # w /\ writer[v].at = "inserting" /\ writer[w].at = "inserting" =>
           writer[v].id # writer[w].id

WireOK ==
    queue \in Seq(Messages(log)) /\ ask \in Seq(Requests(log)) /\ handler \in Handlers(log)

DeviceOK ==
    /\ store \in Caches /\ idb \in Caches
    /\ cursor \in Ids(log)
    /\ jobs \in Seq(Jobs(log))

IInv == ServerOK /\ Inserting /\ WireOK /\ DeviceOK

-----------------------------------------------------------------------------
(* What messages, requests, tasks and handlers may be only grows. *)
LEMMA GrowSeqs ==
    ASSUME NEW l, NEW m, Ids(l) \subseteq Ids(m)
    PROVE  /\ Seq(Messages(l)) \subseteq Seq(Messages(m))
           /\ Seq(Requests(l)) \subseteq Seq(Requests(m))
           /\ Seq(Jobs(l)) \subseteq Seq(Jobs(m))
           /\ Handlers(l) \subseteq Handlers(m)
<1>1. Messages(l) \subseteq Messages(m)
  BY DEF Messages
<1>2. Requests(l) \subseteq Requests(m)
  BY DEF Requests
<1>3. Handlers(l) \subseteq Handlers(m)
  BY DEF Handlers
<1>4. Ops(l) \subseteq Ops(m)
  BY DEF Ops
<1>5. Seq(Ops(l)) \subseteq Seq(Ops(m))
  BY <1>4, SMT
<1>6. Jobs(l) \subseteq Jobs(m)
  BY <1>5 DEF Jobs
<1>7. Seq(Messages(l)) \subseteq Seq(Messages(m))
  BY <1>1, SMT
<1>8. Seq(Requests(l)) \subseteq Seq(Requests(m))
  BY <1>2, SMT
<1>9. Seq(Jobs(l)) \subseteq Seq(Jobs(m))
  BY <1>6, SMT
<1> QED
  BY <1>3, <1>7, <1>8, <1>9

(* What is sent is some of the messages. *)
LEMMA SendType ==
    ASSUME NEW M, queue \in Seq(M), NEW msgs \in Seq(M), Send(msgs)
    PROVE  queue' \in Seq(M)
<1>1. CASE link = "down"
  BY <1>1 DEF Send
<1>2. CASE link # "down"
  <2>1. PICK k \in 0..Len(msgs) : \E f \in [1..k -> 1..Len(msgs)] :
            queue' = queue \o [i \in 1..k |-> msgs[f[i]]]
    BY <1>2 DEF Send
  <2>2. PICK f \in [1..k -> 1..Len(msgs)] : queue' = queue \o [i \in 1..k |-> msgs[f[i]]]
    BY <2>1
  <2>3. k \in Nat /\ \A i \in 1..k : msgs[f[i]] \in M
    OBVIOUS
  <2>4. [i \in 1..k |-> msgs[f[i]]] \in Seq(M)
    BY <2>3
  <2> QED
    BY <2>2, <2>4
<1> QED
  BY <1>1, <1>2

LEMMA SetToSeqType ==
    ASSUME NEW S, IsFiniteSet(S)
    PROVE  SetToSeq(S) \in Seq(S)
<1> DEFINE n == Cardinality(S)
<1>1. n \in Nat /\ ExistsBijection(1..n, S)
  BY FS_CardinalityType
<1>2. \E g \in [1..n -> S] : IsInjective(g)
  BY <1>1 DEF ExistsBijection, Bijection, Injection
<1>3. SetToSeq(S) \in [1..n -> S]
  BY <1>2 DEF SetToSeq
<1> QED
  BY <1>1, <1>3

LEMMA LiveFinite ==
    ASSUME NEW c \in Caches
    PROVE  IsFiniteSet(Live(c)) /\ Live(c) \subseteq Entities /\ Count(c) \in Nat
<1>1. Live(c) \subseteq Entities
  BY DEF Live
<1>2. IsFiniteSet(Live(c))
  BY <1>1, SyncAssumption, FS_Subset
<1> QED
  BY <1>1, <1>2, FS_CardinalityType DEF Count

(* The rows of a delta, and the cursor that goes with them. *)
LEMMA EntriesType ==
    ASSUME log \in Seq(LogRows), NEW since \in Ids(log), NEW ids \in Page(since)
    PROVE  /\ Entries(ids) \in Seq(Messages(log))
           /\ latest_id(since, ids) \in Ids(log)
<1>1. PICK k \in 0..Limit : ids \in [1..k -> {i \in Visible : i > since}]
  BY DEF Page
<1>2. k \in Nat
  BY SyncAssumption
<1>3. Len(ids) = k /\ ids \in Seq(Visible)
  BY <1>1, <1>2
<1>4. Visible \subseteq 1..Len(log) /\ Visible \subseteq Ids(log)
  BY DEF Visible, Ids
<1>5. \A i \in 1..k : Action(log[ids[i]].ent, log[ids[i]].x, ids[i]) \in Messages(log)
  <2> SUFFICES ASSUME NEW i \in 1..k
               PROVE  Action(log[ids[i]].ent, log[ids[i]].x, ids[i]) \in Messages(log)
    OBVIOUS
  <2>1. ids[i] \in 1..Len(log)
    BY <1>1, <1>4
  <2>2. log[ids[i]] \in LogRows
    BY <2>1
  <2> QED
    BY <2>1, <2>2 DEF Action, Messages, LogRows
<1>6. Entries(ids) \in Seq(Messages(log))
  BY <1>2, <1>3, <1>5 DEF Entries
<1>7. ASSUME ids = <<>> PROVE latest_id(since, ids) \in Ids(log)
  BY <1>7 DEF latest_id
<1>8. ASSUME ids # <<>> PROVE latest_id(since, ids) \in Ids(log)
  <2>1. k >= 1
    BY <1>2, <1>3, <1>8
  <2>2. ids[k] \in Visible
    BY <1>1, <1>2, <2>1
  <2> QED
    BY <1>3, <1>4, <1>8, <2>2 DEF latest_id
<1> QED
  BY <1>6, <1>7, <1>8

LEMMA EmptyType == Empty \in Caches
BY DEF Empty, Caches, Rows, NoEntity

(* A step that keeps the committed rows keeps what refers to them. *)
LEMMA Grow ==
    ASSUME Ids(log) \subseteq Ids(log'), WireOK, DeviceOK,
           UNCHANGED <<queue, ask, handler, store, idb, cursor, jobs>>
    PROVE  WireOK' /\ DeviceOK'
<1>1. WireOK'
  BY GrowSeqs DEF WireOK
<1>2. DeviceOK'
  BY GrowSeqs DEF DeviceOK
<1> QED
  BY <1>1, <1>2

LEMMA ServerSame ==
    ASSUME ServerOK, Inserting, UNCHANGED server_vars
    PROVE  ServerOK' /\ Inserting'
BY DEF ServerOK, Inserting, server_vars

LEMMA DeviceSame ==
    ASSUME DeviceOK, UNCHANGED <<log, store, idb, cursor, jobs>>
    PROVE  DeviceOK'
BY DEF DeviceOK

-----------------------------------------------------------------------------
(* Writers. *)

LEMMA InitIInv == Init => IInv
<1> SUFFICES ASSUME Init PROVE IInv
  OBVIOUS
<1>1. db \in Caches
  <2>1. {NoEntity, [chg |-> 0, live |-> TRUE]} \subseteq Rows
    BY DEF Rows, NoEntity
  <2>2. db \in [Entities -> {NoEntity, [chg |-> 0, live |-> TRUE]}]
    BY DEF Init
  <2> QED
    BY <2>1, <2>2 DEF Caches
<1>2. ServerOK /\ Inserting
  BY <1>1 DEF Init, ServerOK, Inserting, Writings, Idle
<1>3. WireOK
  BY DEF Init, WireOK, Handlers
<1>4. Hydrate \in Jobs(log)
  BY DEF Hydrate, Job, Jobs, Ops
<1>5. DeviceOK
  BY <1>4, EmptyType DEF Init, DeviceOK, Ids
<1> QED
  BY <1>2, <1>3, <1>5 DEF IInv

LEMMA MutateStep ==
    ASSUME IInv, NEW w \in Writers, NEW e \in Entities, NEW live \in BOOLEAN, Mutate(w, e, live)
    PROVE  IInv'
<1> DEFINE x == [chg |-> changes + 1, live |-> live]
           entry == [at |-> IF live THEN "mutated" ELSE "fetched", ent |-> e, x |-> x, id |-> 0]
<1>1. x \in Rows /\ entry \in Writings /\ entry.at # "inserting"
  BY DEF IInv, ServerOK, Rows, Writings
<1>2. /\ changes' = changes + 1 /\ db' = [db EXCEPT ![e] = x]
      /\ writer' = [writer EXCEPT ![w] = entry]
      /\ UNCHANGED <<log, wire_vars, store, idb, cursor, jobs>>
  BY DEF Mutate, disk_vars, page_vars
<1> HIDE DEF x, entry
<1>3. ServerOK'
  BY <1>1, <1>2 DEF IInv, ServerOK, Caches
<1>4. Inserting'
  BY <1>1, <1>2 DEF IInv, ServerOK, Inserting
<1>5. WireOK' /\ DeviceOK'
  BY <1>2 DEF IInv, WireOK, DeviceOK, wire_vars
<1> QED
  BY <1>3, <1>4, <1>5 DEF IInv

LEMMA WriterType ==
    ASSUME ServerOK, NEW w \in Writers, writer[w] # Idle
    PROVE  writer[w] \in [at: {"mutated", "fetched", "inserting", "logged"},
                          ent: Entities, x: Rows, id: Nat]
BY DEF ServerOK, Writings

LEMMA FetchStep ==
    ASSUME IInv, NEW w \in Writers, Fetch(w)
    PROVE  IInv'
<1>1. writer[w] # Idle /\ writer[w].at = "mutated"
  BY DEF Fetch, Idle
<1>2. writer[w] \in [at: {"mutated", "fetched", "inserting", "logged"},
                     ent: Entities, x: Rows, id: Nat]
  BY <1>1, WriterType DEF IInv
<1>3. PICK y \in Writings : y.at # "inserting" /\ writer' = [writer EXCEPT ![w] = y]
  <2>1. CASE writer' = [writer EXCEPT ![w].at = "fetched", ![w].x = db[writer[w].ent]]
    <3>1. db[writer[w].ent] \in Rows
      BY <1>2 DEF IInv, ServerOK, Caches
    <3>2. [writer[w] EXCEPT !.at = "fetched", !.x = db[writer[w].ent]] \in Writings
      BY <1>2, <3>1 DEF Writings
    <3>3. writer' = [writer EXCEPT ![w] =
                        [writer[w] EXCEPT !.at = "fetched", !.x = db[writer[w].ent]]]
      BY <2>1 DEF IInv, ServerOK
    <3> QED
      BY <1>2, <3>2, <3>3
  <2>2. CASE writer' = [writer EXCEPT ![w].at = "logged"]
    <3>1. [writer[w] EXCEPT !.at = "logged"] \in Writings
      BY <1>2 DEF Writings
    <3>2. writer' = [writer EXCEPT ![w] = [writer[w] EXCEPT !.at = "logged"]]
      BY <2>2 DEF IInv, ServerOK
    <3> QED
      BY <1>2, <3>1, <3>2
  <2> QED
    BY <2>1, <2>2 DEF Fetch
<1>4. UNCHANGED <<db, changes, log, wire_vars, store, idb, cursor, jobs>>
  BY DEF Fetch, disk_vars, page_vars
<1>5. ServerOK' /\ Inserting'
  BY <1>3, <1>4 DEF IInv, ServerOK, Inserting
<1>6. WireOK' /\ DeviceOK'
  BY <1>4 DEF IInv, WireOK, DeviceOK, wire_vars
<1> QED
  BY <1>5, <1>6 DEF IInv

LEMMA TakeIdStep ==
    ASSUME IInv, NEW w \in Writers, TakeId(w)
    PROVE  IInv'
<1> DEFINE r == [ent |-> writer[w].ent, x |-> writer[w].x, at |-> "pending"]
           y == [writer[w] EXCEPT !.at = "inserting", !.id = Len(log) + 1]
<1>1. writer[w] # Idle
  BY DEF TakeId, Idle
<1>2. writer[w] \in [at: {"mutated", "fetched", "inserting", "logged"},
                     ent: Entities, x: Rows, id: Nat]
  BY <1>1, WriterType DEF IInv
<1>3. r \in LogRows /\ y \in Writings /\ y.id = Len(log) + 1 /\ r.at = "pending"
  <2>1. Len(log) + 1 \in Nat
    BY DEF IInv, ServerOK
  <2>2. y \in Writings /\ y.id = Len(log) + 1
    BY <1>2, <2>1 DEF Writings
  <2>3. r \in LogRows /\ r.at = "pending"
    BY <1>2 DEF LogRows
  <2> QED
    BY <2>2, <2>3
<1>4. log' = Append(log, r) /\ writer' = [writer EXCEPT ![w] = y]
  BY DEF TakeId, IInv, ServerOK
<1>5. UNCHANGED <<db, changes, wire_vars, store, idb, cursor, jobs>>
  BY DEF TakeId, disk_vars, page_vars
<1> HIDE DEF r, y
<1>6. log \in Seq(LogRows)
  BY DEF IInv, ServerOK
<1>7. /\ Len(log') = Len(log) + 1 /\ log' \in Seq(LogRows)
      /\ \A i \in 1..Len(log) : log'[i] = log[i]
      /\ log'[Len(log) + 1] = r
  BY <1>3, <1>4, <1>6
<1>8. ServerOK'
  BY <1>3, <1>4, <1>5, <1>7 DEF IInv, ServerOK
<1>9. Inserting'
  <2>1. ASSUME NEW v \in Writers, writer'[v].at = "inserting"
        PROVE  /\ writer'[v].id \in 1..Len(log') /\ log'[writer'[v].id].at = "pending"
               /\ v # w => writer'[v].id < Len(log) + 1
               /\ v = w => writer'[v].id = Len(log) + 1
    <3>1. CASE v = w
      BY <1>3, <1>4, <1>6, <1>7, <3>1 DEF IInv, ServerOK
    <3>2. CASE v # w
      <4>1. writer'[v] = writer[v]
        BY <1>4, <3>2 DEF IInv, ServerOK
      <4>2. writer[v].id \in 1..Len(log) /\ log[writer[v].id].at = "pending"
        BY <2>1, <4>1 DEF IInv, Inserting
      <4> QED
        BY <1>6, <1>7, <3>2, <4>1, <4>2
    <3> QED
      BY <3>1, <3>2
  <2>2. ASSUME NEW u \in Writers, NEW v \in Writers, u # v,
               writer'[u].at = "inserting", writer'[v].at = "inserting"
        PROVE  writer'[u].id # writer'[v].id
    <3>1. CASE u = w \/ v = w
      BY <1>6, <2>1, <2>2, <3>1
    <3>2. CASE u # w /\ v # w
      <4>1. writer'[u] = writer[u] /\ writer'[v] = writer[v]
        BY <1>4, <3>2 DEF IInv, ServerOK
      <4> QED
        BY <2>2, <4>1 DEF IInv, Inserting
    <3> QED
      BY <3>1, <3>2
  <2> QED
    BY <2>1, <2>2 DEF Inserting
<1>10. Ids(log) \subseteq Ids(log')
  BY <1>6, <1>7 DEF Ids
<1>11. WireOK' /\ DeviceOK'
  BY <1>5, <1>10, Grow DEF IInv, wire_vars
<1> QED
  BY <1>8, <1>9, <1>11 DEF IInv

LEMMA CommitStep ==
    ASSUME IInv, NEW w \in Writers, Commit(w)
    PROVE  IInv'
<1> DEFINE y == [writer[w] EXCEPT !.at = "logged"]
           n == writer[w].id
<1>1. writer[w] # Idle /\ writer[w].at = "inserting"
  BY DEF Commit, Idle
<1>2. writer[w] \in [at: {"mutated", "fetched", "inserting", "logged"},
                     ent: Entities, x: Rows, id: Nat]
  BY <1>1, WriterType DEF IInv
<1>3. y \in Writings /\ y.at # "inserting"
  BY <1>2 DEF Writings
<1>4. PICK result \in {"visible", "void"} : log' = [log EXCEPT ![n].at = result]
  BY DEF Commit
<1>5. /\ writer' = [writer EXCEPT ![w] = y]
      /\ UNCHANGED <<db, changes, wire_vars, store, idb, cursor, jobs>>
  BY DEF Commit, IInv, ServerOK, disk_vars, page_vars
<1>6. log \in Seq(LogRows) /\ n \in 1..Len(log) /\ log[n].at = "pending"
  BY <1>1 DEF IInv, ServerOK, Inserting
<1> HIDE DEF y, n
<1>7. /\ Len(log') = Len(log) /\ log' \in Seq(LogRows)
      /\ \A i \in 1..Len(log) : i # n => log'[i] = log[i]
  <2>1. log[n] \in LogRows
    BY <1>6
  <2>2. [log[n] EXCEPT !.at = result] \in LogRows
    BY <2>1 DEF LogRows
  <2>3. log' = [log EXCEPT ![n] = [log[n] EXCEPT !.at = result]]
    BY <1>4, <1>6
  <2> QED
    BY <1>6, <2>2, <2>3
<1>8. ServerOK'
  BY <1>3, <1>5, <1>7 DEF IInv, ServerOK
<1>9. \A v \in Writers : writer'[v].at = "inserting" => v # w /\ writer'[v] = writer[v]
  BY <1>3, <1>5 DEF IInv, ServerOK
<1>10. \A v \in Writers : v # w /\ writer[v].at = "inserting" => writer[v].id # n
  BY <1>1 DEF IInv, Inserting, n
<1>11. Inserting'
  BY <1>7, <1>9, <1>10 DEF IInv, Inserting
<1>12. Ids(log) \subseteq Ids(log')
  BY <1>6, <1>7 DEF Ids
<1>13. WireOK' /\ DeviceOK'
  BY <1>5, <1>12, Grow DEF IInv, wire_vars
<1> QED
  BY <1>8, <1>11, <1>13 DEF IInv

LEMMA BroadcastStep ==
    ASSUME IInv, NEW w \in Writers, Broadcast(w)
    PROVE  IInv'
<1> DEFINE e == writer[w].ent
           m == Action(e, IF ~writer[w].x.live THEN NoEntity ELSE db[e], Broadcasted)
<1>1. writer[w] # Idle
  BY DEF Broadcast, Idle
<1>2. e \in Entities /\ db[e] \in Rows
  BY <1>1, WriterType DEF IInv, ServerOK, Caches
<1>3. m \in Messages(log)
  BY <1>2 DEF Action, Messages, Broadcasted, NoEntity, Rows
<1>4. /\ Send(<<m>>) \/ queue' = queue
      /\ writer' = [writer EXCEPT ![w] = Idle]
      /\ UNCHANGED <<db, changes, log, ask, handler, store, idb, cursor, jobs>>
  BY DEF Broadcast, disk_vars, page_vars
<1> HIDE DEF m
<1>5. queue' \in Seq(Messages(log))
  <2>1. <<m>> \in Seq(Messages(log))
    BY <1>3
  <2> QED
    BY <1>4, <2>1, SendType DEF IInv, WireOK
<1>6. ServerOK' /\ Inserting'
  BY <1>4 DEF IInv, ServerOK, Inserting, Writings, Idle
<1>7. WireOK' /\ DeviceOK'
  BY <1>4, <1>5 DEF IInv, WireOK, DeviceOK
<1> QED
  BY <1>6, <1>7 DEF IInv

LEMMA PruneStep ==
    ASSUME IInv, Prune
    PROVE  IInv'
<1>1. PICK n \in Visible :
          log' = [i \in 1..Len(log) |->
                     IF i \in Visible /\ i <= n THEN [log[i] EXCEPT !.at = "pruned"] ELSE log[i]]
  BY DEF Prune
<1>2. UNCHANGED <<db, changes, writer, wire_vars, store, idb, cursor, jobs>>
  BY DEF Prune, disk_vars, page_vars
<1>3. log \in Seq(LogRows)
  BY DEF IInv, ServerOK
<1>4. /\ Len(log') = Len(log) /\ log' \in Seq(LogRows)
      /\ \A i \in 1..Len(log) :
            \/ log'[i] = log[i]
            \/ log[i].at = "visible" /\ log'[i].at = "pruned"
  <2>1. ASSUME NEW i \in 1..Len(log)
        PROVE  /\ log'[i] \in LogRows
               /\ \/ log'[i] = log[i]
                  \/ log[i].at = "visible" /\ log'[i].at = "pruned"
    <3>1. log[i] \in LogRows
      BY <1>3
    <3>2. [log[i] EXCEPT !.at = "pruned"] \in LogRows /\ [log[i] EXCEPT !.at = "pruned"].at = "pruned"
      BY <3>1 DEF LogRows
    <3> QED
      BY <1>1, <3>1, <3>2 DEF Visible
  <2>2. Len(log) \in Nat /\ DOMAIN log' = 1..Len(log)
    BY <1>1, <1>3
  <2>3. log' \in [1..Len(log) -> LogRows]
    BY <1>1, <2>1
  <2> QED
    BY <2>1, <2>2, <2>3
<1>5. ServerOK' /\ Inserting'
  BY <1>2, <1>4 DEF IInv, ServerOK, Inserting
<1>6. Ids(log) \subseteq Ids(log')
  BY <1>3, <1>4 DEF Ids
<1>7. WireOK' /\ DeviceOK'
  BY <1>2, <1>6, Grow DEF IInv, wire_vars
<1> QED
  BY <1>5, <1>7 DEF IInv

-----------------------------------------------------------------------------
(* The receive task. *)

(* A step that leaves the server and the page alone. *)
LEMMA WireStep ==
    ASSUME IInv, WireOK', UNCHANGED <<server_vars, store, idb, cursor, jobs>>
    PROVE  IInv'
<1>1. ServerOK' /\ Inserting'
  BY ServerSame DEF IInv
<1>2. DeviceOK'
  BY DeviceSame DEF IInv, server_vars
<1> QED
  BY <1>1, <1>2 DEF IInv

LEMMA TakenType ==
    ASSUME WireOK, NEW type, Taken(type)
    PROVE  ask' \in Seq(Requests(log)) /\ Head(ask) \in Requests(log) /\ Head(ask).at = type
BY DEF WireOK, Taken

LEMMA BootstrapSteps ==
    ASSUME IInv, BootstrapLists \/ BootstrapReads \/ BootstrapStreams \/ RefusedByGate
    PROVE  IInv'
<1>1. CASE BootstrapLists
  <2>1. ask' \in Seq(Requests(log))
    BY <1>1, TakenType DEF BootstrapLists, IInv
  <2>2. handler' \in Handlers(log)
    <3>1. db \in Caches /\ Count(db) \in Nat
      BY LiveFinite DEF IInv, ServerOK
    <3>2. Unknown \in Int /\ Empty \in Caches
      BY EmptyType DEF Unknown
    <3> QED
      BY <1>1, <3>1, <3>2 DEF BootstrapLists, Handlers
  <2>3. WireOK'
    BY <1>1, <2>1, <2>2 DEF BootstrapLists, IInv, WireOK, server_vars
  <2> QED
    BY <1>1, <2>3, WireStep DEF BootstrapLists, disk_vars, page_vars
<1>2. CASE BootstrapReads
  <2>1. PICK id \in 0..Len(log) :
            /\ get_latest_sync_id(id) \/ id = 0
            /\ handler' = [at |-> "stream", rows |-> handler.rows, count |-> handler.count, id |-> id]
    BY <1>2 DEF BootstrapReads
  <2>2. id \in Ids(log)
    BY <2>1 DEF get_latest_sync_id, Visible, Ids
  <2>3. handler.rows \in Caches /\ handler.count \in Int
    BY <1>2 DEF BootstrapReads, IInv, WireOK, Handlers, Idle
  <2>4. handler' \in Handlers(log)
    BY <2>1, <2>2, <2>3 DEF Handlers
  <2>5. WireOK'
    BY <1>2, <2>4 DEF BootstrapReads, IInv, WireOK, server_vars
  <2> QED
    BY <1>2, <2>5, WireStep DEF BootstrapReads, disk_vars, page_vars
<1>3. CASE BootstrapStreams
  <2> DEFINE rows == SetToSeq(Live(handler.rows))
             sent == [i \in 1..Len(rows) |-> Action(rows[i], handler.rows[rows[i]], 0)]
             last == Complete(handler.id, handler.count)
  <2>1. handler.rows \in Caches /\ handler.count \in Int /\ handler.id \in Ids(log)
    BY <1>3 DEF BootstrapStreams, IInv, WireOK, Handlers, Idle
  <2>2. rows \in Seq(Live(handler.rows)) /\ Live(handler.rows) \subseteq Entities
    BY <2>1, LiveFinite, SetToSeqType
  <2>3. \A i \in 1..Len(rows) : rows[i] \in Entities
    BY <2>2
  <2> HIDE DEF rows
  <2>4. \A i \in 1..Len(rows) : Action(rows[i], handler.rows[rows[i]], 0) \in Messages(log)
    <3>1. \A i \in 1..Len(rows) : handler.rows[rows[i]] \in Rows
      BY <2>1, <2>3 DEF Caches
    <3> QED
      BY <2>3, <3>1 DEF Action, Messages
  <2>5. sent \in Seq(Messages(log))
    BY <2>2, <2>4
  <2>6. last \in Messages(log)
    BY <2>1 DEF Complete, Messages
  <2> HIDE DEF sent, last
  <2>7. Append(sent, last) \in Seq(Messages(log))
    BY <2>5, <2>6
  <2>8. Send(Append(sent, last))
    BY <1>3 DEF BootstrapStreams, sent, last, rows
  <2>9. queue' \in Seq(Messages(log))
    BY <2>7, <2>8, SendType DEF IInv, WireOK
  <2>10. WireOK'
    BY <1>3, <2>9 DEF BootstrapStreams, IInv, WireOK, Handlers, server_vars
  <2> QED
    BY <1>3, <2>10, WireStep DEF BootstrapStreams, disk_vars, page_vars
<1>4. CASE RefusedByGate
  <2>1. WireOK'
    BY <1>4 DEF RefusedByGate, IInv, WireOK, server_vars
  <2> QED
    BY <1>4, <2>1, WireStep DEF RefusedByGate, disk_vars, page_vars
<1> QED
  BY <1>1, <1>2, <1>3, <1>4

LEMMA ResetType == <<Reset>> \in Seq(Messages(log))
<1>1. Reset \in Messages(log)
  BY DEF Reset, Messages
<1> QED
  BY <1>1

LEMMA DeltaSteps ==
    ASSUME IInv, DeltaChecks \/ DeltaFetches \/ DeltaCounts
    PROVE  IInv'
<1>1. CASE DeltaChecks
  <2>1. ask' \in Seq(Requests(log)) /\ Head(ask).since \in Ids(log)
    <3>1. Taken("delta")
      BY <1>1 DEF DeltaChecks
    <3> QED
      BY <3>1, TakenType DEF IInv, Requests
  <2>2. queue' \in Seq(Messages(log))
    <3>1. queue' = queue \/ Send(<<Reset>>)
      BY <1>1 DEF DeltaChecks
    <3> QED
      BY <3>1, ResetType, SendType DEF IInv, WireOK
  <2>3. handler' \in Handlers(log)
    BY <1>1, <2>1 DEF DeltaChecks, Handlers, IInv, WireOK
  <2>4. WireOK'
    BY <1>1, <2>1, <2>2, <2>3 DEF DeltaChecks, WireOK, server_vars
  <2> QED
    BY <1>1, <2>4, WireStep DEF DeltaChecks, disk_vars, page_vars
<1>2. CASE DeltaFetches
  <2>1. handler.since \in Ids(log)
    BY <1>2 DEF DeltaFetches, IInv, WireOK, Handlers, Idle
  <2>2. queue' \in Seq(Messages(log)) /\ handler' \in Handlers(log)
    <3>1. ASSUME NEW ids \in Page(handler.since), Send(Entries(ids)),
                 handler' = [at |-> "counting", id |-> latest_id(handler.since, ids)]
          PROVE  queue' \in Seq(Messages(log)) /\ handler' \in Handlers(log)
      <4>1. Entries(ids) \in Seq(Messages(log)) /\ latest_id(handler.since, ids) \in Ids(log)
        BY <2>1, EntriesType DEF IInv, ServerOK
      <4> QED
        BY <3>1, <4>1, SendType DEF IInv, WireOK, Handlers
    <3>2. CASE handler' = [at |-> "counting", id |-> handler.since] /\ queue' = queue
      BY <2>1, <3>2 DEF IInv, WireOK, Handlers
    <3> QED
      BY <1>2, <3>1, <3>2 DEF DeltaFetches
  <2>3. WireOK'
    BY <1>2, <2>2 DEF DeltaFetches, IInv, WireOK, server_vars
  <2> QED
    BY <1>2, <2>3, WireStep DEF DeltaFetches, disk_vars, page_vars
<1>3. CASE DeltaCounts
  <2>1. handler.id \in Ids(log)
    BY <1>3 DEF DeltaCounts, IInv, WireOK, Handlers, Idle
  <2>2. PICK n \in {Count(db), Unknown} : Send(<<Complete(handler.id, n)>>)
    BY <1>3 DEF DeltaCounts
  <2>3. n \in Int
    BY LiveFinite DEF IInv, ServerOK, Unknown
  <2>4. Complete(handler.id, n) \in Messages(log)
    BY <2>1, <2>3 DEF Complete, Messages
  <2>5. <<Complete(handler.id, n)>> \in Seq(Messages(log))
    BY <2>4
  <2>6. queue' \in Seq(Messages(log))
    BY <2>2, <2>5, SendType DEF IInv, WireOK
  <2>7. WireOK'
    BY <1>3, <2>6 DEF DeltaCounts, IInv, WireOK, Handlers, server_vars
  <2> QED
    BY <1>3, <2>7, WireStep DEF DeltaCounts, disk_vars, page_vars
<1> QED
  BY <1>1, <1>2, <1>3

LEMMA OtherStep ==
    ASSUME IInv, NEW since \in 1..Len(log), OtherAnswered(since)
    PROVE  IInv'
<1>1. queue' \in Seq(Messages(log))
  <2>1. ASSUME log[since].at = "visible", NEW ids \in Page(since),
               Send(Append(Entries(ids), Complete(latest_id(since, ids), Count(db))))
        PROVE  queue' \in Seq(Messages(log))
    <3> DEFINE m == Complete(latest_id(since, ids), Count(db))
    <3>1. since \in Ids(log)
      BY <2>1 DEF Ids
    <3>2. Entries(ids) \in Seq(Messages(log)) /\ latest_id(since, ids) \in Ids(log)
      BY <3>1, EntriesType DEF IInv, ServerOK
    <3>3. Count(db) \in Nat
      BY LiveFinite DEF IInv, ServerOK
    <3>4. m \in Messages(log)
      BY <3>2, <3>3 DEF Complete, Messages
    <3> HIDE DEF m
    <3>5. Append(Entries(ids), m) \in Seq(Messages(log))
      BY <3>2, <3>4
    <3> QED
      BY <2>1, <3>5, SendType DEF m, IInv, WireOK
  <2>2. CASE Send(<<Reset>>)
    BY <2>2, ResetType, SendType DEF IInv, WireOK
  <2> QED
    BY <2>1, <2>2 DEF OtherAnswered
<1>2. WireOK'
  BY <1>1 DEF OtherAnswered, IInv, WireOK, server_vars
<1> QED
  BY <1>2, WireStep DEF OtherAnswered, disk_vars, page_vars

-----------------------------------------------------------------------------
(* The page. *)

(* A step that leaves the server alone. *)
LEMMA PageStep ==
    ASSUME IInv, WireOK', DeviceOK', UNCHANGED server_vars
    PROVE  IInv'
BY ServerSame DEF IInv

LEMMA StartsType == Hydrate \in Jobs(log) /\ Catchup \in Jobs(log)
BY DEF Hydrate, Catchup, Job, Jobs, Ops

LEMMA LinkSteps ==
    ASSUME IInv, Connect \/ Disconnect \/ Reload \/ BillingChanged \/ ForgetSeen
    PROVE  IInv'
<1> USE DEF server_vars
<1>1. CASE Connect \/ BillingChanged
  <2>1. jobs' \in Seq(Jobs(log))
    BY <1>1, StartsType DEF Connect, BillingChanged, IInv, DeviceOK
  <2>2. WireOK' /\ DeviceOK'
    BY <1>1, <2>1 DEF Connect, BillingChanged, IInv, WireOK, DeviceOK, wire_vars, disk_vars, page_vars
  <2> QED
    BY <1>1, <2>2, PageStep DEF Connect, BillingChanged
<1>2. CASE Disconnect \/ Reload
  <2>1. /\ queue' = <<>> /\ ask' = <<>> /\ handler' = Idle
        /\ UNCHANGED <<server_vars, idb, cursor>>
    BY <1>2 DEF Disconnect, Reload, CutOff, disk_vars
  <2>2. store' \in Caches /\ jobs' \in Seq(Jobs(log))
    <3>1. <<Hydrate>> \in Seq(Jobs(log))
      BY StartsType
    <3> QED
      BY <1>2, <3>1, EmptyType DEF Disconnect, Reload, page_vars, IInv, DeviceOK
  <2>3. WireOK'
    BY <2>1 DEF WireOK, Handlers
  <2>4. DeviceOK'
    BY <2>1, <2>2 DEF IInv, DeviceOK
  <2> QED
    BY <2>1, <2>3, <2>4, PageStep
<1>3. CASE ForgetSeen
  BY <1>3, PageStep DEF ForgetSeen, IInv, WireOK, DeviceOK, wire_vars, disk_vars
<1> QED
  BY <1>1, <1>2, <1>3

LEMMA HeadType ==
    ASSUME NEW M, NEW q \in Seq(M), q # <<>>
    PROVE  Head(q) \in M /\ Tail(q) \in Seq(M)
OBVIOUS

LEMMA ReceiveSteps ==
    ASSUME IInv, Receive
    PROVE  IInv'
<1> USE DEF server_vars
<1>1. Head(queue) \in Messages(log) /\ queue' \in Seq(Messages(log))
  BY HeadType
     DEF Receive, apply_sync_action, sync_complete, sync_reset, SkipDuplicate, Received, IInv, WireOK
<1>2. UNCHANGED <<server_vars, ask, handler, idb, cursor>>
  BY DEF Receive, apply_sync_action, sync_complete, sync_reset, SkipDuplicate, disk_vars
<1>3. WireOK'
  BY <1>1, <1>2 DEF IInv, WireOK
<1>4. store' \in Caches /\ jobs' \in Seq(Jobs(log))
  <2> DEFINE m == Head(queue)
  <2>1. CASE apply_sync_action
    <3> DEFINE x == IF m.x.live THEN m.x ELSE NoEntity
               op == [op |-> "put", ent |-> m.ent, x |-> x]
    <3>1. m.t = "action"
      BY <2>1 DEF apply_sync_action, Received
    <3>2. m.ent \in Entities /\ m.x \in Rows
      BY <1>1, <3>1 DEF Messages
    <3>3. x \in Rows
      BY <3>2 DEF Rows, NoEntity
    <3>4. store' = [store EXCEPT ![m.ent] = x] /\ jobs' = Append(jobs, Job(<<op>>))
      BY <2>1 DEF apply_sync_action
    <3>5. Job(<<op>>) \in Jobs(log)
      <4>1. op \in Ops(log)
        BY <3>2, <3>3 DEF Ops
      <4>2. <<op>> \in Seq(Ops(log)) \ {<<>>}
        BY <4>1
      <4> QED
        BY <4>2 DEF Job, Jobs
    <3> HIDE DEF x, op
    <3>6. store \in Caches /\ jobs \in Seq(Jobs(log))
      BY DEF IInv, DeviceOK
    <3>7. store' \in Caches
      BY <3>2, <3>3, <3>4, <3>6 DEF Caches
    <3>8. jobs' \in Seq(Jobs(log))
      <4> DEFINE j == Job(<<op>>)
      <4>1. j \in Jobs(log) /\ jobs' = Append(jobs, j)
        BY <3>4, <3>5
      <4> HIDE DEF j
      <4> QED
        BY <3>6, <4>1
    <3> QED
      BY <3>7, <3>8
  <2>2. CASE sync_complete
    <3> DEFINE save == [op |-> "cursor", id |-> m.id]
               wipe == [op |-> "wipe"]
               fill == [op |-> "bootstrap"]
    <3>1. m.t = "complete"
      BY <2>2 DEF sync_complete, Received
    <3>2. {save, wipe, fill} \subseteq Ops(log)
      BY <1>1, <3>1 DEF Messages, Ops
    <3>3. store' = Empty \/ store' = store
      BY <2>2 DEF sync_complete
    <3>4. jobs' = Append(jobs, Job(<<save>> \o <<wipe, fill>>)) \/ jobs' = Append(jobs, Job(<<save>>))
      BY <2>2 DEF sync_complete
    <3> HIDE DEF save, wipe, fill
    <3>5. /\ <<save>> \o <<wipe, fill>> \in Seq(Ops(log)) \ {<<>>}
          /\ <<save>> \in Seq(Ops(log)) \ {<<>>}
      BY <3>2
    <3>6. Job(<<save>> \o <<wipe, fill>>) \in Jobs(log) /\ Job(<<save>>) \in Jobs(log)
      BY <3>5 DEF Job, Jobs
    <3> QED
      BY <3>3, <3>4, <3>6, EmptyType DEF IInv, DeviceOK
  <2>3. CASE sync_reset
    <3> DEFINE save == [op |-> "cursor", id |-> 0]
               wipe == [op |-> "wipe"]
               fill == [op |-> "bootstrap"]
    <3>1. {save, wipe, fill} \subseteq Ops(log)
      BY DEF Ops, Ids
    <3>2. store' = Empty /\ jobs' = Append(jobs, Job(<<wipe, save, fill>>))
      BY <2>3 DEF sync_reset
    <3> HIDE DEF save, wipe, fill
    <3>3. <<wipe, save, fill>> \in Seq(Ops(log)) \ {<<>>}
      BY <3>1
    <3>4. Job(<<wipe, save, fill>>) \in Jobs(log)
      BY <3>3 DEF Job, Jobs
    <3> QED
      BY <3>2, <3>4, EmptyType DEF IInv, DeviceOK
  <2>4. CASE SkipDuplicate
    BY <2>4 DEF SkipDuplicate, page_vars, IInv, DeviceOK
  <2> QED
    BY <2>1, <2>2, <2>3, <2>4 DEF Receive
<1>5. DeviceOK'
  BY <1>2, <1>4 DEF IInv, DeviceOK
<1> QED
  BY <1>2, <1>3, <1>5, PageStep

(* What is left of the tasks after a step of one. *)
LEMMA LeaveType ==
    ASSUME NEW J, jobs \in Seq([ops: Seq(J) \ {<<>>}, begun: BOOLEAN]),
           NEW i \in 1..Len(jobs), NEW ops \in Seq(J), Leave(i, ops)
    PROVE  jobs' \in Seq([ops: Seq(J) \ {<<>>}, begun: BOOLEAN])
<1> DEFINE T == [ops: Seq(J) \ {<<>>}, begun: BOOLEAN]
<1>1. CASE ops = <<>>
  <2>1. jobs' = SubSeq(jobs, 1, i - 1) \o SubSeq(jobs, i + 1, Len(jobs))
    BY <1>1 DEF Leave, RemoveAt
  <2> HIDE DEF T
  <2>2. jobs \in Seq(T)
    BY DEF T
  <2>3. SubSeq(jobs, 1, i - 1) \in Seq(T) /\ SubSeq(jobs, i + 1, Len(jobs)) \in Seq(T)
    BY <2>2
  <2> QED
    BY <2>1, <2>3 DEF T
<1>2. CASE ops # <<>>
  <2>1. [ops |-> ops, begun |-> TRUE] \in T
    BY <1>2
  <2>2. jobs' = [jobs EXCEPT ![i] = [ops |-> ops, begun |-> TRUE]]
    BY <1>2 DEF Leave
  <2> HIDE DEF T
  <2>3. jobs \in Seq(T)
    BY DEF T
  <2> QED
    BY <2>1, <2>2, <2>3 DEF T
<1> QED
  BY <1>1, <1>2

LEMMA TaskStep ==
    ASSUME IInv, NEW i \in 1..Len(jobs), Task(i)
    PROVE  IInv'
<1> USE DEF server_vars
<1> DEFINE ops == jobs[i].ops
           op == Head(ops)
<1>1. ops \in Seq(Ops(log)) /\ ops # <<>>
  <2>1. jobs[i] \in Jobs(log)
    BY DEF IInv, DeviceOK
  <2> QED
    BY <2>1 DEF Jobs
<1>2. op \in Ops(log) /\ Tail(ops) \in Seq(Ops(log)) /\ Last(ops) \in Ops(log)
  <2>1. Len(ops) \in 1..Len(ops)
    BY <1>1
  <2> HIDE DEF ops
  <2> QED
    BY <1>1, <2>1 DEF Last
<1>3. jobs' \in Seq(Jobs(log))
  <2>1. \/ Leave(i, Tail(ops))
        \/ Leave(i, <<Last(ops)>>)
    BY DEF Task, Put, Wipe, SetCursor, TaskFails, AskBootstrap, RequestCatchup,
           hydrate_store_from_db, Done
  <2>2. <<Last(ops)>> \in Seq(Ops(log))
    BY <1>2
  <2>3. jobs \in Seq([ops: Seq(Ops(log)) \ {<<>>}, begun: BOOLEAN])
    BY DEF IInv, DeviceOK, Jobs
  <2> HIDE DEF ops
  <2>4. jobs' \in Seq([ops: Seq(Ops(log)) \ {<<>>}, begun: BOOLEAN])
    BY <1>2, <2>1, <2>2, <2>3, LeaveType
  <2> QED
    BY <2>4 DEF Jobs
<1>4. idb' \in Caches
  <2>1. CASE Put(i)
    <3>1. op.ent \in Entities /\ op.x \in Rows /\ idb' = [idb EXCEPT ![op.ent] = op.x]
      BY <1>2, <2>1 DEF Put, Runs, Ops
    <3> QED
      BY <3>1 DEF IInv, DeviceOK, Caches
  <2>2. CASE Wipe(i)
    BY <2>2, EmptyType DEF Wipe
  <2> QED
    BY <2>1, <2>2 DEF Task, SetCursor, TaskFails, AskBootstrap, RequestCatchup,
           hydrate_store_from_db, disk_vars, IInv, DeviceOK
<1>5. cursor' \in Ids(log)
  <2>1. CASE SetCursor(i)
    BY <1>2, <2>1 DEF SetCursor, Runs, Ops
  <2> QED
    BY <2>1 DEF Task, Put, Wipe, TaskFails, AskBootstrap, RequestCatchup,
           hydrate_store_from_db, disk_vars, IInv, DeviceOK
<1>6. store' \in Caches
  BY DEF Task, Put, Wipe, SetCursor, TaskFails, AskBootstrap, RequestCatchup,
         hydrate_store_from_db, page_vars, IInv, DeviceOK
<1>7. UNCHANGED <<server_vars, queue, handler>>
  BY DEF Task, Put, Wipe, SetCursor, TaskFails, AskBootstrap, RequestCatchup,
         hydrate_store_from_db, wire_vars
<1>8. ask' \in Seq(Requests(log))
  <2>1. ASSUME NEW r \in Requests(log), Request(r)
        PROVE  ask' \in Seq(Requests(log))
    BY <2>1 DEF Request, IInv, WireOK
  <2>2. CASE AskBootstrap(i)
    BY <2>1, <2>2 DEF AskBootstrap, Requests
  <2>3. CASE RequestCatchup(i)
    <3>1. PICK since \in {0, cursor} :
              Request(IF since = 0 THEN [at |-> "bootstrap"] ELSE [at |-> "delta", since |-> since])
      BY <2>3 DEF RequestCatchup
    <3>2. since \in Ids(log)
      BY DEF IInv, DeviceOK, Ids
    <3>3. (IF since = 0 THEN [at |-> "bootstrap"] ELSE [at |-> "delta", since |-> since]) \in Requests(log)
      BY <3>2 DEF Requests
    <3> QED
      BY <2>1, <3>1, <3>3
  <2> QED
    BY <2>2, <2>3 DEF Task, Put, Wipe, SetCursor, TaskFails,
           hydrate_store_from_db, wire_vars, IInv, WireOK
<1>9. WireOK' /\ DeviceOK'
  BY <1>3, <1>4, <1>5, <1>6, <1>7, <1>8 DEF IInv, WireOK, DeviceOK
<1> QED
  BY <1>7, <1>9, PageStep

LEMMA NextIInv == IInv /\ [Next]_vars => IInv'
<1> SUFFICES ASSUME IInv, [Next]_vars PROVE IInv'
  OBVIOUS
<1>1. ASSUME NEW w \in Writers, Write(w) PROVE IInv'
  BY <1>1, MutateStep, FetchStep, TakeIdStep, CommitStep, BroadcastStep DEF Write
<1>2. CASE Serve \/ RefusedByGate
  BY <1>2, BootstrapSteps, DeltaSteps DEF Serve
<1>3. ASSUME NEW since \in 1..Len(log), OtherAnswered(since) PROVE IInv'
  BY <1>3, OtherStep
<1>4. CASE Connect \/ Disconnect \/ Reload \/ BillingChanged \/ ForgetSeen
  BY <1>4, LinkSteps
<1>5. CASE Tasks
  BY <1>5, TaskStep DEF Tasks
<1>6. CASE UNCHANGED vars
  BY <1>6, ServerSame
     DEF IInv, WireOK, DeviceOK, vars, server_vars, wire_vars, disk_vars, page_vars
<1> QED
  BY <1>1, <1>2, <1>3, <1>4, <1>5, <1>6, PruneStep, ReceiveSteps DEF Next

(***************************************************************************)
(* The cursor names a committed row, or is 0: whatever is open or rolled   *)
(* back in the log, pruned, dropped, refused, answered to others or failed *)
(* in IndexedDB, and however the tasks of the page interleave.             *)
(***************************************************************************)
THEOREM CursorIsCommitted == Spec => []CursorNamesRow
<1>1. IInv => CursorNamesRow
  BY DEF IInv, DeviceOK, Ids, CursorNamesRow, Committed
<1> QED
  BY <1>1, InitIInv, NextIInv, PTL DEF Spec
=============================================================================
