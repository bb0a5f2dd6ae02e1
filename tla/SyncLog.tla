------------------------------ MODULE SyncLog -------------------------------
(***************************************************************************)
(* The sync log of a workspace and the caches that follow it: the writers  *)
(* of kyomi-auth (dashboard_service.rs, sync_log_service.rs, websocket/    *)
(* helpers.rs), the sync requests of the server (routes/websocket.rs), the *)
(* WebSocket manager (websocket/manager.rs) and the browser (kyomi-ui:     *)
(* websocket_client.rs, layout.rs, cache/sync_engine.rs, reconcile.rs and  *)
(* db.rs).                                                                 *)
(*                                                                         *)
(* One browser, called the device here, of a user who has others, and one  *)
(* reconciled entity type, all of it visible to the user.  Every change of *)
(* an entity has a number; a deleted entity does not come back.            *)
(***************************************************************************)
EXTENDS Integers, Sequences, FiniteSets, SequencesExt

CONSTANTS
    Entities,
    Writers,    \* requests that change entities
    MaxChanges, \* bound: changes made
    Limit,      \* rows of one delta (10,000)
    Capacity,   \* WS_CHANNEL_CAPACITY (256)
    MaxFaults,  \* bound: failed or refused statements, messages due to others
    MaxDrops,   \* bound: connections lost, pages closed
    OtherTraffic    \* whether other messages fill seen_messages (1000 keys) meanwhile

ASSUME SyncAssumption ==
    /\ {MaxChanges, MaxFaults, MaxDrops} \subseteq Nat
    /\ {Limit, Capacity} \subseteq Nat \ {0}
    /\ OtherTraffic \in BOOLEAN
    /\ IsFiniteSet(Entities)

VARIABLES
    db,         \* the entities: number of the last change, and whether there is a row
    changes,    \* how many changes were made
    log,        \* sync_log by id: an id is taken, then its row committed or not, then pruned
    writer,
    link,       \* "down", "up"
    queue, ask, \* messages to the device, requests from it
    handler,    \* what the receive task of its connection is doing
    store,      \* the reactive store of the page
    idb, cursor,    \* IndexedDB: the entities and last_sync_id
    attempted,  \* RepairGuard
    seen,       \* seen_messages of the WebSocket client
    jobs,       \* tasks of the page that use IndexedDB, in the order they were spawned
    dropped,    \* a message of this connection met a full channel
    faults, drops

server_vars == <<db, changes, log, writer>>
wire_vars == <<link, queue, ask, handler, dropped>>
disk_vars == <<idb, cursor>>
page_vars == <<store, attempted, seen>>
vars == <<server_vars, wire_vars, disk_vars, page_vars, jobs, faults, drops>>

-----------------------------------------------------------------------------
NoEntity == [chg |-> 0, live |-> FALSE]
Empty == [e \in Entities |-> NoEntity]
Live(c) == {e \in Entities : c[e].live}
Count(c) == Cardinality(Live(c))
Unknown == -1                    \* a count that the server leaves out

Idle == [at |-> "idle"]

(* A sync_action.  src is its sync_id in a delta, 0 in a bootstrap, and    *)
(* Broadcasted in a broadcast, whose data holds the time of sending.       *)
Broadcasted == -1
Action(e, x, src) == [t |-> "action", ent |-> e, x |-> x, src |-> src]
Complete(id, count) == [t |-> "complete", id |-> id, count |-> count]
Reset == [t |-> "reset"]

Job(ops) == [ops |-> ops, begun |-> FALSE]
Hydrate == Job(<<[op |-> "hydrate"]>>)
Catchup == Job(<<[op |-> "catchup"]>>)

(* Some entities are older than the log.  The device is opened for the     *)
(* first time.                                                             *)
Init ==
    /\ db \in [Entities -> {NoEntity, [chg |-> 0, live |-> TRUE]}]
    /\ changes = 0
    /\ log = <<>>
    /\ writer = [w \in Writers |-> Idle]
    /\ link = "down" /\ queue = <<>> /\ ask = <<>> /\ handler = Idle /\ dropped = FALSE
    /\ idb = Empty /\ cursor = 0
    /\ store = Empty /\ attempted = FALSE /\ seen = {}
    /\ jobs = <<Hydrate>>
    /\ faults = 0 /\ drops = 0

(* A statement fails and the code goes on without it, or a message comes   *)
(* that is due to another browser or to billing.                           *)
Fault == faults < MaxFaults /\ faults' = faults + 1

(* send_to_user: every socket of the user gets the messages, not only the  *)
(* one that asked.  Each is given to try_send, which drops it when the     *)
(* channel is full; the socket may be written to meanwhile, so a later one *)
(* may fit again.                                                          *)
Send(msgs) ==
    IF link = "down" THEN UNCHANGED <<queue, dropped>>
    ELSE \E k \in 0..Len(msgs) : \E f \in [1..k -> 1..Len(msgs)] :
            /\ \A i, j \in 1..k : i < j => f[i] < f[j]
            /\ \A n \in 1..Len(msgs) :
                  \/ \E i \in 1..k : f[i] = n
                  \/ Len(queue) + Cardinality({i \in 1..k : f[i] < n}) >= Capacity
            /\ queue' = queue \o [i \in 1..k |-> msgs[f[i]]]
            /\ dropped' = (dropped \/ k < Len(msgs))

-----------------------------------------------------------------------------
(* Writers: the row, then its snapshot, then the log, then the broadcast.  *)

Visible == {i \in 1..Len(log) : log[i].at = "visible"}

(* create, update or delete of an entity; a deletion needs no snapshot. *)
Mutate(w, e, live) ==
    /\ writer[w] = Idle
    /\ changes < MaxChanges
    /\ db[e].live \/ (db[e].chg = 0 /\ live)
    /\ changes' = changes + 1
    /\ LET x == [chg |-> changes + 1, live |-> live] IN
       /\ db' = [db EXCEPT ![e] = x]
       /\ writer' = [writer EXCEPT ![w] =
                        [at |-> IF live THEN "mutated" ELSE "fetched", ent |-> e, x |-> x, id |-> 0]]
    /\ UNCHANGED <<log, wire_vars, disk_vars, page_vars, jobs, faults, drops>>

(* fetch_dashboard_snapshot: a row that is gone, or cannot be read, is not *)
(* logged.                                                                 *)
Fetch(w) ==
    /\ writer[w].at = "mutated"
    /\ LET e == writer[w].ent IN
       \/ /\ db[e].live
          /\ writer' = [writer EXCEPT ![w].at = "fetched", ![w].x = db[e]]
          /\ UNCHANGED faults
       \/ /\ IF db[e].live THEN Fault ELSE UNCHANGED faults
          /\ writer' = [writer EXCEPT ![w].at = "logged"]
    /\ UNCHANGED <<db, changes, log, wire_vars, disk_vars, page_vars, jobs, drops>>

(* write_sync_entry: the INSERT takes its id from the sequence, and its    *)
(* row is seen by others once it is committed.                             *)
TakeId(w) ==
    /\ writer[w].at = "fetched"
    /\ log' = Append(log, [ent |-> writer[w].ent, x |-> writer[w].x, at |-> "pending"])
    /\ writer' = [writer EXCEPT ![w].at = "inserting", ![w].id = Len(log) + 1]
    /\ UNCHANGED <<db, changes, wire_vars, disk_vars, page_vars, jobs, faults, drops>>

Commit(w) ==
    /\ writer[w].at = "inserting"
    /\ \E result \in {"visible", "void"} :
          /\ log' = [log EXCEPT ![writer[w].id].at = result]
          /\ IF result = "visible" THEN UNCHANGED faults ELSE Fault
    /\ writer' = [writer EXCEPT ![w].at = "logged"]
    /\ UNCHANGED <<db, changes, wire_vars, disk_vars, page_vars, jobs, drops>>

(* broadcast_dashboard_sync: a deletion is sent as it is; otherwise the    *)
(* row is read again, and nothing is sent when it is gone or the read      *)
(* fails.                                                                  *)
Broadcast(w) ==
    /\ writer[w].at = "logged"
    /\ LET e == writer[w].ent
           deleted == ~writer[w].x.live
       IN \/ /\ deleted \/ db[e].live
             /\ Send(<<Action(e, IF deleted THEN NoEntity ELSE db[e], Broadcasted)>>)
             /\ UNCHANGED faults
          \/ /\ IF deleted \/ db[e].live THEN Fault ELSE UNCHANGED faults
             /\ UNCHANGED <<queue, dropped>>
    /\ writer' = [writer EXCEPT ![w] = Idle]
    /\ UNCHANGED <<db, changes, log, link, ask, handler, disk_vars, page_vars, jobs, drops>>

(* prune_old_entries removes what is older than 30 days. *)
Prune ==
    /\ \E n \in Visible :
          log' = [i \in 1..Len(log) |->
                     IF i \in Visible /\ i <= n THEN [log[i] EXCEPT !.at = "pruned"] ELSE log[i]]
    /\ UNCHANGED <<db, changes, writer, wire_vars, disk_vars, page_vars, jobs, faults, drops>>

-----------------------------------------------------------------------------
(* The receive task of a connection answers one request at a time.         *)

Taken(type) ==
    /\ handler = Idle
    /\ ask # <<>> /\ Head(ask).at = type
    /\ ask' = Tail(ask)

(* The billing gate refuses the workspace, or cannot tell. *)
RefusedByGate ==
    /\ handler = Idle /\ ask # <<>>
    /\ ask' = Tail(ask)
    /\ Fault
    /\ UNCHANGED <<server_vars, link, queue, handler, dropped, disk_vars, page_vars, jobs, drops>>

(* handle_sync_bootstrap lists the entities, reads MAX(sync_id) and        *)
(* streams what it listed; a listing that failed is empty and not counted. *)
BootstrapLists ==
    /\ Taken("bootstrap")
    /\ \/ handler' = [at |-> "listed", rows |-> db, count |-> Count(db)] /\ UNCHANGED faults
       \/ handler' = [at |-> "listed", rows |-> Empty, count |-> Unknown] /\ Fault
    /\ UNCHANGED <<server_vars, link, queue, dropped, disk_vars, page_vars, jobs, drops>>

get_latest_sync_id_issued(id) == id = Len(log)  \* bug: the last id of the sequence

get_latest_sync_id(id) ==
    IF Visible = {} THEN id = 0 ELSE id \in Visible /\ \A i \in Visible : i <= id

BootstrapReads ==
    /\ handler.at = "listed"
    /\ \E id \in 0..Len(log) :
          /\ IF get_latest_sync_id(id) THEN UNCHANGED faults ELSE id = 0 /\ Fault
          /\ handler' = [at |-> "stream", rows |-> handler.rows, count |-> handler.count, id |-> id]
    /\ UNCHANGED <<server_vars, link, queue, ask, dropped, disk_vars, page_vars, jobs, drops>>

BootstrapStreams ==
    /\ handler.at = "stream"
    /\ LET rows == SetToSeq(Live(handler.rows)) IN
       Send(Append([i \in 1..Len(rows) |-> Action(rows[i], handler.rows[rows[i]], 0)],
                   Complete(handler.id, handler.count)))
    /\ handler' = Idle
    /\ UNCHANGED <<server_vars, link, ask, disk_vars, page_vars, jobs, faults, drops>>

(* handle_sync_delta: is_sync_id_available, get_entries_since, counts. *)
DeltaChecks ==
    /\ Taken("delta")
    /\ LET since == Head(ask).since IN
       \/ /\ since \in Visible
          /\ handler' = [at |-> "available", since |-> since]
          /\ UNCHANGED <<queue, dropped, faults>>
       \/ /\ IF since \in Visible THEN Fault ELSE UNCHANGED faults
          /\ Send(<<Reset>>)
          /\ UNCHANGED handler
    /\ UNCHANGED <<server_vars, link, disk_vars, page_vars, jobs, drops>>

(* ids are the first rows after since, by id, at most Limit of them. *)
get_entries_since(since, ids) ==
    /\ \A i, j \in 1..Len(ids) : i < j => ids[i] < ids[j]
    /\ \A n \in Visible :
          \/ n <= since
          \/ \E i \in 1..Len(ids) : ids[i] = n
          \/ Len(ids) = Limit /\ n > ids[Limit]
Page(since) == UNION {[1..k -> {i \in Visible : i > since}] : k \in 0..Limit}

Entries(ids) == [i \in 1..Len(ids) |-> Action(log[ids[i]].ent, log[ids[i]].x, ids[i])]

(* The cursor that the answer carries: the last row that was sent. *)
latest_id(since, ids) == IF ids = <<>> THEN since ELSE ids[Len(ids)]

DeltaFetches ==
    /\ handler.at = "available"
    /\ \/ \E ids \in Page(handler.since) :
             /\ get_entries_since(handler.since, ids)
             /\ Send(Entries(ids))
             /\ handler' = [at |-> "counting", id |-> latest_id(handler.since, ids)]
             /\ UNCHANGED faults
       \/ /\ Fault
          /\ handler' = [at |-> "counting", id |-> handler.since]
          /\ UNCHANGED <<queue, dropped>>
    /\ UNCHANGED <<server_vars, link, ask, disk_vars, page_vars, jobs, drops>>

DeltaCounts ==
    /\ handler.at = "counting"
    /\ \/ Send(<<Complete(handler.id, Count(db))>>) /\ UNCHANGED faults
       \/ Send(<<Complete(handler.id, Unknown)>>) /\ Fault
    /\ handler' = Idle
    /\ UNCHANGED <<server_vars, link, ask, disk_vars, page_vars, jobs, drops>>

(* The answer to a delta of another browser comes here as well. *)
OtherAnswered(since) ==
    /\ Fault
    /\ \/ /\ log[since].at = "visible"
          /\ \E ids \in Page(since) :
                /\ get_entries_since(since, ids)
                /\ Send(Append(Entries(ids), Complete(latest_id(since, ids), Count(db))))
       \/ log[since].at = "pruned" /\ Send(<<Reset>>)
    /\ UNCHANGED <<server_vars, link, ask, handler, disk_vars, page_vars, jobs, drops>>

-----------------------------------------------------------------------------
(* The page.                                                               *)

Connect ==
    /\ link = "down"
    /\ link' = "up"
    /\ dropped' = FALSE
    /\ attempted' = FALSE
    /\ jobs' = Append(jobs, Catchup)
    /\ UNCHANGED <<server_vars, queue, ask, handler, disk_vars, store, seen, faults, drops>>

CutOff ==
    /\ drops < MaxDrops /\ drops' = drops + 1
    /\ link' = "down" /\ queue' = <<>> /\ ask' = <<>> /\ handler' = Idle /\ dropped' = FALSE
    /\ UNCHANGED <<server_vars, disk_vars, faults>>

Disconnect ==
    /\ link = "up"
    /\ CutOff
    /\ UNCHANGED <<page_vars, jobs>>

(* The page is closed, with the tasks it had, and opened again. *)
Reload ==
    /\ CutOff
    /\ store' = Empty /\ attempted' = FALSE /\ seen' = {}
    /\ jobs' = <<Hydrate>>

(* billing_status_changed asks for a catch-up. *)
BillingChanged ==
    /\ link = "up"
    /\ Fault
    /\ jobs' = Append(jobs, Catchup)
    /\ UNCHANGED <<server_vars, wire_vars, disk_vars, page_vars, drops>>

(* The set of keys is emptied when it holds 1000; most of them are of      *)
(* other messages.                                                         *)
ForgetSeen ==
    /\ OtherTraffic /\ seen # {}
    /\ seen' = {}
    /\ UNCHANGED <<server_vars, wire_vars, disk_vars, store, attempted, jobs, faults, drops>>

(* The client skips a message whose type and data it has seen. *)
Duplicate(m) == m \in seen
Received(t) ==
    /\ queue # <<>> /\ Head(queue).t = t /\ ~Duplicate(Head(queue))
    /\ queue' = Tail(queue)
    /\ seen' = IF t = "action" /\ Head(queue).src = Broadcasted THEN seen ELSE seen \cup {Head(queue)}

SkipDuplicate ==
    /\ queue # <<>> /\ Duplicate(Head(queue))
    /\ queue' = Tail(queue)
    /\ UNCHANGED <<server_vars, link, ask, handler, dropped, disk_vars, page_vars, jobs, faults, drops>>

(* The store at once, IndexedDB in a task. *)
apply_sync_action ==
    /\ Received("action")
    /\ LET m == Head(queue)
           x == IF m.x.live THEN m.x ELSE NoEntity
       IN /\ store' = [store EXCEPT ![m.ent] = x]
          /\ jobs' = Append(jobs, Job(<<[op |-> "put", ent |-> m.ent, x |-> x]>>))
    /\ UNCHANGED <<server_vars, link, ask, handler, dropped, disk_vars, attempted, faults, drops>>

diverged_stale(count) == count # Unknown /\ count < Count(store)    \* bug: missing rows are not seen

(* diverged_types: a count that the server left out says nothing. *)
diverged(count) == count # Unknown /\ count # Count(store)

sync_complete_again ==       \* bug: admit does not note the attempt
    /\ Received("complete")
    /\ LET m == Head(queue)
           repair == diverged(m.count)
           save == <<[op |-> "cursor", id |-> m.id]>>
       IN /\ store' = IF repair THEN Empty ELSE store
          /\ jobs' = Append(jobs, Job(IF repair THEN save \o <<[op |-> "wipe"], [op |-> "bootstrap"]>>
                                                ELSE save))
    /\ UNCHANGED <<server_vars, link, ask, handler, dropped, disk_vars, attempted, faults, drops>>

(* A type that diverged is wiped and fetched again, once in a connection:  *)
(* the store at once; the cursor, IndexedDB and the request in a task.     *)
sync_complete ==
    /\ Received("complete")
    /\ LET m == Head(queue)
           repair == diverged(m.count) /\ ~attempted
           save == <<[op |-> "cursor", id |-> m.id]>>
       IN /\ attempted' = (attempted \/ repair)
          /\ store' = IF repair THEN Empty ELSE store
          /\ jobs' = Append(jobs, Job(IF repair THEN save \o <<[op |-> "wipe"], [op |-> "bootstrap"]>>
                                                ELSE save))
    /\ UNCHANGED <<server_vars, link, ask, handler, dropped, disk_vars, faults, drops>>

sync_reset ==
    /\ Received("reset")
    /\ store' = Empty
    /\ jobs' = Append(jobs, Job(<<[op |-> "wipe"], [op |-> "cursor", id |-> 0], [op |-> "bootstrap"]>>))
    /\ UNCHANGED <<server_vars, link, ask, handler, dropped, disk_vars, attempted, faults, drops>>

(* Tasks open the database in the order they were spawned; after that they *)
(* interleave.                                                             *)
Runs(i, op) ==
    /\ jobs[i].begun \/ \A j \in 1..i-1 : jobs[j].begun
    /\ Head(jobs[i].ops).op = op
Leave(i, ops) ==
    jobs' = IF ops = <<>> THEN RemoveAt(jobs, i)
                          ELSE [jobs EXCEPT ![i] = [ops |-> ops, begun |-> TRUE]]
Done(i) == Leave(i, Tail(jobs[i].ops))

(* A request on a closed socket is lost. *)
Request(r) == ask' = IF link = "up" THEN Append(ask, r) ELSE ask

(* upsert and delete, delete_all_of_type, set_last_sync_id. *)
Put(i) ==
    /\ Runs(i, "put")
    /\ LET op == Head(jobs[i].ops) IN idb' = [idb EXCEPT ![op.ent] = op.x]
    /\ Done(i)
    /\ UNCHANGED <<server_vars, wire_vars, cursor, page_vars, faults, drops>>

Wipe(i) ==
    /\ Runs(i, "wipe")
    /\ idb' = Empty
    /\ Done(i)
    /\ UNCHANGED <<server_vars, wire_vars, cursor, page_vars, faults, drops>>

SetCursor(i) ==
    /\ Runs(i, "cursor")
    /\ cursor' = Head(jobs[i].ops).id
    /\ Done(i)
    /\ UNCHANGED <<server_vars, wire_vars, idb, page_vars, faults, drops>>

(* A step in IndexedDB fails, or the database cannot be opened; what is    *)
(* left is done all the same, a hydration excepted.                        *)
TaskFails(i) ==
    /\ \E op \in {"put", "wipe", "cursor", "hydrate"} : Runs(i, op)
    /\ Fault
    /\ LET ops == jobs[i].ops IN
       \/ Leave(i, Tail(ops))
       \/ ~jobs[i].begun /\ Last(ops).op = "bootstrap" /\ Leave(i, <<Last(ops)>>)
    /\ UNCHANGED <<server_vars, wire_vars, disk_vars, page_vars, drops>>

AskBootstrap(i) ==
    /\ Runs(i, "bootstrap")
    /\ Request([at |-> "bootstrap"])
    /\ Done(i)
    /\ UNCHANGED <<server_vars, link, queue, handler, dropped, disk_vars, page_vars, faults, drops>>

(* request_sync_catchup: a cursor that cannot be read is 0. *)
RequestCatchup(i) ==
    /\ Runs(i, "catchup")
    /\ \E since \in {0, cursor} :
          /\ IF since = cursor THEN UNCHANGED faults ELSE Fault
          /\ Request(IF since = 0 THEN [at |-> "bootstrap"] ELSE [at |-> "delta", since |-> since])
    /\ Done(i)
    /\ UNCHANGED <<server_vars, link, queue, handler, dropped, disk_vars, page_vars, drops>>

hydrate_store_from_db(i) ==
    /\ Runs(i, "hydrate")
    /\ store' = idb
    /\ Done(i)
    /\ UNCHANGED <<server_vars, wire_vars, disk_vars, attempted, seen, faults, drops>>

-----------------------------------------------------------------------------
Serve ==
    \/ BootstrapLists \/ BootstrapReads \/ BootstrapStreams
    \/ DeltaChecks \/ DeltaFetches \/ DeltaCounts
Receive == apply_sync_action \/ sync_complete \/ sync_reset \/ SkipDuplicate
Task(i) ==
    \/ Put(i) \/ Wipe(i) \/ SetCursor(i) \/ TaskFails(i)
    \/ AskBootstrap(i) \/ RequestCatchup(i) \/ hydrate_store_from_db(i)
Tasks == \E i \in 1..Len(jobs) : Task(i)
Write(w) ==
    \/ \E e \in Entities, live \in BOOLEAN : Mutate(w, e, live)
    \/ Fetch(w) \/ TakeId(w) \/ Commit(w) \/ Broadcast(w)

Next ==
    \/ \E w \in Writers : Write(w)
    \/ Prune
    \/ Serve \/ RefusedByGate
    \/ \E since \in 1..Len(log) : OtherAnswered(since)
    \/ Connect \/ Disconnect \/ Reload \/ BillingChanged \/ ForgetSeen
    \/ Receive \/ Tasks

(* A server that has a request answers it; a browser handles its messages, *)
(* runs its tasks and connects again.                                      *)
Fairness == WF_vars(Serve) /\ WF_vars(Receive) /\ WF_vars(Tasks) /\ WF_vars(Connect)

Spec == Init /\ [][Next]_vars /\ Fairness

-----------------------------------------------------------------------------
Committed(i) == i \in 1..Len(log) /\ log[i].at \in {"visible", "pruned"}

(* The cursor in IndexedDB is 0 or the id of a row that was committed:     *)
(* never one that was taken and is still open or was rolled back, which    *)
(* is_sync_id_available would answer with a reset at every connection.     *)
CursorNamesRow == cursor = 0 \/ Committed(cursor)

(* Nothing that could still change the device is under way. *)
Settled ==
    /\ queue = <<>> /\ ask = <<>> /\ handler = Idle /\ jobs = <<>>
    /\ \A w \in Writers : writer[w] = Idle

(* A page that was just opened, from a cache that is empty or has a        *)
(* cursor, when no more changes and failures come.                         *)
OpenedQuietly ==
    /\ link = "down" /\ jobs = <<Hydrate>>
    /\ cursor # 0 \/ idb = Empty
    /\ \A w \in Writers : writer[w] = Idle
    /\ changes = MaxChanges /\ faults = MaxFaults /\ drops = MaxDrops

(* The reconciliation of counts (cache/reconcile.rs): such a page ends     *)
(* with as many entities as there are, whatever it missed before and       *)
(* whatever failed in IndexedDB, unless a message of this last connection  *)
(* was dropped.                                                            *)
CountsConverge ==
    OpenedQuietly ~> (Settled /\ link = "up" /\ (dropped \/ Count(store) = Count(db)))

(* RepairGuard: repairs and resets come to an end; the device does not go  *)
(* on wiping and fetching, whatever is dropped and whatever the other      *)
(* browsers of the user cause.                                             *)
RepairsEnd == <>[](queue = <<>> /\ ask = <<>> /\ handler = Idle /\ jobs = <<>>)
=============================================================================
