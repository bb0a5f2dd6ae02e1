-------------------------- MODULE ConnectRegistry ---------------------------
(***************************************************************************)
(* The registry of Kyomi Connect sockets (crates/kyomi-datasource,         *)
(* connect/registry.rs and owner_recovery.rs), the WebSocket handler that  *)
(* uses it (apps/server, connect/handler.rs) and the requests that rotate  *)
(* or revoke a token (kyomi-ui, server_fns/connect.rs), for one datasource *)
(* on several processes that share a database and, perhaps, Redis.         *)
(*                                                                         *)
(* Every await is a boundary between steps.  A Redis or database statement *)
(* may fail wherever the code tests for it: the registry then refuses the  *)
(* socket or goes on trying.  A publication may reach any part of its      *)
(* subscribers, late or never.  A process can die between any two steps,   *)
(* and a process that starts again is another member of Pods.              *)
(***************************************************************************)
EXTENDS Integers, FiniteSets

CONSTANTS
    Pods,       \* processes (one recovery scope: the same lock directory)
    MaxConns,   \* bound: sockets accepted
    MaxJti,     \* bound: token generations issued
    MaxCrashes, \* bound: processes that die beside others
    Requests    \* rotate and disconnect requests

ASSUME ConnectAssumption ==
    /\ MaxConns \in Nat /\ MaxCrashes \in Nat
    /\ MaxJti \in Nat \ {0}
    /\ Pods # {}
    /\ 0 \notin Pods

VARIABLES
    redis,       \* whether REDIS_URL is configured
    alive,       \* processes that run
    jti, issued, \* connect_token_jti in the database, generations issued so far
    sock,        \* the handler of each socket: where it is, its process, its claims
    told,        \* the value of the watch channel: sockets told that they are revoked
    session, subscriber, lock,   \* connections, subscribers, registration_lock
    lifecycle,   \* cleanup identities kept by the processes
    presence, active, revoked,   \* the keys in Redis
    inbox,       \* publications under way to a subscriber
    req          \* rotate and disconnect requests

vars == <<redis, alive, jti, issued, sock, told, session, subscriber, lock, lifecycle,
          presence, active, revoked, inbox, req>>
registry_vars == <<session, subscriber, lock, lifecycle>>
redis_vars == <<presence, active, revoked>>
db_vars == <<jti, issued>>

-----------------------------------------------------------------------------
None == 0                       \* no socket, no token
Conns == 1..MaxConns
Jtis == 1..MaxJti

NoSock == [at |-> "none", pod |-> None, jti |-> None, id |-> 0]
NoReq == [at |-> "new", pod |-> None, old |-> None]

Registering == {"checked", "inserted", "present", "added"}
Looping == {"idle", "sending"}

Pod(c) == sock[c].pod
At(c, places) == sock[c].at \in places
Go(c, place) == sock' = [sock EXCEPT ![c].at = place]

is_revoked(c) == redis /\ sock[c].jti \in revoked

(* session_is_current: the marker is set only after the row has moved to   *)
(* another generation, so both reads can be taken at the second one.       *)
session_is_current(c) == ~is_revoked(c) /\ jti = sock[c].jti

(* revoke_local: only the socket that is routed to, and only its token.    *)
revoke_local(p, g) == told \cup {c \in Conns : session[p] = c /\ sock[c].jti = g}

(* A socket whose routing entry was replaced has lost the sender of its    *)
(* watch channel, which wakes it as a message would.                       *)
Woken(c) == c \in told \/ session[Pod(c)] # c

Init ==
    /\ redis \in BOOLEAN
    /\ alive \in (IF redis THEN {Pods} ELSE {{p} : p \in Pods})
    /\ issued \in {0, 1} /\ jti = issued    \* a datasource without a token, or with one
    /\ sock = [c \in Conns |-> NoSock]
    /\ told = {}
    /\ session = [p \in Pods |-> None]
    /\ subscriber = [p \in Pods |-> None]
    /\ lock = [p \in Pods |-> None]
    /\ lifecycle = {}
    /\ presence = None /\ active = {} /\ revoked = {}
    /\ inbox = {}
    /\ req = [r \in Requests |-> NoReq]

-----------------------------------------------------------------------------
(* Registration of a socket.                                               *)

(* The handler has verified the token and read its generation in the row. *)
(* Sockets are numbered in this order.                                     *)
Authenticate(c, p) ==
    /\ At(c, {"none"}) /\ \A d \in Conns : d < c => ~At(d, {"none"})
    /\ p \in alive
    /\ jti # None
    /\ sock' = [sock EXCEPT ![c] = [at |-> "authenticated", pod |-> p, jti |-> jti, id |-> 0]]
    /\ UNCHANGED <<redis, alive, db_vars, told, registry_vars, redis_vars, inbox, req>>

(* register_authenticated takes registration_lock; its first check fails   *)
(* on a revoked token and on an error of Redis.                            *)
RegisterRefused(c) ==
    /\ At(c, {"authenticated"})
    /\ lock[Pod(c)] = None
    /\ redis
    /\ Go(c, "closed")
    /\ UNCHANGED <<redis, alive, db_vars, told, registry_vars, redis_vars, inbox, req>>

RegisterCheck(c) ==
    /\ At(c, {"authenticated"})
    /\ lock[Pod(c)] = None
    /\ ~is_revoked(c)
    /\ lock' = [lock EXCEPT ![Pod(c)] = c]
    /\ Go(c, "checked")
    /\ UNCHANGED <<redis, alive, db_vars, told, session, subscriber, lifecycle, redis_vars, inbox, req>>

(* The identity of the socket within its process. *)
next_connection_id(p) == 1 + Cardinality({d \in Conns : Pod(d) = p /\ sock[d].id # 0})

RegisterInsert(c) ==
    /\ At(c, {"checked"})
    /\ lifecycle' = lifecycle \cup {c}
    /\ session' = [session EXCEPT ![Pod(c)] = c]
    /\ sock' = [sock EXCEPT ![c].at = "inserted", ![c].id = next_connection_id(Pod(c))]
    /\ UNCHANGED <<redis, alive, db_vars, told, subscriber, lock, redis_vars, inbox, req>>

(* set_presence: a failure is logged. *)
RegisterPresence(c) ==
    /\ At(c, {"inserted"})
    /\ presence' \in (IF redis THEN {c, presence} ELSE {presence})
    /\ Go(c, "present")
    /\ UNCHANGED <<redis, alive, db_vars, told, registry_vars, active, revoked, inbox, req>>

(* add_active_generation: a failed SADD may have been applied. *)
RegisterAdd(c) ==
    /\ At(c, {"present"})
    /\ \/ active' = (IF redis THEN active \cup {c} ELSE active) /\ Go(c, "added")
       \/ redis /\ active' \in {active, active \cup {c}} /\ Go(c, "ended")
    /\ UNCHANGED <<redis, alive, db_vars, told, registry_vars, presence, revoked, inbox, req>>

(* The check that covers a revocation that raced with registration. *)
RegisterRecheck(c) ==
    /\ At(c, {"added"})
    /\ \/ /\ ~is_revoked(c)
          /\ lock' = [lock EXCEPT ![Pod(c)] = None]
          /\ Go(c, "registered")
       \/ redis /\ Go(c, "ended") /\ UNCHANGED lock
    /\ UNCHANGED <<redis, alive, db_vars, told, session, subscriber, lifecycle, redis_vars, inbox, req>>

(* handle_connect_ws checks the row again, starts the command subscriber   *)
(* (aborting the one there is) and enters the message loop.                *)
EnterLoop(c) ==
    /\ At(c, {"registered"})
    /\ \/ /\ session_is_current(c)
          /\ subscriber' = [subscriber EXCEPT ![Pod(c)] = c]
          /\ inbox' = {x \in inbox : x[1] # subscriber[Pod(c)]}
          /\ Go(c, "idle")
       \/ Go(c, "ended") /\ UNCHANGED <<subscriber, inbox>>
    /\ UNCHANGED <<redis, alive, db_vars, told, session, lock, lifecycle, redis_vars, req>>

-----------------------------------------------------------------------------
(* The message loop and the end of a socket.                               *)

(* A command from the channel is sent after a check of the marker and of   *)
(* the row.  What it asks and who waits for its answer are left out.       *)
TakeCommand(c) ==
    /\ At(c, {"idle"})
    /\ c \notin told
    /\ session_is_current(c)
    /\ Go(c, "sending")
    /\ UNCHANGED <<redis, alive, db_vars, told, registry_vars, redis_vars, inbox, req>>

(* heartbeat_interval sends a ping, which can block as a command can. *)
SendPing(c) ==
    /\ At(c, {"idle"})
    /\ c \notin told
    /\ Go(c, "sending")
    /\ UNCHANGED <<redis, alive, db_vars, told, registry_vars, redis_vars, inbox, req>>

SendDone(c) ==
    /\ At(c, {"sending"})
    /\ Go(c, "idle")
    /\ UNCHANGED <<redis, alive, db_vars, told, registry_vars, redis_vars, inbox, req>>

(* send_while_current gives up on a revoked socket, even when it blocks. *)
SendAborted(c) ==
    /\ At(c, {"sending"})
    /\ Woken(c)
    /\ Go(c, "ended")
    /\ UNCHANGED <<redis, alive, db_vars, told, registry_vars, redis_vars, inbox, req>>

LoopRevoked_woken(c) ==          \* bug: only the publication ends the loop
    /\ At(c, {"idle"})
    /\ Woken(c)
    /\ Go(c, "ended")
    /\ UNCHANGED <<redis, alive, db_vars, told, registry_vars, redis_vars, inbox, req>>

(* revoked.changed, or the check made every second and before each message. *)
LoopRevoked(c) ==
    /\ At(c, {"idle"})
    /\ Woken(c) \/ ~session_is_current(c)
    /\ Go(c, "ended")
    /\ UNCHANGED <<redis, alive, db_vars, told, registry_vars, redis_vars, inbox, req>>

(* A close frame, an error of the socket or of a check, a missing pong. *)
SocketFails(c) ==
    /\ At(c, Looping)
    /\ Go(c, "ended")
    /\ UNCHANGED <<redis, alive, db_vars, told, registry_vars, redis_vars, inbox, req>>

(* remove_if: an entry goes only if it is the one of this socket. *)
without_any(f, c) == [f EXCEPT ![Pod(c)] = None]     \* bug: whoever owns the entry

without(f, c) == [f EXCEPT ![Pod(c)] = IF @ = c THEN None ELSE @]

(* unregister removes what this socket still owns in its process.  A       *)
(* registration that failed gives registration_lock back, at the latest    *)
(* when the first attempt to clear Redis has failed.                       *)
Unregister(c) ==
    /\ At(c, {"ended"})
    /\ session' = without(session, c)
    /\ subscriber' = without(subscriber, c)
    /\ lock' = without(lock, c)
    /\ told' = told \ {c}
    /\ inbox' = {x \in inbox : x[1] # c}
    /\ Go(c, "clearing")
    /\ UNCHANGED <<redis, alive, db_vars, lifecycle, redis_vars, req>>

(* clear_redis_lifecycle, tried again until it succeeds: SREM of the owner *)
(* and then the presence key, if it is still the one of this socket.       *)
ClearActive(c) ==
    /\ At(c, {"clearing"})
    /\ active' = active \ {c}
    /\ Go(c, "cleared")
    /\ UNCHANGED <<redis, alive, db_vars, told, registry_vars, presence, revoked, inbox, req>>

ClearPresence(c) ==
    /\ At(c, {"cleared"})
    /\ presence' = IF presence = c THEN None ELSE presence
    /\ lifecycle' = lifecycle \ {c}
    /\ Go(c, "closed")
    /\ UNCHANGED <<redis, alive, db_vars, told, session, subscriber, lock, active, revoked, inbox, req>>

(* The presence key has a lease, which the pongs of its socket renew. *)
PresenceExpires ==
    /\ presence # None
    /\ ~At(presence, Looping)
    /\ presence' = None
    /\ UNCHANGED <<redis, alive, db_vars, sock, told, registry_vars, active, revoked, inbox, req>>

-----------------------------------------------------------------------------
(* Processes.                                                              *)

(* An SADD that had been sent may still be applied. *)
Crash(p) ==
    /\ p \in alive
    /\ redis => Cardinality(Pods \ alive) < MaxCrashes
    /\ alive' = alive \ {p}
    /\ sock' = [c \in Conns |-> IF Pod(c) = p /\ ~At(c, {"closed"})
                                THEN [sock[c] EXCEPT !.at = "dead"] ELSE sock[c]]
    /\ \E late \in SUBSET {c \in Conns : redis /\ Pod(c) = p /\ At(c, {"present"})} :
          active' = active \cup late
    /\ session' = [session EXCEPT ![p] = None]
    /\ subscriber' = [subscriber EXCEPT ![p] = None]
    /\ lock' = [lock EXCEPT ![p] = None]
    /\ lifecycle' = {c \in lifecycle : Pod(c) # p}
    /\ req' = [r \in Requests |-> IF req[r].pod = p /\ req[r].at \notin {"ok", "failed"}
                                  THEN [req[r] EXCEPT !.at = "failed"] ELSE req[r]]
    /\ told' = {c \in told : Pod(c) # p}
    /\ inbox' = {x \in inbox : Pod(x[1]) # p}
    /\ UNCHANGED <<redis, db_vars, presence, revoked>>

(* Without Redis there is one process at a time. *)
Restart(p) ==
    /\ ~redis /\ alive = {}
    /\ \A c \in Conns : Pod(c) # p
    /\ \A r \in Requests : req[r].pod # p
    /\ alive' = {p}
    /\ UNCHANGED <<redis, db_vars, sock, told, registry_vars, redis_vars, inbox, req>>

(* recover_owner_page with prove_dead: an owner is removed only when the   *)
(* lock of its process, held until the process exits, can be taken.        *)
RecoverOwner_unproved(p, c) ==   \* bug: the lock of the process is not tried
    /\ p \in alive
    /\ c \in active
    /\ Pod(c) # p
    /\ active' = active \ {c}
    /\ UNCHANGED <<redis, alive, db_vars, sock, told, registry_vars, presence, revoked, inbox, req>>

RecoverOwner(p, c) ==
    /\ p \in alive
    /\ c \in active
    /\ Pod(c) \notin alive
    /\ active' = active \ {c}
    /\ UNCHANGED <<redis, alive, db_vars, sock, told, registry_vars, presence, revoked, inbox, req>>

-----------------------------------------------------------------------------
(* rotate_connect_token and disconnect_connect_datasource.                 *)

RequestReads(r, p) ==
    /\ req[r].at = "new"
    /\ p \in alive
    /\ req' = [req EXCEPT ![r] = [at |-> "read", pod |-> p, old |-> jti]]
    /\ UNCHANGED <<redis, alive, db_vars, sock, told, registry_vars, redis_vars, inbox>>

RequestWrites_always(r) ==       \* bug: a first token is treated as a rotation
    /\ req[r].at = "read"
    /\ \/ issued < MaxJti /\ issued' = issued + 1 /\ jti' = issued + 1
       \/ jti' = None /\ UNCHANGED issued
    /\ req' = [req EXCEPT ![r].at = "written"]
    /\ UNCHANGED <<redis, alive, sock, told, registry_vars, redis_vars, inbox>>

(* update_connect_jti writes a new generation, clear_connect_jti none. *)
RequestWrites(r) ==
    /\ req[r].at = "read"
    /\ \/ issued < MaxJti /\ issued' = issued + 1 /\ jti' = issued + 1
       \/ jti' = None /\ UNCHANGED issued
    /\ req' = [req EXCEPT ![r].at = IF req[r].old = None THEN "ok" ELSE "written"]
    /\ UNCHANGED <<redis, alive, sock, told, registry_vars, redis_vars, inbox>>

(* revoke_generation: the socket of this process first, then the durable   *)
(* marker, then the publication, then the wait for every owner to be gone. *)
RevokeLocal(r) ==
    /\ req[r].at = "written"
    /\ told' = revoke_local(req[r].pod, req[r].old)
    /\ req' = [req EXCEPT ![r].at = IF redis THEN "told" ELSE "waiting"]
    /\ UNCHANGED <<redis, alive, db_vars, sock, registry_vars, redis_vars, inbox>>

RevokeMark(r) ==
    /\ req[r].at = "told"
    /\ revoked' = revoked \cup {req[r].old}
    /\ req' = [req EXCEPT ![r].at = "marked"]
    /\ UNCHANGED <<redis, alive, db_vars, sock, told, registry_vars, presence, active, inbox>>

Subscribed == {c \in Conns : \E p \in alive : subscriber[p] = c}

RevokePublish(r) ==
    /\ req[r].at = "marked"
    /\ \E S \in SUBSET Subscribed : inbox' = inbox \cup {<<c, req[r].old>> : c \in S}
    /\ req' = [req EXCEPT ![r].at = "waiting"]
    /\ UNCHANGED <<redis, alive, db_vars, sock, told, registry_vars, redis_vars>>

local_gone_routed(r) ==          \* bug: only the socket that is routed to counts
    \A c \in Conns : session[req[r].pod] = c => sock[c].jti # req[r].old

local_gone(r) ==
    \A c \in lifecycle : ~(Pod(c) = req[r].pod /\ sock[c].jti = req[r].old)

RevokeLocalGone(r) ==
    /\ req[r].at = "waiting"
    /\ local_gone(r)
    /\ req' = [req EXCEPT ![r].at = IF redis THEN "local_gone" ELSE "ok"]
    /\ UNCHANGED <<redis, alive, db_vars, sock, told, registry_vars, redis_vars, inbox>>

RevokeConfirmed(r) ==
    /\ req[r].at = "local_gone"
    /\ req' = [req EXCEPT ![r].at =
                  IF \E c \in active : sock[c].jti = req[r].old THEN "waiting" ELSE "ok"]
    /\ UNCHANGED <<redis, alive, db_vars, sock, told, registry_vars, redis_vars, inbox>>

(* A failed statement, or five seconds without a confirmation; a marker    *)
(* whose SET failed may have been stored.                                  *)
RequestFails(r) ==
    /\ req[r].at \notin {"new", "ok", "failed"}
    /\ \/ UNCHANGED revoked
       \/ req[r].at = "told" /\ revoked' = revoked \cup {req[r].old}
    /\ req' = [req EXCEPT ![r].at = "failed"]
    /\ UNCHANGED <<redis, alive, db_vars, sock, told, registry_vars, presence, active, inbox>>

RevokeHeard(c, g) ==
    /\ <<c, g>> \in inbox
    /\ inbox' = inbox \ {<<c, g>>}
    /\ told' = revoke_local(Pod(c), g)
    /\ UNCHANGED <<redis, alive, db_vars, sock, registry_vars, redis_vars, req>>

(* ensure_current, before a command goes into the channel, and the same    *)
(* check of a command that the subscriber hears: a socket whose generation *)
(* carries the marker is told so.  The subscriber takes an error of Redis  *)
(* for a marker.                                                           *)
EnsureCurrent(p) ==
    /\ session[p] # None
    /\ redis
    /\ is_revoked(session[p]) \/ subscriber[p] # None
    /\ told' = told \cup {session[p]}
    /\ UNCHANGED <<redis, alive, db_vars, sock, registry_vars, redis_vars, inbox, req>>

-----------------------------------------------------------------------------
Handler(c) ==
    \/ RegisterRefused(c) \/ RegisterCheck(c) \/ RegisterInsert(c) \/ RegisterPresence(c)
    \/ RegisterAdd(c) \/ RegisterRecheck(c) \/ EnterLoop(c)
    \/ SendDone(c) \/ SendAborted(c) \/ LoopRevoked(c)
    \/ Unregister(c) \/ ClearActive(c) \/ ClearPresence(c)

Request(r) ==
    \/ RequestWrites(r) \/ RevokeLocal(r) \/ RevokeMark(r) \/ RevokePublish(r)
    \/ RevokeLocalGone(r) \/ RevokeConfirmed(r) \/ RequestFails(r)

Next ==
    \/ \E c \in Conns :
          \/ \E p \in Pods : Authenticate(c, p) \/ RecoverOwner(p, c)
          \/ Handler(c)
          \/ TakeCommand(c) \/ SendPing(c) \/ SocketFails(c)
          \/ \E g \in Jtis : RevokeHeard(c, g)
    \/ PresenceExpires
    \/ \E p \in Pods : Crash(p) \/ Restart(p) \/ EnsureCurrent(p)
    \/ \E r \in Requests : Request(r) \/ \E p \in Pods : RequestReads(r, p)

(* Tasks run, Redis and the database answer in the end, the recovery task  *)
(* of a process keeps scanning, and a write to a socket completes or fails.*)
(* The select of the message loop is biased: the check made every second   *)
(* comes before commands, messages and pings.                              *)
Fairness ==
    /\ \A c \in Conns : WF_vars(Handler(c)) /\ SF_vars(LoopRevoked(c))
    /\ \A c \in Conns, p \in Pods : WF_vars(RecoverOwner(p, c))

Spec == Init /\ [][Next]_vars /\ Fairness

-----------------------------------------------------------------------------
(* Places, processes, generations and keys have the values the code gives them. *)
TypeOK ==
    /\ redis \in BOOLEAN
    /\ alive \subseteq Pods
    /\ jti \in 0..issued /\ issued \in 0..MaxJti
    /\ sock \in [Conns -> [at : {"none", "authenticated", "registered", "ended", "clearing", "cleared",
                                 "closed", "dead"} \cup Registering \cup Looping,
                            pod : Pods \cup {None}, jti : 0..MaxJti, id : Nat]]
    /\ told \subseteq Conns
    /\ {session, subscriber, lock} \subseteq [Pods -> 0..MaxConns]
    /\ lifecycle \subseteq Conns
    /\ presence \in 0..MaxConns /\ active \subseteq Conns /\ revoked \subseteq Jtis
    /\ inbox \subseteq Conns \X Jtis
    /\ req \in [Requests -> [at : {"new", "read", "written", "told", "marked", "waiting", "local_gone",
                                  "ok", "failed"},
                             pod : Pods \cup {None}, old : 0..MaxJti]]

(* Once revoke_generation has succeeded for a generation, no handler of it *)
(* is in a position to send a command, on any process, and none can get    *)
(* there: not one that was registering meanwhile, not one whose routing    *)
(* entry was replaced, not one that missed the publication.                *)
RevokedCannotSend ==
    \A r \in Requests, c \in Conns :
        req[r].at = "ok" /\ req[r].old # None /\ sock[c].jti = req[r].old => ~At(c, Looping)

(* Recovery removes the owners of dead processes only: a handler that has  *)
(* registered stays in the active set of its generation until it has       *)
(* unregistered itself.                                                    *)
LiveOwnerKept ==
    \A c \in Conns : redis /\ At(c, {"added", "registered"} \cup Looping) => c \in active

(* A disconnect that comes late never takes the routing entry of a newer   *)
(* socket: a handler in its message loop is routed to unless a socket that *)
(* registered later on the same process has replaced it.                   *)
NewestIsRouted ==
    \A c \in Conns : At(c, Looping) =>
        \/ session[Pod(c)] = c
        \/ \E d \in Conns : Pod(d) = Pod(c) /\ sock[d].id > sock[c].id

(* A revoked generation loses all its owners, whatever was lost on the way *)
(* and whichever processes died, as long as one process survives to look.  *)
RevokedDrains ==
    []<>(alive = {} \/ \A c \in active : sock[c].jti \notin revoked)

(* The subscriber of a process is the one of the socket it routes to, once *)
(* that socket is in its message loop.                                     *)
SubscriberKept ==
    \A c \in Conns : redis /\ At(c, Looping) /\ session[Pod(c)] = c => subscriber[Pod(c)] = c
=============================================================================
