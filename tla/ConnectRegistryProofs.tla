----------------------- MODULE ConnectRegistryProofs ------------------------
(***************************************************************************)
(* The safety properties of ConnectRegistry, for every number of           *)
(* processes, sockets, generations, requests and crashes.  The inductive   *)
(* invariant says what each socket and each request can rely on: a socket  *)
(* that has registered is in the process's cleanup list and, with Redis,   *)
(* in the active set; a request that has written the row has made its old  *)
(* generation unusable for good, so what is left to show at its success is *)
(* that no socket of that generation is in its message loop any more.      *)
(***************************************************************************)
EXTENDS ConnectRegistry, FiniteSetTheorems, TLAPS

Places ==
    {"none", "authenticated", "registered", "ended", "clearing", "cleared", "closed", "dead"}
    \cup Registering \cup Looping
SockType == [at : Places, pod : Pods \cup {None}, jti : 0..MaxJti, id : Nat]
ReqType ==
    [at : {"new", "read", "written", "told", "marked", "waiting", "local_gone", "ok", "failed"},
     pod : Pods \cup {None}, old : 0..MaxJti]

Added == {"added", "registered"} \cup Looping
Inserted == {"inserted", "present"} \cup Added
Written == {"written", "told", "marked", "waiting", "local_gone"}

(* The identities given out on a process. *)
Given(p) == {d \in Conns : Pod(d) = p /\ sock[d].id # 0}

(* A socket is routed to, or one with a later identity has replaced it. *)
Routed(c) ==
    \/ session[Pod(c)] = c
    \/ \E d \in Conns : Pod(d) = Pod(c) /\ sock[d].id > sock[c].id

SockOK(c) ==
    /\ sock[c].at \notin {"none", "closed", "dead"} => Pod(c) \in alive
    /\ sock[c].at \in {"none", "authenticated", "checked"} => sock[c].id = 0
    /\ sock[c].at \in Inserted => c \in lifecycle /\ Routed(c)
    /\ redis /\ sock[c].at \in Added => c \in active
    /\ sock[c].id # 0 => Pod(c) \in Pods /\ sock[c].id <= Cardinality(Given(Pod(c)))

(* A request that has written the row and has not failed. *)
ReqOK(r) ==
    /\ req[r].old <= issued
    /\ req[r].at \notin {"new", "ok", "failed"} => req[r].pod \in alive
    /\ req[r].at \in Written => req[r].old # None
    /\ req[r].at = "local_gone" => redis
    /\ req[r].at \in Written \cup {"ok"} /\ req[r].old # None => jti # req[r].old

(* Without Redis one process runs. *)
OneProcess == redis \/ \A p \in alive, q \in alive : p = q

IInv ==
    /\ TypeOK /\ OneProcess
    /\ \A c \in Conns : SockOK(c)
    /\ \A r \in Requests : ReqOK(r)
    /\ RevokedCannotSend

-----------------------------------------------------------------------------
(* What the invariant says of the types, one variable at a time. *)
LEMMA Types ==
    ASSUME IInv
    PROVE /\ told \subseteq Conns /\ presence \in 0..MaxConns /\ inbox \subseteq Conns \X Jtis
          /\ active \subseteq Conns /\ lifecycle \subseteq Conns /\ revoked \subseteq Jtis
          /\ session \in [Pods -> 0..MaxConns] /\ subscriber \in [Pods -> 0..MaxConns]
          /\ lock \in [Pods -> 0..MaxConns]
          /\ sock \in [Conns -> SockType] /\ req \in [Requests -> ReqType]
          /\ jti \in 0..issued /\ issued \in 0..MaxJti /\ alive \subseteq Pods /\ redis \in BOOLEAN
          /\ Conns \subseteq 0..MaxConns /\ 0 \in 0..MaxConns
<1>1. TypeOK
  BY DEF IInv
<1>2. {session, subscriber, lock} \subseteq [Pods -> 0..MaxConns]
  BY <1>1 DEF TypeOK
<1>3. sock \in [Conns -> SockType]
  BY <1>1 DEF TypeOK, SockType, Places
<1>4. req \in [Requests -> ReqType]
  BY <1>1 DEF TypeOK, ReqType
<1>5. Conns \subseteq 0..MaxConns /\ 0 \in 0..MaxConns
  BY ConnectAssumption DEF Conns
<1>6. QED
  BY <1>1, <1>2, <1>3, <1>4, <1>5 DEF TypeOK

(* A step of a socket leaves alone what the others rely on. *)
Frame(c) ==
    /\ UNCHANGED <<redis, alive, jti, issued, req, revoked>>
    /\ told' \subseteq Conns /\ presence' \in 0..MaxConns /\ inbox' \subseteq Conns \X Jtis
    /\ active' \subseteq Conns /\ \A d \in Conns \ {c} : d \in active => d \in active'
    /\ lifecycle' \subseteq Conns /\ \A d \in Conns \ {c} : d \in lifecycle => d \in lifecycle'
    /\ session' \in [Pods -> 0..MaxConns] /\ subscriber' \in [Pods -> 0..MaxConns]
    /\ lock' \in [Pods -> 0..MaxConns]
    /\ \A p \in Pods : session'[p] = session[p] \/ session[p] = c

(* What a socket needs at the place to which it goes. *)
MayEnter(c, place) ==
    /\ place \in Places \ {"none", "authenticated"}
    /\ sock[c].at \notin {"none", "closed", "dead"}
    /\ place \in Inserted => sock[c].at \in Inserted /\ c \in lifecycle' /\ session' = session
    /\ redis /\ place \in Added => c \in active'
    /\ place = "checked" => sock[c].id = 0
    /\ place \in Looping => sock[c].at \in Looping \/ sock[c].jti = jti

LEMMA FrameSame ==
    ASSUME IInv, NEW c \in Conns,
           UNCHANGED <<redis, alive, jti, issued, told, session, subscriber, lock, lifecycle, presence, active,
                       revoked, inbox, req>>
    PROVE Frame(c)
  BY Types DEF Frame

(* A step that moves one socket to another place, and perhaps changes what *)
(* the registry and Redis hold about it, keeps the invariant.              *)
LEMMA SockStep ==
    ASSUME IInv, NEW c \in Conns, NEW place, sock' = [sock EXCEPT ![c].at = place],
           Frame(c), MayEnter(c, place)
    PROVE IInv'
<1> USE DEF Frame, MayEnter
<1>1. /\ sock'[c].at = place /\ sock' \in [Conns -> SockType]
      /\ \A d \in Conns : sock'[d].pod = sock[d].pod /\ sock'[d].id = sock[d].id /\ sock'[d].jti = sock[d].jti
      /\ \A d \in Conns \ {c} : sock'[d] = sock[d]
  BY DEF IInv, TypeOK, SockType, Places
<1>2. TypeOK'
  BY <1>1 DEF IInv, TypeOK, SockType, Places
<1>3. OneProcess'
  BY DEF IInv, OneProcess
<1>4. \A p : Given(p)' = Given(p)
  BY <1>1 DEF Given, Pod
<1>5. ASSUME NEW d \in Conns PROVE SockOK(d)'
  <2>1. SockOK(d) /\ SockOK(c)
    BY DEF IInv
  <2>2. Cardinality(Given(Pod(d)))' = Cardinality(Given(Pod(d))) /\ Pod(d)' = Pod(d) /\ sock'[d].id = sock[d].id
    BY <1>1, <1>4 DEF Pod
  <2>3. CASE d # c
    <3>1. sock'[d] = sock[d] /\ (d \in active => d \in active') /\ (d \in lifecycle => d \in lifecycle')
      BY <1>1, <2>3
    <3>2. sock[d].at \in Inserted /\ Routed(d) => Routed(d)'
      <4>1. sock[d].at \in Inserted => Pod(d) \in Pods
        BY <2>1 DEF SockOK, Inserted, Added, Looping, IInv, TypeOK
      <4>2. ASSUME Pod(d) \in Pods, session[Pod(d)] = d PROVE Routed(d)'
        BY <2>3, <4>2, <1>1 DEF Routed, Pod
      <4>3. ASSUME NEW e \in Conns, Pod(e) = Pod(d), sock[e].id > sock[d].id PROVE Routed(d)'
        BY <4>3, <1>1 DEF Routed, Pod
      <4>4. QED
        BY <4>1, <4>2, <4>3 DEF Routed
    <3>3. QED
      BY <2>1, <2>2, <3>1, <3>2 DEF SockOK
  <2>4. CASE d = c
    <3>1. Pod(c) \in alive /\ sock'[c].at = place
      BY <1>1, <2>1 DEF SockOK
    <3>2. place \in Inserted => Routed(c)'
      BY <1>1, <2>1 DEF SockOK, Routed, Pod
    <3>3. sock'[c].at \in {"none", "authenticated", "checked"} => sock'[c].id = 0
      BY <1>1
    <3>4. QED
      BY <2>1, <2>2, <2>4, <3>1, <3>2, <3>3 DEF SockOK
  <2>5. QED
    BY <2>3, <2>4
<1>6. ASSUME NEW r \in Requests PROVE ReqOK(r)'
  BY DEF IInv, ReqOK
<1>7. RevokedCannotSend'
  <2> SUFFICES ASSUME NEW r \in Requests, NEW d \in Conns, req[r].at = "ok", req[r].old # None,
                      sock[d].jti = req[r].old, sock'[d].at \in Looping
               PROVE FALSE
    BY <1>1 DEF RevokedCannotSend, At
  <2>1. sock[d].at \notin Looping
    BY DEF IInv, RevokedCannotSend, At
  <2>2. d = c /\ sock[c].jti = jti
    BY <1>1, <2>1
  <2>3. jti # req[r].old
    BY DEF IInv, ReqOK
  <2>4. QED
    BY <2>2, <2>3
<1>8. QED
  BY <1>2, <1>3, <1>5, <1>6, <1>7 DEF IInv

(* A step of a request that writes no row keeps the invariant. *)
LEMMA ReqStep ==
    ASSUME IInv, NEW r \in Requests, NEW x \in ReqType, req' = [req EXCEPT ![r] = x],
           UNCHANGED <<redis, alive, jti, issued, sock, session, subscriber, lock, lifecycle, active, presence>>,
           told' \subseteq Conns, revoked' \subseteq Jtis, inbox' \subseteq Conns \X Jtis,
           x.old <= issued,
           x.at \notin {"new", "ok", "failed"} => x.pod \in alive,
           x.at \in Written => x.old # None,
           x.at = "local_gone" => redis,
           x.at \in Written \cup {"ok"} /\ x.old # None => jti # x.old,
           x.at = "ok" /\ x.old # None => \A c \in Conns : sock[c].jti = x.old => ~At(c, Looping)
    PROVE IInv'
<1>1. req'[r] = x /\ req' \in [Requests -> ReqType] /\ \A s \in Requests \ {r} : req'[s] = req[s]
  BY DEF IInv, TypeOK, ReqType
<1>2. TypeOK'
  BY <1>1 DEF IInv, TypeOK, ReqType
<1>3. OneProcess' /\ \A c \in Conns : SockOK(c)'
  BY DEF IInv, OneProcess, SockOK, Routed, Given, Pod
<1>4. ASSUME NEW s \in Requests PROVE ReqOK(s)'
  BY <1>1 DEF IInv, ReqOK
<1>5. RevokedCannotSend'
  BY <1>1 DEF IInv, RevokedCannotSend, At
<1>6. QED
  BY <1>2, <1>3, <1>4, <1>5 DEF IInv

-----------------------------------------------------------------------------
(* Registration. *)
LEMMA RegisterRefusedKeeps ==
    ASSUME IInv, NEW c \in Conns, RegisterRefused(c)
    PROVE IInv'
<1>1. /\ sock' = [sock EXCEPT ![c].at = "closed"] /\ sock[c].at = "authenticated"
      /\ UNCHANGED <<redis, alive, jti, issued, told, session, subscriber, lock, lifecycle, presence, active,
                     revoked, inbox, req>>
  BY DEF RegisterRefused, At, Go, db_vars, registry_vars, redis_vars
<1>2. MayEnter(c, "closed")
  BY <1>1 DEF MayEnter, Places, Inserted, Added, Looping
<1>3. QED
  BY <1>1, <1>2, FrameSame, SockStep

LEMMA RegisterCheckKeeps ==
    ASSUME IInv, NEW c \in Conns, RegisterCheck(c)
    PROVE IInv'
<1>1. /\ sock' = [sock EXCEPT ![c].at = "checked"] /\ sock[c].at = "authenticated"
      /\ lock' = [lock EXCEPT ![Pod(c)] = c]
      /\ UNCHANGED <<redis, alive, jti, issued, told, session, subscriber, lifecycle, presence, active,
                     revoked, inbox, req>>
  BY DEF RegisterCheck, At, Go, db_vars, redis_vars
<1>2. Frame(c)
  BY <1>1, Types DEF Frame
<1>3. sock[c].id = 0
  BY <1>1 DEF IInv, SockOK
<1>4. MayEnter(c, "checked")
  BY <1>1, <1>3 DEF MayEnter, Places, Registering, Inserted, Added, Looping
<1>5. QED
  BY <1>1, <1>2, <1>4, SockStep

LEMMA RegisterPresenceKeeps ==
    ASSUME IInv, NEW c \in Conns, RegisterPresence(c)
    PROVE IInv'
<1>1. /\ sock' = [sock EXCEPT ![c].at = "present"] /\ sock[c].at = "inserted"
      /\ presence' \in {c, presence}
      /\ UNCHANGED <<redis, alive, jti, issued, told, session, subscriber, lock, lifecycle, active, revoked,
                     inbox, req>>
  BY DEF RegisterPresence, At, Go, db_vars, registry_vars
<1>2. Frame(c)
  BY <1>1, Types DEF Frame
<1>3. c \in lifecycle /\ sock[c].at \in Inserted
  BY <1>1 DEF IInv, SockOK, Inserted
<1>4. MayEnter(c, "present")
  BY <1>1, <1>3 DEF MayEnter, Places, Registering, Added, Looping
<1>5. QED
  BY <1>1, <1>2, <1>4, SockStep

LEMMA RegisterAddKeeps ==
    ASSUME IInv, NEW c \in Conns, RegisterAdd(c)
    PROVE IInv'
<1>1. /\ sock[c].at = "present" /\ active' \in {active, active \cup {c}}
      /\ UNCHANGED <<redis, alive, jti, issued, told, session, subscriber, lock, lifecycle, presence, revoked,
                     inbox, req>>
  BY DEF RegisterAdd, At, db_vars, registry_vars
<1>2. c \in lifecycle /\ sock[c].at \in Inserted
  BY <1>1 DEF IInv, SockOK, Inserted
<1>3. Frame(c)
  BY <1>1, Types DEF Frame
<1>4. CASE active' = (IF redis THEN active \cup {c} ELSE active) /\ Go(c, "added")
  <2>1. MayEnter(c, "added")
    BY <1>1, <1>2, <1>4 DEF MayEnter, Places, Registering, Looping
  <2>2. QED
    BY <1>3, <1>4, <2>1, SockStep DEF Go
<1>5. CASE Go(c, "ended")
  <2>1. MayEnter(c, "ended")
    BY <1>1 DEF MayEnter, Places, Inserted, Added, Looping
  <2>2. QED
    BY <1>3, <1>5, <2>1, SockStep DEF Go
<1>6. QED
  BY <1>4, <1>5 DEF RegisterAdd

LEMMA RegisterRecheckKeeps ==
    ASSUME IInv, NEW c \in Conns, RegisterRecheck(c)
    PROVE IInv'
<1>1. /\ sock[c].at = "added" /\ lock' \in {lock, [lock EXCEPT ![Pod(c)] = None]}
      /\ UNCHANGED <<redis, alive, jti, issued, told, session, subscriber, lifecycle, presence, active, revoked,
                     inbox, req>>
  BY DEF RegisterRecheck, At, db_vars, redis_vars
<1>2. c \in lifecycle /\ sock[c].at \in Inserted /\ (redis => c \in active)
  BY <1>1 DEF IInv, SockOK, Inserted, Added
<1>3. Frame(c)
  BY <1>1, Types DEF Frame, None
<1>4. CASE Go(c, "registered")
  <2>1. MayEnter(c, "registered")
    BY <1>1, <1>2 DEF MayEnter, Places, Looping
  <2>2. QED
    BY <1>3, <1>4, <2>1, SockStep DEF Go
<1>5. CASE Go(c, "ended")
  <2>1. MayEnter(c, "ended")
    BY <1>1 DEF MayEnter, Places, Inserted, Added, Looping
  <2>2. QED
    BY <1>3, <1>5, <2>1, SockStep DEF Go
<1>6. QED
  BY <1>4, <1>5 DEF RegisterRecheck

LEMMA EnterLoopKeeps ==
    ASSUME IInv, NEW c \in Conns, EnterLoop(c)
    PROVE IInv'
<1>1. /\ sock[c].at = "registered" /\ inbox' \subseteq inbox
      /\ subscriber' \in {subscriber, [subscriber EXCEPT ![Pod(c)] = c]}
      /\ UNCHANGED <<redis, alive, jti, issued, told, session, lock, lifecycle, presence, active, revoked, req>>
  BY DEF EnterLoop, At, db_vars, redis_vars
<1>2. c \in lifecycle /\ sock[c].at \in Inserted /\ (redis => c \in active)
  BY <1>1 DEF IInv, SockOK, Inserted, Added
<1>3. Frame(c)
  BY <1>1, Types DEF Frame
<1>4. CASE session_is_current(c) /\ Go(c, "idle")
  <2>1. MayEnter(c, "idle")
    BY <1>1, <1>2, <1>4 DEF MayEnter, Places, Looping, session_is_current
  <2>2. QED
    BY <1>3, <1>4, <2>1, SockStep DEF Go
<1>5. CASE Go(c, "ended")
  <2>1. MayEnter(c, "ended")
    BY <1>1 DEF MayEnter, Places, Inserted, Added, Looping
  <2>2. QED
    BY <1>3, <1>5, <2>1, SockStep DEF Go
<1>6. QED
  BY <1>4, <1>5 DEF EnterLoop

-----------------------------------------------------------------------------
(* The message loop and the end of a socket. *)
LEMMA LoopKeeps ==
    ASSUME IInv, NEW c \in Conns,
           \/ TakeCommand(c) \/ SendPing(c) \/ SendDone(c)
           \/ SendAborted(c) \/ LoopRevoked(c) \/ SocketFails(c)
    PROVE IInv'
<1>1. PICK place \in Looping \cup {"ended"} : sock' = [sock EXCEPT ![c].at = place]
  BY DEF TakeCommand, SendPing, SendDone, SendAborted, LoopRevoked, SocketFails, Go, Looping
<1>2. /\ sock[c].at \in Looping
      /\ UNCHANGED <<redis, alive, jti, issued, told, session, subscriber, lock, lifecycle, presence, active,
                     revoked, inbox, req>>
  BY DEF TakeCommand, SendPing, SendDone, SendAborted, LoopRevoked, SocketFails, At, Looping,
         db_vars, registry_vars, redis_vars
<1>3. c \in lifecycle /\ sock[c].at \in Inserted /\ (redis => c \in active)
  BY <1>2 DEF IInv, SockOK, Inserted, Added
<1>4. MayEnter(c, place)
  BY <1>2, <1>3 DEF MayEnter, Places, Looping, Inserted, Added
<1>5. QED
  BY <1>1, <1>2, <1>4, FrameSame, SockStep

LEMMA UnregisterKeeps ==
    ASSUME IInv, NEW c \in Conns, Unregister(c)
    PROVE IInv'
<1>1. /\ sock' = [sock EXCEPT ![c].at = "clearing"] /\ sock[c].at = "ended"
      /\ session' = without(session, c) /\ subscriber' = without(subscriber, c) /\ lock' = without(lock, c)
      /\ told' \subseteq told /\ inbox' \subseteq inbox
      /\ UNCHANGED <<redis, alive, jti, issued, lifecycle, presence, active, revoked, req>>
  BY DEF Unregister, At, Go, db_vars, redis_vars
<1>2. ASSUME NEW f \in [Pods -> 0..MaxConns]
      PROVE without(f, c) \in [Pods -> 0..MaxConns] /\ \A p \in Pods : without(f, c)[p] = f[p] \/ f[p] = c
  <2>1. \A p \in Pods : f[p] \in 0..MaxConns
    OBVIOUS
  <2>2. \A p \in Pods : without(f, c)[p] = (IF p = Pod(c) /\ f[p] = c THEN 0 ELSE f[p])
    BY DEF without, None
  <2>3. \A p \in Pods : without(f, c)[p] \in 0..MaxConns
    BY <2>1, <2>2, Types
  <2>4. without(f, c) = [p \in Pods |-> without(f, c)[p]]
    BY DEF without
  <2>5. QED
    BY <2>2, <2>3, <2>4
<1>3. /\ session' \in [Pods -> 0..MaxConns] /\ \A p \in Pods : session'[p] = session[p] \/ session[p] = c
      /\ subscriber' \in [Pods -> 0..MaxConns] /\ lock' \in [Pods -> 0..MaxConns]
  BY <1>1, <1>2, Types
<1>4. Frame(c)
  BY <1>1, <1>3, Types DEF Frame
<1>5. MayEnter(c, "clearing")
  BY <1>1 DEF MayEnter, Places, Inserted, Added, Looping
<1>6. QED
  BY <1>1, <1>4, <1>5, SockStep

LEMMA ClearKeeps ==
    ASSUME IInv, NEW c \in Conns, ClearActive(c) \/ ClearPresence(c)
    PROVE IInv'
<1>1. PICK place \in {"cleared", "closed"} : sock' = [sock EXCEPT ![c].at = place]
  BY DEF ClearActive, ClearPresence, Go
<1>2. /\ sock[c].at \in {"clearing", "cleared"}
      /\ active' \in {active, active \ {c}} /\ lifecycle' \in {lifecycle, lifecycle \ {c}}
      /\ presence' \in {presence, None}
      /\ UNCHANGED <<redis, alive, jti, issued, told, session, subscriber, lock, revoked, inbox, req>>
  BY DEF ClearActive, ClearPresence, At, db_vars, registry_vars
<1>3. Frame(c)
  BY <1>2, Types DEF Frame, None
<1>4. MayEnter(c, place)
  BY <1>2 DEF MayEnter, Places, Inserted, Added, Looping
<1>5. QED
  BY <1>1, <1>3, <1>4, SockStep

LEMMA AuthenticateKeeps ==
    ASSUME IInv, NEW c \in Conns, NEW p \in Pods, Authenticate(c, p)
    PROVE IInv'
<1> DEFINE new == [at |-> "authenticated", pod |-> p, jti |-> jti, id |-> 0]
<1>1. /\ sock[c].at = "none" /\ p \in alive /\ sock' = [sock EXCEPT ![c] = new]
      /\ UNCHANGED <<redis, alive, jti, issued, told, session, subscriber, lock, lifecycle, presence, active,
                     revoked, inbox, req>>
  BY DEF Authenticate, At, db_vars, registry_vars, redis_vars
<1>2. jti \in 0..MaxJti
  BY Types, ConnectAssumption DEF Jtis
<1>3. new \in SockType
  BY <1>2 DEF SockType, Places
<1>4. sock'[c] = new /\ sock' \in [Conns -> SockType] /\ \A d \in Conns \ {c} : sock'[d] = sock[d]
  BY <1>1, <1>3, Types
<1> HIDE DEF new
<1>5. new.at = "authenticated" /\ new.pod = p /\ new.id = 0
  BY DEF new
<1>6. TypeOK'
  BY <1>1, <1>4 DEF IInv, TypeOK, SockType, Places
<1>7. sock[c].id = 0
  BY <1>1 DEF IInv, SockOK
<1>8. \A q : Given(q)' = Given(q)
  BY <1>4, <1>5, <1>7 DEF Given, Pod
<1>9. ASSUME NEW d \in Conns PROVE SockOK(d)'
  <2>1. SockOK(d)
    BY DEF IInv
  <2>2. CASE d = c
    BY <1>1, <1>4, <1>5, <2>2 DEF SockOK, Pod, Inserted, Added, Looping
  <2>3. CASE d # c
    <3>1. sock'[d] = sock[d] /\ Pod(d)' = Pod(d) /\ sock[d].id \in Nat
      BY <1>4, <2>3, Types DEF Pod, SockType
    <3>2. Routed(d) => Routed(d)'
      <4>1. ASSUME NEW e \in Conns, Pod(e) = Pod(d), sock[e].id > sock[d].id PROVE Routed(d)'
        <5>1. e # c
          BY <1>7, <3>1, <4>1
        <5>2. sock'[e] = sock[e]
          BY <1>4, <5>1
        <5>3. QED
          BY <3>1, <4>1, <5>2 DEF Routed, Pod
      <4>2. QED
        BY <1>1, <3>1, <4>1 DEF Routed
    <3>3. Cardinality(Given(Pod(d)))' = Cardinality(Given(Pod(d)))
      BY <1>8, <3>1
    <3>4. QED
      BY <1>1, <2>1, <3>1, <3>2, <3>3 DEF SockOK
  <2>4. QED
    BY <2>2, <2>3
<1>10. OneProcess' /\ \A r \in Requests : ReqOK(r)'
  BY <1>1 DEF IInv, OneProcess, ReqOK
<1>11. RevokedCannotSend'
  <2>1. c \in Conns /\ sock'[c].at \notin Looping
    BY <1>4, <1>5 DEF Looping
  <2>2. QED
    BY <1>1, <1>4, <2>1 DEF IInv, RevokedCannotSend, At
<1>12. QED
  BY <1>6, <1>9, <1>10, <1>11 DEF IInv

(* The newest socket of a process has the greatest identity. *)
LEMMA RegisterInsertKeeps ==
    ASSUME IInv, NEW c \in Conns, RegisterInsert(c)
    PROVE IInv'
<1> DEFINE p == Pod(c)
           n == Cardinality(Given(p))
<1>1. /\ sock[c].at = "checked" /\ lifecycle' = lifecycle \cup {c}
      /\ session' = [session EXCEPT ![p] = c]
      /\ sock' = [sock EXCEPT ![c].at = "inserted", ![c].id = n + 1]
      /\ UNCHANGED <<redis, alive, jti, issued, told, subscriber, lock, presence, active, revoked, inbox, req>>
  <2>1. next_connection_id(p) = 1 + n
    BY DEF next_connection_id, Given
  <2>2. n \in Nat
    <3>1. IsFiniteSet(Conns)
      BY FS_Interval, ConnectAssumption DEF Conns
    <3>2. IsFiniteSet(Given(p))
      BY <3>1, FS_Subset DEF Given
    <3>3. QED
      BY <3>2, FS_CardinalityType
  <2>3. next_connection_id(p) = n + 1
    BY <2>1, <2>2
  <2>4. QED
    BY <2>3 DEF RegisterInsert, At, db_vars, redis_vars
<1>2. IsFiniteSet(Given(p)) /\ n \in Nat
  <2>1. IsFiniteSet(Conns)
    BY FS_Interval, ConnectAssumption DEF Conns
  <2>2. IsFiniteSet(Given(p))
    BY <2>1, FS_Subset DEF Given
  <2>3. QED
    BY <2>2, FS_CardinalityType
<1>3. SockOK(c) /\ sock[c].id = 0 /\ p \in alive /\ p \in Pods
  BY <1>1, Types DEF IInv, SockOK
<1> HIDE DEF n
<1>4. /\ sock'[c].at = "inserted" /\ sock'[c].id = n + 1 /\ sock' \in [Conns -> SockType]
      /\ \A d \in Conns : sock'[d].pod = sock[d].pod /\ sock'[d].jti = sock[d].jti
      /\ \A d \in Conns \ {c} : sock'[d] = sock[d]
  <2> DEFINE new == [sock[c] EXCEPT !.at = "inserted", !.id = n + 1]
  <2>1. sock[c] \in SockType /\ n + 1 \in Nat
    BY <1>2, Types
  <2>2. /\ new \in SockType /\ new.at = "inserted" /\ new.id = n + 1
        /\ new.pod = sock[c].pod /\ new.jti = sock[c].jti
    BY <2>1 DEF SockType, Places, Registering
  <2>3. sock' = [sock EXCEPT ![c] = new]
    BY <1>1, Types
  <2> HIDE DEF new
  <2>4. sock'[c] = new /\ sock' \in [Conns -> SockType] /\ \A d \in Conns \ {c} : sock'[d] = sock[d]
    BY <2>2, <2>3, Types
  <2>5. QED
    BY <2>2, <2>4
<1>5. session' \in [Pods -> 0..MaxConns] /\ session'[p] = c /\ \A q \in Pods \ {p} : session'[q] = session[q]
  BY <1>1, <1>3, Types
<1>6. TypeOK'
  BY <1>1, <1>4, <1>5, Types DEF TypeOK, SockType, Places, ReqType, Registering
<1>7. \A d \in Conns : Pod(d)' = Pod(d)
  BY <1>4 DEF Pod
<1>8. Given(p)' = Given(p) \cup {c} /\ c \notin Given(p)
  BY <1>2, <1>3, <1>4, <1>7 DEF Given
<1>9. Cardinality(Given(p)') = n + 1
  BY <1>2, <1>8, FS_AddElement DEF n
<1>10. ASSUME NEW d \in Conns PROVE SockOK(d)'
  <2>1. SockOK(d) /\ sock[d].id \in Nat
    BY Types DEF IInv, SockType
  <2>2. CASE d = c
    <3>1. Pod(c)' = p /\ Routed(c)' /\ c \in lifecycle'
      BY <1>1, <1>5, <1>7 DEF Routed
    <3>2. Cardinality(Given(Pod(c)))' = n + 1
      BY <1>9, <3>1
    <3>3. sock'[c].id <= n + 1
      BY <1>2, <1>4
    <3>4. sock'[c].at \notin Added
      BY <1>4 DEF Added, Looping
    <3>5. QED
      BY <1>1, <1>3, <1>4, <2>2, <3>1, <3>2, <3>3, <3>4 DEF SockOK
  <2>3. CASE d # c
    <3>1. sock'[d] = sock[d] /\ Pod(d)' = Pod(d)
      BY <1>4, <1>7, <2>3
    <3>2. sock[d].at \in Inserted /\ Routed(d) => Routed(d)'
      <4>1. CASE Pod(d) = p
        <5>1. sock[d].id <= n
          <6>1. CASE sock[d].id = 0
            BY <1>2, <6>1
          <6>2. CASE sock[d].id # 0
            BY <2>1, <4>1, <6>2 DEF SockOK, n
          <6>3. QED
            BY <6>1, <6>2
        <5>2. sock'[c].id > sock'[d].id /\ Pod(c)' = Pod(d)'
          BY <1>2, <1>4, <1>7, <2>1, <3>1, <4>1, <5>1
        <5>3. QED
          BY <5>2 DEF Routed
      <4>2. CASE Pod(d) # p
        <5>1. sock[d].at \in Inserted => Pod(d) \in Pods
          BY <2>1, Types DEF SockOK, Inserted, Added, Looping
        <5>2. ASSUME NEW e \in Conns, Pod(e) = Pod(d), sock[e].id > sock[d].id PROVE Routed(d)'
          <6>1. e # c
            BY <4>2, <5>2
          <6>2. sock'[e] = sock[e] /\ Pod(e)' = Pod(e)
            BY <1>4, <1>7, <6>1
          <6>3. QED
            BY <3>1, <5>2, <6>2 DEF Routed
        <5>3. ASSUME Pod(d) \in Pods, session[Pod(d)] = d PROVE Routed(d)'
          BY <1>5, <3>1, <4>2, <5>3 DEF Routed
        <5>4. QED
          BY <5>1, <5>2, <5>3 DEF Routed
      <4>3. QED
        BY <4>1, <4>2
    <3>3. sock[d].id # 0 => sock[d].id <= Cardinality(Given(Pod(d)))'
      <4>1. CASE Pod(d) = p
        <5>1. Cardinality(Given(Pod(d)))' = n + 1
          <6>1. Given(Pod(d))' = Given(p)'
            BY <1>7, <4>1 DEF Given
          <6>2. QED
            BY <1>9, <6>1
        <5>2. sock[d].id # 0 => sock[d].id <= n
          BY <2>1, <4>1 DEF SockOK, n
        <5>3. QED
          BY <1>2, <2>1, <5>1, <5>2
      <4>2. CASE Pod(d) # p
        <5>1. Given(Pod(d))' = Given(Pod(d))
          BY <1>4, <1>7, <3>1, <4>2 DEF Given
        <5>2. QED
          BY <2>1, <3>1, <5>1 DEF SockOK
      <4>3. QED
        BY <4>1, <4>2
    <3>4. QED
      BY <1>1, <2>1, <3>1, <3>2, <3>3 DEF SockOK
  <2>4. QED
    BY <2>2, <2>3
<1>11. OneProcess' /\ \A r \in Requests : ReqOK(r)'
  BY <1>1 DEF IInv, OneProcess, ReqOK
<1>12. RevokedCannotSend'
  <2>1. sock'[c].at \notin Looping
    BY <1>4 DEF Looping
  <2>2. QED
    BY <1>1, <1>4, <2>1 DEF IInv, RevokedCannotSend, At
<1>13. QED
  BY <1>6, <1>10, <1>11, <1>12 DEF IInv

-----------------------------------------------------------------------------
(* Steps that move neither a socket nor a request.  Processes may start,   *)
(* and the active set may lose the sockets of dead ones.                   *)
Quiet ==
    /\ UNCHANGED <<redis, jti, issued, sock, session, lifecycle, req>>
    /\ alive \subseteq alive' /\ alive' \subseteq Pods /\ OneProcess'
    /\ told' \subseteq Conns /\ presence' \in 0..MaxConns /\ inbox' \subseteq Conns \X Jtis
    /\ revoked' \subseteq Jtis
    /\ subscriber' \in [Pods -> 0..MaxConns] /\ lock' \in [Pods -> 0..MaxConns]
    /\ active' \subseteq Conns
    /\ \A d \in Conns : d \in active /\ Pod(d) \in alive => d \in active'

LEMMA QuietStep ==
    ASSUME IInv, Quiet
    PROVE IInv'
<1>1. TypeOK'
  BY DEF Quiet, IInv, TypeOK
<1>2. ASSUME NEW d \in Conns PROVE SockOK(d)'
  <2>1. SockOK(d) /\ Pod(d)' = Pod(d)
    BY DEF IInv, Quiet, Pod
  <2>2. Routed(d)' = Routed(d) /\ Cardinality(Given(Pod(d)))' = Cardinality(Given(Pod(d)))
    BY DEF Quiet, Routed, Given, Pod
  <2>3. redis /\ sock[d].at \in Added => d \in active'
    BY <2>1 DEF SockOK, Quiet, Added, Looping
  <2>4. QED
    BY <2>1, <2>2, <2>3 DEF SockOK, Quiet
<1>3. \A r \in Requests : ReqOK(r)'
  BY DEF Quiet, IInv, ReqOK
<1>4. RevokedCannotSend'
  BY DEF Quiet, IInv, RevokedCannotSend, At
<1>5. QED
  BY <1>1, <1>2, <1>3, <1>4 DEF IInv, Quiet

LEMMA OneProcessSame ==
    ASSUME IInv, UNCHANGED <<redis, alive>>
    PROVE OneProcess'
  BY DEF IInv, OneProcess

LEMMA PresenceExpiresKeeps ==
    ASSUME IInv, PresenceExpires
    PROVE IInv'
<1>1. /\ presence' = 0
      /\ UNCHANGED <<redis, alive, jti, issued, sock, told, session, subscriber, lock, lifecycle, active, revoked,
                     inbox, req>>
  BY DEF PresenceExpires, db_vars, registry_vars, None
<1>2. Quiet
  BY <1>1, Types, OneProcessSame DEF Quiet
<1>3. QED
  BY <1>2, QuietStep

LEMMA RestartKeeps ==
    ASSUME IInv, NEW p \in Pods, Restart(p)
    PROVE IInv'
<1>1. /\ ~redis /\ alive = {} /\ alive' = {p}
      /\ UNCHANGED <<redis, jti, issued, sock, told, session, subscriber, lock, lifecycle, presence, active,
                     revoked, inbox, req>>
  BY DEF Restart, db_vars, registry_vars, redis_vars
<1>2. OneProcess'
  BY <1>1 DEF OneProcess
<1>3. Quiet
  BY <1>1, <1>2, Types DEF Quiet
<1>4. QED
  BY <1>3, QuietStep

LEMMA RecoverOwnerKeeps ==
    ASSUME IInv, NEW p \in Pods, NEW c \in Conns, RecoverOwner(p, c)
    PROVE IInv'
<1>1. /\ Pod(c) \notin alive /\ active' = active \ {c}
      /\ UNCHANGED <<redis, alive, jti, issued, sock, told, session, subscriber, lock, lifecycle, presence,
                     revoked, inbox, req>>
  BY DEF RecoverOwner, db_vars, registry_vars
<1>2. Quiet
  BY <1>1, Types, OneProcessSame DEF Quiet
<1>3. QED
  BY <1>2, QuietStep

LEMMA RevokeHeardKeeps ==
    ASSUME IInv, NEW c \in Conns, NEW g \in Jtis, RevokeHeard(c, g)
    PROVE IInv'
<1>1. /\ inbox' \subseteq inbox /\ told' \subseteq told \cup Conns
      /\ UNCHANGED <<redis, alive, jti, issued, sock, session, subscriber, lock, lifecycle, presence, active,
                     revoked, req>>
  BY DEF RevokeHeard, revoke_local, db_vars, registry_vars, redis_vars
<1>2. Quiet
  BY <1>1, Types, OneProcessSame DEF Quiet
<1>3. QED
  BY <1>2, QuietStep

LEMMA EnsureCurrentKeeps ==
    ASSUME IInv, NEW p \in Pods, EnsureCurrent(p)
    PROVE IInv'
<1>1. /\ session[p] # 0 /\ told' = told \cup {session[p]}
      /\ UNCHANGED <<redis, alive, jti, issued, sock, session, subscriber, lock, lifecycle, presence, active,
                     revoked, inbox, req>>
  BY DEF EnsureCurrent, None, db_vars, registry_vars, redis_vars
<1>2. session[p] \in Conns
  BY <1>1, Types, ConnectAssumption DEF Conns
<1>3. Quiet
  BY <1>1, <1>2, Types, OneProcessSame DEF Quiet
<1>4. QED
  BY <1>3, QuietStep

-----------------------------------------------------------------------------
(* The death of a process takes its sockets and its requests with it. *)
LEMMA CrashKeeps ==
    ASSUME IInv, NEW p \in Pods, Crash(p)
    PROVE IInv'
<1>1. /\ alive' = alive \ {p}
      /\ sock' = [c \in Conns |-> IF Pod(c) = p /\ ~At(c, {"closed"})
                                  THEN [sock[c] EXCEPT !.at = "dead"] ELSE sock[c]]
      /\ active \subseteq active' /\ active' \subseteq active \cup Conns
      /\ session' = [session EXCEPT ![p] = 0]
      /\ subscriber' = [subscriber EXCEPT ![p] = 0]
      /\ lock' = [lock EXCEPT ![p] = 0]
      /\ lifecycle' = {c \in lifecycle : Pod(c) # p}
      /\ req' = [r \in Requests |-> IF req[r].pod = p /\ req[r].at \notin {"ok", "failed"}
                                    THEN [req[r] EXCEPT !.at = "failed"] ELSE req[r]]
      /\ told' \subseteq told /\ inbox' \subseteq inbox
      /\ UNCHANGED <<redis, jti, issued, presence, revoked>>
  BY DEF Crash, db_vars, None
<1>2. /\ sock' \in [Conns -> SockType]
      /\ \A d \in Conns : /\ sock'[d].pod = sock[d].pod /\ sock'[d].id = sock[d].id /\ sock'[d].jti = sock[d].jti
                          /\ Pod(d) = p => sock'[d].at \in {"closed", "dead"}
                          /\ Pod(d) # p => sock'[d].at = sock[d].at
  <2>1. ASSUME NEW d \in Conns
        PROVE /\ sock'[d] \in SockType
              /\ sock'[d].pod = sock[d].pod /\ sock'[d].id = sock[d].id /\ sock'[d].jti = sock[d].jti
              /\ Pod(d) = p => sock'[d].at \in {"closed", "dead"}
              /\ Pod(d) # p => sock'[d].at = sock[d].at
    <3>1. sock[d] \in SockType
      BY Types
    <3>2. CASE Pod(d) = p /\ sock[d].at # "closed"
      <4>1. sock'[d] = [sock[d] EXCEPT !.at = "dead"]
        BY <1>1, <3>2 DEF At
      <4>2. QED
        BY <3>1, <3>2, <4>1 DEF SockType, Places
    <3>3. CASE ~(Pod(d) = p /\ sock[d].at # "closed")
      <4>1. sock'[d] = sock[d]
        BY <1>1, <3>3 DEF At
      <4>2. QED
        BY <3>1, <3>3, <4>1
    <3>4. QED
      BY <3>2, <3>3
  <2>2. QED
    BY <1>1, <2>1
<1>3. /\ req' \in [Requests -> ReqType]
      /\ \A r \in Requests : /\ req'[r].pod = req[r].pod /\ req'[r].old = req[r].old
                             /\ req'[r].at = req[r].at \/ req'[r].at = "failed"
                             /\ req[r].pod = p => req'[r].at \in {"ok", "failed"}
  <2>1. ASSUME NEW r \in Requests
        PROVE /\ req'[r] \in ReqType /\ req'[r].pod = req[r].pod /\ req'[r].old = req[r].old
              /\ req'[r].at = req[r].at \/ req'[r].at = "failed"
              /\ req[r].pod = p => req'[r].at \in {"ok", "failed"}
    <3>1. req[r] \in ReqType
      BY Types
    <3>2. CASE req[r].pod = p /\ req[r].at \notin {"ok", "failed"}
      <4>1. req'[r] = [req[r] EXCEPT !.at = "failed"]
        BY <1>1, <3>2
      <4>2. QED
        BY <3>1, <3>2, <4>1 DEF ReqType
    <3>3. CASE ~(req[r].pod = p /\ req[r].at \notin {"ok", "failed"})
      <4>1. req'[r] = req[r]
        BY <1>1, <3>3
      <4>2. QED
        BY <3>1, <3>3, <4>1
    <3>4. QED
      BY <3>2, <3>3
  <2>2. QED
    BY <1>1, <2>1
<1>4. session' \in [Pods -> 0..MaxConns] /\ \A q \in Pods \ {p} : session'[q] = session[q]
  BY <1>1, Types
<1>5. subscriber' \in [Pods -> 0..MaxConns] /\ lock' \in [Pods -> 0..MaxConns]
  BY <1>1, Types
<1>6. TypeOK'
  BY <1>1, <1>2, <1>3, <1>4, <1>5, Types DEF TypeOK, SockType, Places, ReqType
<1>7. OneProcess'
  BY <1>1 DEF IInv, OneProcess
<1>8. \A q : Given(q)' = Given(q)
  BY <1>2 DEF Given, Pod
<1>9. ASSUME NEW d \in Conns PROVE SockOK(d)'
  <2>1. SockOK(d) /\ Pod(d)' = Pod(d) /\ sock'[d].id = sock[d].id
    BY <1>2 DEF IInv, Pod
  <2>2. Cardinality(Given(Pod(d)))' = Cardinality(Given(Pod(d)))
    BY <1>8, <2>1
  <2>3. CASE Pod(d) = p
    <3>1. sock'[d].at \in {"closed", "dead"}
      BY <1>2, <2>3
    <3>2. QED
      BY <2>1, <2>2, <3>1 DEF SockOK, Inserted, Added, Looping
  <2>4. CASE Pod(d) # p
    <3>1. sock'[d].at = sock[d].at
      BY <1>2, <2>4
    <3>2. sock[d].at \in Inserted /\ Routed(d) => Routed(d)'
      <4>1. sock[d].at \in Inserted => Pod(d) \in Pods
        BY <2>1, Types DEF SockOK, Inserted, Added, Looping
      <4>2. ASSUME Pod(d) \in Pods, session[Pod(d)] = d PROVE Routed(d)'
        BY <1>4, <2>1, <2>4, <4>2 DEF Routed
      <4>3. ASSUME NEW e \in Conns, Pod(e) = Pod(d), sock[e].id > sock[d].id PROVE Routed(d)'
        BY <1>2, <4>3 DEF Routed, Pod
      <4>4. QED
        BY <4>1, <4>2, <4>3 DEF Routed
    <3>3. QED
      BY <1>1, <2>1, <2>2, <2>4, <3>1, <3>2 DEF SockOK
  <2>5. QED
    BY <2>3, <2>4
<1>10. ASSUME NEW r \in Requests PROVE ReqOK(r)'
  <2>1. ReqOK(r)
    BY DEF IInv
  <2>2. req'[r].at \notin {"new", "ok", "failed"} => req'[r].pod \in alive'
    BY <1>1, <1>3, <2>1 DEF ReqOK
  <2>3. QED
    BY <1>1, <1>3, <2>1, <2>2 DEF ReqOK, Written
<1>11. RevokedCannotSend'
  <2> SUFFICES ASSUME NEW r \in Requests, NEW d \in Conns, req'[r].at = "ok", req'[r].old # None,
                      sock'[d].jti = req'[r].old, sock'[d].at \in Looping
               PROVE FALSE
    BY DEF RevokedCannotSend, At
  <2>1. req[r].at = "ok" /\ req[r].old = req'[r].old /\ sock[d].jti = sock'[d].jti
    BY <1>2, <1>3
  <2>2. sock[d].at \in Looping
    BY <1>2 DEF Looping
  <2>3. QED
    BY <2>1, <2>2 DEF IInv, RevokedCannotSend, At
<1>12. QED
  BY <1>6, <1>7, <1>9, <1>10, <1>11 DEF IInv

-----------------------------------------------------------------------------
(* Requests. *)
LEMMA RequestReadsKeeps ==
    ASSUME IInv, NEW r \in Requests, NEW p \in Pods, RequestReads(r, p)
    PROVE IInv'
<1> DEFINE x == [at |-> "read", pod |-> p, old |-> jti]
<1>1. /\ p \in alive /\ req' = [req EXCEPT ![r] = x]
      /\ UNCHANGED <<redis, alive, jti, issued, sock, told, session, subscriber, lock, lifecycle, presence, active,
                     revoked, inbox>>
  BY DEF RequestReads, db_vars, registry_vars, redis_vars
<1>2. jti \in 0..MaxJti /\ jti <= issued
  BY Types, ConnectAssumption DEF Jtis
<1>3. x \in ReqType /\ x.at = "read" /\ x.pod = p /\ x.old = jti
  BY <1>2 DEF ReqType
<1> HIDE DEF x
<1>4. x.at \notin Written \cup {"ok", "local_gone"}
  BY <1>3 DEF Written
<1>5. told' \subseteq Conns /\ revoked' \subseteq Jtis /\ inbox' \subseteq Conns \X Jtis
  BY <1>1, Types
<1>6. QED
  BY <1>1, <1>2, <1>3, <1>4, <1>5, ReqStep

(* The row moves to a generation that no request has read. *)
LEMMA RequestWritesKeeps ==
    ASSUME IInv, NEW r \in Requests, RequestWrites(r)
    PROVE IInv'
<1> DEFINE x == [req[r] EXCEPT !.at = IF req[r].old = None THEN "ok" ELSE "written"]
<1>1. /\ req[r].at = "read"
      /\ \/ issued < MaxJti /\ issued' = issued + 1 /\ jti' = issued + 1
         \/ jti' = 0 /\ issued' = issued
      /\ req' = [req EXCEPT ![r] = x]
      /\ UNCHANGED <<redis, alive, sock, told, session, subscriber, lock, lifecycle, presence, active,
                     revoked, inbox>>
  BY Types DEF RequestWrites, None, registry_vars, redis_vars
<1>2. req[r] \in ReqType
  BY Types
<1>3. /\ x \in ReqType /\ x.pod = req[r].pod /\ x.old = req[r].old
      /\ x.at = IF req[r].old = None THEN "ok" ELSE "written"
  BY <1>2 DEF ReqType
<1> HIDE DEF x
<1>4. req'[r] = x /\ req' \in [Requests -> ReqType] /\ \A s \in Requests \ {r} : req'[s] = req[s]
  BY <1>1, <1>3, Types
<1>5. jti' \in 0..issued' /\ issued' \in 0..MaxJti /\ issued <= issued' /\ issued \in Nat
  BY <1>1, Types, ConnectAssumption DEF Jtis
<1>6. TypeOK'
  BY <1>1, <1>4, <1>5 DEF IInv, TypeOK, ReqType
<1>7. OneProcess' /\ \A c \in Conns : SockOK(c)'
  BY <1>1 DEF IInv, OneProcess, SockOK, Routed, Given, Pod
<1>8. ASSUME NEW s \in Requests PROVE req[s].old \in Nat /\ req[s].old <= issued /\ (req[s].old # 0 => jti' # req[s].old)
  <2>1. req[s].old \in 0..MaxJti /\ req[s].old <= issued
    BY Types DEF IInv, ReqOK, ReqType
  <2>2. QED
    BY <1>1, <1>5, <2>1, ConnectAssumption
<1>9. ASSUME NEW s \in Requests PROVE ReqOK(s)'
  <2>1. ReqOK(s) /\ req[s].old <= issued' /\ (req[s].old # None => jti' # req[s].old)
    <3>1. issued' \in Nat /\ issued \in Nat /\ issued <= issued'
      BY <1>5 DEF Jtis
    <3>2. req[s].old \in Nat /\ req[s].old <= issued /\ (req[s].old # 0 => jti' # req[s].old)
      BY <1>8
    <3>3. QED
      BY <3>1, <3>2 DEF IInv, None
  <2>2. CASE s = r
    <3>1. req[r].pod \in alive
      BY <1>1, <2>1, <2>2 DEF ReqOK
    <3>2. req'[r].at \in {"ok", "written"} /\ (req'[r].at = "written" => req[r].old # None)
      BY <1>3, <1>4
    <3>3. QED
      BY <1>1, <1>3, <1>4, <2>1, <2>2, <3>1, <3>2 DEF ReqOK, Written
  <2>3. CASE s # r
    <3>1. req'[s] = req[s]
      BY <1>4, <2>3
    <3>2. QED
      BY <1>1, <2>1, <3>1 DEF ReqOK
  <2>4. QED
    BY <2>2, <2>3
<1>10. RevokedCannotSend'
  <2>1. ~(req'[r].at = "ok" /\ req'[r].old # None)
    BY <1>3, <1>4
  <2>2. QED
    BY <1>1, <1>4, <2>1 DEF IInv, RevokedCannotSend, At
<1>11. QED
  BY <1>6, <1>7, <1>9, <1>10 DEF IInv

(* A step that only moves a request on keeps what it has written. *)
LEMMA ReqMoves ==
    ASSUME IInv, NEW r \in Requests, NEW place, req' = [req EXCEPT ![r].at = place],
           place \in Written \cup {"ok", "failed"}, req[r].at \in Written \/ place = "failed",
           UNCHANGED <<redis, alive, jti, issued, sock, session, subscriber, lock, lifecycle, active, presence>>,
           told' \subseteq Conns, revoked' \subseteq Jtis, inbox' \subseteq Conns \X Jtis,
           place = "local_gone" => redis,
           place = "ok" => \A c \in Conns : sock[c].jti = req[r].old => ~At(c, Looping)
    PROVE IInv'
<1> DEFINE x == [req[r] EXCEPT !.at = place]
<1>1. req[r] \in ReqType /\ req' = [req EXCEPT ![r] = x]
  BY Types
<1>2. x \in ReqType /\ x.at = place /\ x.pod = req[r].pod /\ x.old = req[r].old
  BY <1>1 DEF ReqType, Written
<1> HIDE DEF x
<1>3. ReqOK(r)
  BY DEF IInv
<1>4. x.at \notin {"new", "ok", "failed"} => x.pod \in alive
  BY <1>2, <1>3 DEF ReqOK, Written
<1>5. /\ x.old <= issued /\ (x.at \in Written => x.old # None) /\ (x.at = "local_gone" => redis)
      /\ (x.at \in Written \cup {"ok"} /\ x.old # None => jti # x.old)
  BY <1>2, <1>3 DEF ReqOK, Written
<1>6. x.at = "ok" /\ x.old # None => \A c \in Conns : sock[c].jti = x.old => ~At(c, Looping)
  BY <1>2
<1>7. QED
  BY <1>1, <1>2, <1>4, <1>5, <1>6, ReqStep

(* A generation that was written over is one that had been issued. *)
LEMMA OldIssued ==
    ASSUME IInv, NEW r \in Requests, req[r].at \in Written
    PROVE req[r].old \in Jtis
  BY Types, ConnectAssumption DEF IInv, ReqOK, ReqType, None, Jtis

LEMMA RevokeLocalKeeps ==
    ASSUME IInv, NEW r \in Requests, RevokeLocal(r)
    PROVE IInv'
<1> DEFINE place == IF redis THEN "told" ELSE "waiting"
<1>1. /\ req[r].at \in Written /\ req' = [req EXCEPT ![r].at = place] /\ told' \subseteq told \cup Conns
      /\ UNCHANGED <<redis, alive, jti, issued, sock, session, subscriber, lock, lifecycle, presence, active,
                     revoked, inbox>>
  BY DEF RevokeLocal, revoke_local, Written, db_vars, registry_vars, redis_vars
<1>2. place \in Written /\ place \notin {"ok", "local_gone"}
  BY DEF Written
<1> HIDE DEF place
<1>3. told' \subseteq Conns /\ revoked' \subseteq Jtis /\ inbox' \subseteq Conns \X Jtis
  BY <1>1, Types
<1>4. QED
  BY <1>1, <1>2, <1>3, ReqMoves

LEMMA RevokeMarkKeeps ==
    ASSUME IInv, NEW r \in Requests, RevokeMark(r)
    PROVE IInv'
<1>1. /\ req[r].at \in Written /\ req' = [req EXCEPT ![r].at = "marked"] /\ revoked' = revoked \cup {req[r].old}
      /\ UNCHANGED <<redis, alive, jti, issued, sock, told, session, subscriber, lock, lifecycle, presence, active,
                     inbox>>
  BY DEF RevokeMark, Written, db_vars, registry_vars
<1>2. told' \subseteq Conns /\ revoked' \subseteq Jtis /\ inbox' \subseteq Conns \X Jtis
  BY <1>1, Types, OldIssued
<1>3. "marked" \in Written /\ "marked" \notin {"ok", "local_gone"}
  BY DEF Written
<1>4. QED
  BY <1>1, <1>2, <1>3, ReqMoves

LEMMA RevokePublishKeeps ==
    ASSUME IInv, NEW r \in Requests, RevokePublish(r)
    PROVE IInv'
<1>1. /\ req[r].at \in Written /\ req' = [req EXCEPT ![r].at = "waiting"]
      /\ UNCHANGED <<redis, alive, jti, issued, sock, told, session, subscriber, lock, lifecycle, presence, active,
                     revoked>>
  BY DEF RevokePublish, Written, db_vars, registry_vars, redis_vars
<1>2. PICK S \in SUBSET Subscribed : inbox' = inbox \cup {<<c, req[r].old>> : c \in S}
  BY DEF RevokePublish
<1>3. S \subseteq Conns
  BY <1>2 DEF Subscribed
<1>4. told' \subseteq Conns /\ revoked' \subseteq Jtis /\ inbox' \subseteq Conns \X Jtis
  BY <1>1, <1>2, <1>3, Types, OldIssued
<1>5. "waiting" \in Written /\ "waiting" \notin {"ok", "local_gone"}
  BY DEF Written
<1>6. QED
  BY <1>1, <1>4, <1>5, ReqMoves

(* Without Redis, the sockets of the one process are all there are. *)
LEMMA RevokeLocalGoneKeeps ==
    ASSUME IInv, NEW r \in Requests, RevokeLocalGone(r)
    PROVE IInv'
<1> DEFINE place == IF redis THEN "local_gone" ELSE "ok"
<1>1. /\ req[r].at = "waiting" /\ local_gone(r) /\ req' = [req EXCEPT ![r].at = place]
      /\ UNCHANGED <<redis, alive, jti, issued, sock, told, session, subscriber, lock, lifecycle, presence, active,
                     revoked, inbox>>
  BY DEF RevokeLocalGone, db_vars, registry_vars, redis_vars
<1>2. ASSUME ~redis, NEW c \in Conns, sock[c].jti = req[r].old, At(c, Looping) PROVE FALSE
  <2>1. c \in lifecycle /\ Pod(c) \in alive
    BY <1>2 DEF IInv, SockOK, At, Inserted, Added, Looping
  <2>2. req[r].pod \in alive
    BY <1>1 DEF IInv, ReqOK
  <2>3. Pod(c) = req[r].pod
    BY <1>2, <2>1, <2>2 DEF IInv, OneProcess
  <2>4. QED
    BY <1>1, <1>2, <2>1, <2>3 DEF local_gone
<1>3. /\ place \in Written \cup {"ok", "failed"} /\ (place = "local_gone" => redis) /\ (place = "ok" => ~redis)
      /\ req[r].at \in Written
  BY <1>1 DEF Written
<1> HIDE DEF place
<1>4. told' \subseteq Conns /\ revoked' \subseteq Jtis /\ inbox' \subseteq Conns \X Jtis
  BY <1>1, Types
<1>5. place = "ok" => \A c \in Conns : sock[c].jti = req[r].old => ~At(c, Looping)
  BY <1>2, <1>3
<1>6. QED
  BY <1>1, <1>3, <1>4, <1>5, ReqMoves

(* With Redis, a socket in its message loop is in the active set. *)
LEMMA RevokeConfirmedKeeps ==
    ASSUME IInv, NEW r \in Requests, RevokeConfirmed(r)
    PROVE IInv'
<1> DEFINE place == IF \E c \in active : sock[c].jti = req[r].old THEN "waiting" ELSE "ok"
<1>1. /\ req[r].at = "local_gone" /\ req' = [req EXCEPT ![r].at = place]
      /\ UNCHANGED <<redis, alive, jti, issued, sock, told, session, subscriber, lock, lifecycle, presence, active,
                     revoked, inbox>>
  BY DEF RevokeConfirmed, db_vars, registry_vars, redis_vars
<1>2. redis
  BY <1>1 DEF IInv, ReqOK
<1>3. ASSUME NEW c \in Conns, sock[c].jti = req[r].old, At(c, Looping) PROVE place # "ok"
  <2>1. c \in active
    BY <1>2, <1>3 DEF IInv, SockOK, At, Added
  <2>2. QED
    BY <1>3, <2>1
<1>4. place \in {"waiting", "ok"} /\ req[r].at \in Written
  BY <1>1 DEF Written
<1> HIDE DEF place
<1>5. place \in Written \cup {"ok", "failed"} /\ place # "local_gone"
  BY <1>4 DEF Written
<1>6. told' \subseteq Conns /\ revoked' \subseteq Jtis /\ inbox' \subseteq Conns \X Jtis
  BY <1>1, Types
<1>7. place = "ok" => \A c \in Conns : sock[c].jti = req[r].old => ~At(c, Looping)
  BY <1>3
<1>8. QED
  BY <1>1, <1>4, <1>5, <1>6, <1>7, ReqMoves

LEMMA RequestFailsKeeps ==
    ASSUME IInv, NEW r \in Requests, RequestFails(r)
    PROVE IInv'
<1>1. /\ req' = [req EXCEPT ![r].at = "failed"]
      /\ UNCHANGED <<redis, alive, jti, issued, sock, told, session, subscriber, lock, lifecycle, presence, active,
                     inbox>>
  BY DEF RequestFails, db_vars, registry_vars
<1>2. revoked' \subseteq Jtis
  <2>1. CASE UNCHANGED revoked
    BY <2>1, Types
  <2>2. CASE req[r].at = "told" /\ revoked' = revoked \cup {req[r].old}
    <3>1. req[r].at \in Written
      BY <2>2 DEF Written
    <3>2. QED
      BY <2>2, <3>1, Types, OldIssued
  <2>3. QED
    BY <2>1, <2>2 DEF RequestFails
<1>3. told' \subseteq Conns /\ inbox' \subseteq Conns \X Jtis
  BY <1>1, Types
<1>4. "failed" \in Written \cup {"ok", "failed"} /\ "failed" \notin {"ok", "local_gone"}
  BY DEF Written
<1>5. QED
  BY <1>1, <1>2, <1>3, <1>4, ReqMoves

-----------------------------------------------------------------------------
(* The invariant. *)
LEMMA InitIInv == Init => IInv
<1> SUFFICES ASSUME Init PROVE IInv
  OBVIOUS
<1>1. \A c \in Conns : sock[c] = NoSock
  BY DEF Init
<1>2. \A r \in Requests : req[r] = NoReq
  BY DEF Init
<1>3. TypeOK
  <2>1. NoSock \in SockType /\ NoReq \in ReqType
    BY ConnectAssumption DEF NoSock, NoReq, SockType, ReqType, Places, None
  <2>2. sock \in [Conns -> SockType] /\ req \in [Requests -> ReqType]
    BY <2>1 DEF Init
  <2>3. 0 \in 0..MaxConns /\ jti \in 0..issued /\ issued \in 0..MaxJti
    BY ConnectAssumption DEF Init
  <2>4. alive \subseteq Pods /\ redis \in BOOLEAN
    BY DEF Init
  <2>5. {session, subscriber, lock} \subseteq [Pods -> 0..MaxConns]
    BY <2>3 DEF Init, None
  <2>6. QED
    BY <2>2, <2>3, <2>4, <2>5 DEF Init, TypeOK, SockType, ReqType, Places, None
<1>4. OneProcess
  BY DEF Init, OneProcess
<1>5. \A c \in Conns : SockOK(c)
  BY <1>1 DEF SockOK, NoSock, Inserted, Added, Looping
<1>6. \A r \in Requests : ReqOK(r)
  BY <1>2 DEF Init, ReqOK, NoReq, None, Written
<1>7. RevokedCannotSend
  BY <1>2 DEF RevokedCannotSend, NoReq
<1>8. QED
  BY <1>3, <1>4, <1>5, <1>6, <1>7 DEF IInv

LEMMA NextIInv == IInv /\ [Next]_vars => IInv'
<1> SUFFICES ASSUME IInv, [Next]_vars PROVE IInv'
  OBVIOUS
<1>1. CASE UNCHANGED vars
  <2>1. Quiet
    BY <1>1, Types, OneProcessSame DEF vars, Quiet
  <2>2. QED
    BY <2>1, QuietStep
<1>2. ASSUME NEW c \in Conns, NEW p \in Pods, Authenticate(c, p) \/ RecoverOwner(p, c) PROVE IInv'
  BY <1>2, AuthenticateKeeps, RecoverOwnerKeeps
<1>3. ASSUME NEW c \in Conns, Handler(c) PROVE IInv'
  BY <1>3, RegisterRefusedKeeps, RegisterCheckKeeps, RegisterInsertKeeps, RegisterPresenceKeeps,
     RegisterAddKeeps, RegisterRecheckKeeps, EnterLoopKeeps, LoopKeeps, UnregisterKeeps, ClearKeeps
  DEF Handler
<1>4. ASSUME NEW c \in Conns, TakeCommand(c) \/ SendPing(c) \/ SocketFails(c) PROVE IInv'
  BY <1>4, LoopKeeps
<1>5. ASSUME NEW c \in Conns, NEW g \in Jtis, RevokeHeard(c, g) PROVE IInv'
  BY <1>5, RevokeHeardKeeps
<1>6. CASE PresenceExpires
  BY <1>6, PresenceExpiresKeeps
<1>7. ASSUME NEW p \in Pods, Crash(p) \/ Restart(p) \/ EnsureCurrent(p) PROVE IInv'
  BY <1>7, CrashKeeps, RestartKeeps, EnsureCurrentKeeps
<1>8. ASSUME NEW r \in Requests, Request(r) PROVE IInv'
  BY <1>8, RequestWritesKeeps, RevokeLocalKeeps, RevokeMarkKeeps, RevokePublishKeeps, RevokeLocalGoneKeeps,
     RevokeConfirmedKeeps, RequestFailsKeeps
  DEF Request
<1>9. ASSUME NEW r \in Requests, NEW p \in Pods, RequestReads(r, p) PROVE IInv'
  BY <1>9, RequestReadsKeeps
<1>10. QED
  BY <1>1, <1>2, <1>3, <1>4, <1>5, <1>6, <1>7, <1>8, <1>9 DEF Next

LEMMA SpecIInv == Spec => []IInv
  BY InitIInv, NextIInv, PTL DEF Spec

(* Every socket, request, key and map has its type, and no generation is   *)
(* ahead of the ones that were issued.                                     *)
THEOREM RegistryTyped == Spec => []TypeOK
<1>1. IInv => TypeOK
  BY DEF IInv
<1>2. QED
  BY <1>1, SpecIInv, PTL

(* After a rotation or a disconnect that reported success, no socket of    *)
(* the old generation can send, on any process, with Redis and without.    *)
THEOREM RevokedCannotSendHolds == Spec => []RevokedCannotSend
<1>1. IInv => RevokedCannotSend
  BY DEF IInv
<1>2. QED
  BY <1>1, SpecIInv, PTL

(* The recovery of owners never removes a socket whose handler still runs. *)
THEOREM LiveOwnerKeptHolds == Spec => []LiveOwnerKept
<1>1. IInv => LiveOwnerKept
  BY DEF IInv, SockOK, LiveOwnerKept, At, Added
<1>2. QED
  BY <1>1, SpecIInv, PTL

(* The end of an older socket never takes the route of a newer one. *)
THEOREM NewestIsRoutedHolds == Spec => []NewestIsRouted
<1>1. IInv => NewestIsRouted
  BY DEF IInv, SockOK, Routed, NewestIsRouted, At, Inserted, Added
<1>2. QED
  BY <1>1, SpecIInv, PTL
=============================================================================
