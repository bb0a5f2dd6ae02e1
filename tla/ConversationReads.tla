-------------------------- MODULE ConversationReads -------------------------
(***************************************************************************)
(* Durable reads of one conversation over a WebSocket: the server side of  *)
(* a connection (apps/server, routes/conversation_read), the reads of the  *)
(* store it calls (crates/kyomi-auth, conversation_events/read) and the    *)
(* cursor that a client keeps (crates/agent-runtime, replay).              *)
(*                                                                         *)
(* The server sends one page at a time and waits until the client says     *)
(* that it applied it.  Snapshots page through the public projection up to *)
(* a fixed watermark; everything after the watermark is replayed from the  *)
(* journal, which retention may prune.  Notifications are only hints: the  *)
(* periodic catch-up finds what they miss, and is all that is modelled.    *)
(*                                                                         *)
(* The client is any application that uses ReadProjectionCursor as it is   *)
(* documented.  It keeps the events it applied by their sequence.          *)
(***************************************************************************)
EXTENDS Integers, Sequences, FiniteSets

CONSTANTS
    None,
    Limit,          \* records on a page
    MaxEvents,      \* bound: records of the journal
    MaxFaults       \* bound: disconnects, failures, revocations, prunings, whims

ASSUME ReadAssumption == Limit \in Nat \ {0} /\ MaxEvents \in Nat /\ MaxFaults \in Nat

VARIABLES
    journal,    \* what each record is to the reader; the index is its sequence
    pruned,     \* records up to here are gone from the journal, not from the projection
    access,     \* the reader may see the conversation
    up, conn,   \* there is a connection, and its generation
    newest,     \* newest request generation of the connection
    sub,        \* its subscription
    captured,   \* a response read from the store and not yet sent
    toServer, toClient,
    client,     \* the ReadProjectionCursor and what it waits for
    applying,   \* applications of a page under way at the client
    projection, \* sequences of the events the client has applied
    faults

server == <<up, conn, newest, sub, captured>>
host == <<client, applying, projection>>
vars == <<journal, pruned, access, server, toServer, toClient, host, faults>>

-----------------------------------------------------------------------------
(* A record is public and of the run that the reader asks for, public and  *)
(* of another run, or restricted.                                          *)
Records == {"shown", "other", "restricted"}

(* A page stands for the records after from, up to through, of a journal   *)
(* or a snapshot that ends at high.  An attempt at applying one has a      *)
(* token.  None is neither a position nor a token.                         *)
Pages == [from: Nat, through: Nat, high: Nat, events: SUBSET Nat]
Tokens == [conn: Nat, req: Nat, attempt: Nat, page: Pages]

ASSUME NoneAssumption == None \notin Nat /\ None \notin Tokens

event_sequence == Len(journal)

NoSub == [req |-> 0, cursor |-> None, snapshot_through |-> None, pending |-> None,
          live |-> FALSE]

Page(from, through, high, events) ==
    [from |-> from, through |-> through, high |-> high, events |-> events]
NoPage == Page(0, 0, 0, {})
Response(kind, req, page) == [kind |-> kind, conn |-> conn, req |-> req, page |-> page]

Fault == faults < MaxFaults /\ faults' = faults + 1

FirstRows(S) == {i \in S : Cardinality({j \in S : j <= i}) <= Limit}
Last(S) == CHOOSE i \in S : \A j \in S : j <= i

(* The byte limit can stop a page before a shown record that is not its    *)
(* first one.                                                              *)
Prefixes(found) ==
    {found} \cup
    {{j \in found : j < i} : i \in {i \in found : /\ journal[i] = "shown"
                                                 /\ \E j \in found : j < i /\ journal[j] = "shown"}}

(* A snapshot reads the projection, whose sequences are sparse, and ends   *)
(* at the watermark when it found less than a page.                        *)
read_page_short(after, high, snapshot) ==              \* bug: a full page ends the snapshot
    LET rows == {i \in after + 1 .. high :
                     IF snapshot THEN journal[i] # "restricted" ELSE i > pruned}
        found == FirstRows(rows)
    IN  {Page(after,
              IF snapshot /\ rest = found THEN high ELSE IF rest = {} THEN after ELSE Last(rest),
              high,
              {i \in rest : journal[i] = "shown"}) : rest \in Prefixes(found)}

read_page(after, high, snapshot) ==
    LET rows == {i \in after + 1 .. high :
                     IF snapshot THEN journal[i] # "restricted" ELSE i > pruned}
        found == FirstRows(rows)
    IN  {Page(after,
              IF snapshot /\ rest = found /\ Cardinality(found) < Limit THEN high
              ELSE IF rest = {} THEN after ELSE Last(rest),
              high,
              {i \in rest : journal[i] = "shown"}) : rest \in Prefixes(found)}

(* A cursor whose next record is no longer in the journal. *)
pruned_under(cursor) == cursor < event_sequence /\ cursor < pruned

Init ==
    /\ journal = <<"shown">>
    /\ pruned = 0
    /\ access = TRUE
    /\ up = FALSE /\ conn = 0 /\ newest = 0 /\ sub = NoSub /\ captured = None
    /\ toServer = <<>> /\ toClient = <<>>
    /\ client = [conn |-> 0, req |-> 0, cursor |-> 0, pending |-> None, attempt |-> 0,
                 last |-> 0, asked |-> 0, live |-> FALSE, snapshot |-> FALSE]
    /\ applying = {}
    /\ projection = {}
    /\ faults = 0

-----------------------------------------------------------------------------
(* The writers, retention and sharing. *)
AppendRecord(k) ==
    /\ Len(journal) < MaxEvents
    /\ journal' = Append(journal, k)
    /\ UNCHANGED <<pruned, access, server, toServer, toClient, host, faults>>

Prune ==
    /\ Fault
    /\ pruned' \in pruned + 1 .. event_sequence
    /\ UNCHANGED <<journal, access, server, toServer, toClient, host>>

Share ==
    /\ Fault
    /\ access' = ~access
    /\ UNCHANGED <<journal, pruned, server, toServer, toClient, host>>

-----------------------------------------------------------------------------
(* The connection. *)
Connect ==
    /\ ~up
    /\ up' = TRUE
    /\ conn' = conn + 1
    /\ UNCHANGED <<journal, pruned, access, newest, sub, captured, toServer, toClient, host, faults>>

(* The socket breaks, or a delivery times out: both channels are lost.  An *)
(* application under way at the client goes on.                            *)
Disconnect ==
    /\ up
    /\ Fault
    /\ up' = FALSE
    /\ newest' = 0 /\ sub' = NoSub /\ captured' = None
    /\ toServer' = <<>> /\ toClient' = <<>>
    /\ client' = [client EXCEPT !.asked = 0]
    /\ UNCHANGED <<journal, pruned, access, conn, applying, projection>>

(* Read the next page of subscription s, unless one is outstanding. *)
catch_up_unbounded(s) ==                               \* bug: the outstanding page is ignored
    LET high == IF s.snapshot_through = None THEN event_sequence ELSE s.snapshot_through
    IN  \/ /\ ~access
           /\ sub' = NoSub /\ captured' = Response("error", s.req, NoPage)
           /\ UNCHANGED faults
        \/ /\ access /\ s.cursor = None
           /\ \E p \in read_page(0, event_sequence, TRUE) :
                 /\ sub' = [s EXCEPT !.snapshot_through = event_sequence, !.pending = p.through]
                 /\ captured' = Response("snapshot", s.req, p)
           /\ UNCHANGED faults
        \/ /\ access /\ s.cursor # None
           /\ \E p \in read_page(s.cursor, high, s.snapshot_through # None) :
                 IF p.through = p.from /\ s.live
                 THEN sub' = s /\ captured' = None
                 ELSE /\ sub' = [s EXCEPT !.pending = p.through]
                      /\ captured' = Response("replay", s.req, p)
           /\ UNCHANGED faults

catch_up(s) ==
    LET high == IF s.snapshot_through = None THEN event_sequence ELSE s.snapshot_through
    IN  \/ /\ ~access
           /\ sub' = NoSub /\ captured' = Response("error", s.req, NoPage)
           /\ UNCHANGED faults
        \/ /\ access /\ s.pending # None
           /\ sub' = s /\ captured' = None
           /\ UNCHANGED faults
        \/ /\ access /\ s.pending = None /\ s.cursor = None
           /\ \E p \in read_page(0, event_sequence, TRUE) :
                 /\ sub' = [s EXCEPT !.snapshot_through = event_sequence, !.pending = p.through]
                 /\ captured' = Response("snapshot", s.req, p)
           /\ UNCHANGED faults
        \/ /\ access /\ s.pending = None /\ s.cursor # None
           /\ s.snapshot_through = None /\ pruned_under(s.cursor)
           /\ sub' = NoSub /\ captured' = Response("reset", s.req, NoPage)
           /\ UNCHANGED faults
        \/ /\ access /\ s.pending = None /\ s.cursor # None
           /\ s.snapshot_through = None => ~pruned_under(s.cursor)
           /\ \E p \in read_page(s.cursor, high, s.snapshot_through # None) :
                 IF p.through = p.from /\ s.live
                 THEN sub' = s /\ captured' = None
                 ELSE /\ sub' = [s EXCEPT !.pending = p.through]
                      /\ captured' = Response("replay", s.req, p)
           /\ UNCHANGED faults
        \/ /\ Fault                                    \* storage is unavailable
           /\ sub' = NoSub /\ captured' = Response("error", s.req, NoPage)

CatchUp ==
    /\ sub # NoSub /\ captured = None
    /\ catch_up(sub)
    /\ UNCHANGED <<journal, pruned, access, up, conn, newest, toServer, toClient, host>>

(* A request is answered if it is newer than every other of the connection *)
(* and replaces the subscription before it reads.                          *)
start(c) ==
    /\ c.type = "subscribe" /\ c.req > newest
    /\ newest' = c.req
    /\ catch_up([NoSub EXCEPT !.req = c.req, !.cursor = c.after, !.live = c.live])

acked_any(c) ==                                        \* bug: the generations are not compared
    c.type = "ack" /\ sub # NoSub /\ sub.pending # None

acked(c) ==
    /\ c.type = "ack" /\ sub # NoSub
    /\ c.conn = conn /\ c.req = sub.req /\ c.through = sub.pending

ack_keeps_watermark(c) ==                              \* bug: the snapshot never ends
    /\ acked(c)
    /\ catch_up([sub EXCEPT !.pending = None, !.cursor = c.through])
    /\ UNCHANGED newest

(* The page that the client has applied.  A request that is not live ends  *)
(* with its page or, if it is a snapshot, at the watermark.                *)
ack(c) ==
    /\ acked(c)
    /\ LET next == [sub EXCEPT !.pending = None, !.cursor = c.through,
                               !.snapshot_through = IF @ = c.through THEN None ELSE @]
       IN  IF ~sub.live /\ next.snapshot_through = None
           THEN sub' = NoSub /\ captured' = None /\ UNCHANGED faults
           ELSE catch_up(next)
    /\ UNCHANGED newest

unsubscribe(c) ==
    /\ c.type = "unsubscribe" /\ c.req = sub.req
    /\ sub' = NoSub
    /\ UNCHANGED <<newest, captured, faults>>

ignored(c) ==
    /\ ~acked(c)
    /\ c.type = "subscribe" => c.req <= newest
    /\ c.type = "unsubscribe" => c.req # sub.req
    /\ UNCHANGED <<newest, sub, captured, faults>>

Command ==
    /\ toServer # <<>> /\ captured = None
    /\ LET c == Head(toServer) IN start(c) \/ ack(c) \/ unsubscribe(c) \/ ignored(c)
    /\ toServer' = Tail(toServer)
    /\ UNCHANGED <<journal, pruned, access, up, conn, toClient, host>>

(* The page was read before; whether it may be seen is asked again, under  *)
(* the lock that a revocation needs.                                       *)
send_response_unchecked ==                             \* bug: the check of the read is relied upon
    /\ captured # None
    /\ toClient' = Append(toClient, captured)
    /\ captured' = None
    /\ UNCHANGED <<journal, pruned, access, up, conn, newest, sub, toServer, host, faults>>

send_response ==
    /\ captured # None
    /\ toClient' = Append(toClient,
           IF access THEN captured ELSE Response("error", captured.req, NoPage))
    /\ captured' = None
    /\ UNCHANGED <<journal, pruned, access, up, conn, newest, sub, toServer, host, faults>>

-----------------------------------------------------------------------------
(* The client.  It asks for what follows its cursor, or for a snapshot.    *)
resume == IF client.cursor = 0 THEN None ELSE client.cursor

Ask(after, live) ==
    /\ client' = [client EXCEPT !.last = @ + 1, !.asked = client.last + 1, !.live = live,
                                !.snapshot = (after = None)]
    /\ toServer' = Append(toServer, [type |-> "subscribe", req |-> client.last + 1,
                                     after |-> after, live |-> live])
    /\ UNCHANGED <<journal, pruned, access, server, toClient, applying, projection>>

(* A client that was refused asks again once it is let in. *)
Subscribe == up /\ access /\ client.asked = 0 /\ Ask(resume, TRUE) /\ UNCHANGED faults

AskAnew ==
    /\ up
    /\ Fault
    /\ Ask(resume, TRUE) \/ Ask(None, FALSE) \/ Ask(resume, FALSE)

Unsubscribe ==
    /\ up /\ client.asked # 0
    /\ Fault
    /\ toServer' = Append(toServer, [type |-> "unsubscribe", req |-> client.asked])
    /\ client' = [client EXCEPT !.asked = 0]
    /\ UNCHANGED <<journal, pruned, access, server, toClient, applying, projection>>

(* The first response to a request carries a new identity and replaces the *)
(* subscription that the cursor belonged to.                               *)
replace(m) ==
    IF client.conn = m.conn /\ client.req = m.req THEN client
    ELSE [client EXCEPT !.conn = m.conn, !.req = m.req, !.cursor = m.page.from,
                        !.pending = None]

(* Every attempt at applying a page has a token of its own. *)
token(c, page) == [conn |-> c.conn, req |-> c.req, attempt |-> c.attempt + 1, page |-> page]

stage(c, page) ==
    /\ client' = [c EXCEPT !.attempt = @ + 1, !.pending = token(c, page)]
    /\ applying' = applying \cup {token(c, page)}

stageable(c, page) == c.pending = None /\ page.from = c.cursor

(* A snapshot starts the client's copy of the conversation again. *)
ReceivePage(m) ==
    /\ m.kind \in {"snapshot", "replay"} /\ m.req = client.asked
    /\ stageable(replace(m), m.page)
    /\ stage(replace(m), m.page)
    /\ projection' = IF m.kind = "snapshot" THEN {} ELSE projection

ReceiveEnd(m) ==
    /\ m.kind \in {"reset", "error"} /\ m.req = client.asked
    /\ client' = [client EXCEPT !.asked = 0, !.cursor = IF m.kind = "reset" THEN 0 ELSE @]
    /\ UNCHANGED <<applying, projection>>

ReceiveStale(m) == m.req # client.asked /\ UNCHANGED host

Receive ==
    /\ toClient # <<>>
    /\ LET m == Head(toClient) IN ReceivePage(m) \/ ReceiveEnd(m) \/ ReceiveStale(m)
    /\ toClient' = Tail(toClient)
    /\ UNCHANGED <<journal, pruned, access, server, toServer, faults>>

(* The callback of an application.  It counts only if its token is the one *)
(* that the cursor waits for; then the page is acknowledged.               *)
current(k) == client.pending = k /\ k.conn = client.conn /\ k.req = client.req

finished(k) ==
    k.req = client.asked /\ ~client.live /\ (client.snapshot => k.page.through = k.page.high)

Applied(k) ==
    /\ projection' = projection \cup k.page.events
    /\ applying' = applying \ {k}
    /\ IF current(k) /\ k.page.from = client.cursor
       THEN /\ client' = [client EXCEPT !.cursor = k.page.through, !.pending = None,
                                        !.asked = IF finished(k) THEN 0 ELSE @]
            /\ toServer' = IF up THEN Append(toServer, [type |-> "ack", conn |-> k.conn,
                                                req |-> k.req, through |-> k.page.through])
                           ELSE toServer
       ELSE UNCHANGED <<client, toServer>>
    /\ UNCHANGED <<journal, pruned, access, server, toClient, faults>>

(* A failed application leaves the cursor alone, and the page is tried     *)
(* again with a new token.                                                 *)
ApplicationFailed(k) ==
    /\ Fault
    /\ current(k)
    /\ LET c == [client EXCEPT !.pending = None]
       IN  IF stageable(c, k.page)
           THEN /\ client' = [c EXCEPT !.attempt = @ + 1, !.pending = token(c, k.page)]
                /\ applying' = (applying \ {k}) \cup {token(c, k.page)}
           ELSE client' = c /\ applying' = applying \ {k}
    /\ UNCHANGED <<journal, pruned, access, server, toServer, toClient, projection>>

-----------------------------------------------------------------------------
Next ==
    \/ \E k \in Records : AppendRecord(k)
    \/ Prune \/ Share
    \/ Connect \/ Disconnect
    \/ Command \/ CatchUp \/ send_response
    \/ Subscribe \/ AskAnew \/ Unsubscribe \/ Receive
    \/ \E k \in applying : Applied(k) \/ ApplicationFailed(k)

(* The send task of a connection takes its commands before its timer, the  *)
(* timer fires every CATCH_UP_INTERVAL, and clients reconnect, ask for     *)
(* what they miss and finish what they apply.                              *)
Fairness ==
    /\ WF_vars(Connect) /\ WF_vars(Subscribe) /\ WF_vars(Receive)
    /\ WF_vars(Command) /\ WF_vars(CatchUp) /\ WF_vars(send_response)
    /\ WF_vars(\E k \in applying : Applied(k))

Spec == Init /\ [][Next]_vars /\ Fairness

-----------------------------------------------------------------------------
(* The client's copy is exact up to its cursor: every event of its run is  *)
(* there and nothing restricted or of another run is, whatever was pruned, *)
(* resent, applied late or lost with a connection.                         *)
CopyExact ==
    /\ \A i \in 1 .. client.cursor : journal[i] = "shown" => i \in projection
    /\ \A i \in projection : journal[i] = "shown"

(* The server does not read on past what the client has applied: a page    *)
(* that was sent and not applied is still ahead of the server's cursor.    *)
ServerNotAhead ==
    sub # NoSub /\ sub.cursor # None /\ sub.req = client.req /\ conn = client.conn =>
        sub.cursor <= client.cursor

(* Of one subscription at most one page is read and not yet acknowledged,  *)
(* however slow the client is.                                             *)
OnePageOutstanding ==
    LET sent == {i \in 1 .. Len(toClient) : toClient[i].req = sub.req
                                           /\ toClient[i].kind \in {"snapshot", "replay"}}
        held == IF captured # None /\ captured.req = sub.req
                   /\ captured.kind \in {"snapshot", "replay"} THEN 1 ELSE 0
        staged == IF client.pending # None /\ client.req = sub.req /\ client.conn = conn
                  THEN 1 ELSE 0
    IN  sub # NoSub => Cardinality(sent) + held + staged <= 1

(* No page leaves the server after the reader's access was revoked, not    *)
(* even one that was read before.                                          *)
NothingAfterRevocation ==
    [][Len(toClient') > Len(toClient) /\ toClient'[Len(toClient')].kind \in {"snapshot", "replay"}
         => access]_vars

(* A client that keeps its access gets everything that was committed, even *)
(* if no notification ever arrives.                                        *)
EverythingArrives ==
    \A n \in 1 .. MaxEvents : event_sequence >= n ~> client.cursor >= n \/ ~access
=============================================================================
