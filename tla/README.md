# Kyomi: a verification development

Kyomi is a data-intelligence server (Rust, axum, PostgreSQL or SQLite). Users
talk to an agent in conversations, the agent runs tools against data
warehouses, and background schedulers run watches and index catalogs. Several
replicas of the server share one database and nothing else that has authority.

The part that is hard to get right, and hard to test, is what happens to a
*turn*: a message that was accepted must be answered exactly once, or end in a
way everybody agrees on, while replicas crash, leases run out, clocks disagree,
users cancel, members lose access and clients reconnect. That part is modelled
first.

## 1. Inventory

| Component | State | Operations | Interacts with | Hard because | Correct if |
|---|---|---|---|---|---|
| Run lifecycle policy (`agent-runtime/lifecycle.rs`, `lib.rs`) | none: pure functions on a run snapshot | plan submission, claim, heartbeat, cancel, finalize, interrupt, expire | called by the store under its lock | edge cases of leases and cancellation | see the store |
| Conversation store (`kyomi-auth/conversation_events*`) | `conversation_runs`, `conversation_events`, `conversation_read_projection`, receipts, `chat_messages`, `chat_sessions.event_sequence` | submit, claim, heartbeat, cancel, finish, expire, fenced events | every replica and worker; membership and sharing change under it | races of replicas, skewed clocks, retries, revocation | one running turn per conversation, no second execution, cancellation decides, all records of an outcome agree |
| Durable chat worker (`kyomi-agent/durable_chat.rs`) | per process: owner id, set of active runs, up to 32 tasks | scan, claim, execute, heartbeat, finish, recover, shut down | store, executor, WebSocket delivery | crash between any two awaits, lost answers, panics | every accepted turn ends; clients hear the committed outcome |
| Execution of a turn (`agent-runtime/execution.rs`, `kyomi-agent/runtime_adapter.rs`) | events committed so far | provider response, tool intent, durable start, invocation, receipt | store, provider, tools | ambiguous commits, retries | no tool call is invoked twice |
| Conversation reads (`server/routes/conversation_read.rs`, `conversation_events/read.rs`, `agent-runtime/replay.rs`) | per connection: newest request, one subscription; per client: cursor and staged page | subscribe, snapshot, replay, acknowledge, unsubscribe, catch up, send | store, WebSocket, client | lost notifications, stale acknowledgements, pruning, revocation | the client's copy is exact, and complete in the end |
| Agent loop (`kyomi-agent/agent.rs`) | messages, iteration and token budgets | iterate, validate charts, compact, wrap up | provider, tools, execution | limits, retries, ids of tool calls | ends within its budget, one receipt per call |
| Watch scheduler (`kyomi-agent/scheduler.rs`, `watch_execution.rs`, `kyomi-auth/watch_service.rs`) | `watches.next_run_at`, `watch_executions`, map of active tasks | start, catch up, poll, claim by compare-and-swap, execute, recover orphans, shut down; edit, run now | all replicas, users, the billing gate | two replicas, crash after the claim, shutdown, edits in between | at most one execution per firing, none left running for ever, a due watch is taken, a disabled one starts nothing, alerts agree with the record |
| Catalog scheduler (`kyomi-agent/catalog_scheduler.rs`) | due times, claims | poll, claim, index, retry | all replicas, datasources | as above | as above |
| Sessions (`kyomi-auth/chat_service.rs`) | `chat_sessions`, `chat_messages` | create, share, delete | store | deletion beside a running turn | no turn is wedged |
| Sync log and client caches (`kyomi-auth/sync_log_service.rs`, `server/routes/websocket.rs`, `kyomi-ui/cache/`) | `sync_log`; per browser a store, IndexedDB with a cursor, messages seen, a guard of repairs | write, broadcast, prune, bootstrap, delta, apply, repair, reset | every writer, the WebSocket manager, all browsers of a user | several steps per change, capped answers, dropped messages, shared answers, writes of IndexedDB that fail one by one | the cursor names a committed row; differences of counts are repaired by the next page, and repairs end |
| Tokens (`kyomi-auth/token_service.rs`, `token_refresh.rs`, `session.rs`, `jwt.rs`) | `refresh_tokens`, `users.sessions_valid_from`; signed access tokens outside | log in, refresh and rotate, end one family, end all sessions, check an access token | browsers, several replicas, two databases | refreshes and logins under way, equal timestamps, clocks set back | nothing survives the end of all sessions, and a fresh login works |
| Billing (`kyomi-auth/billing_webhook.rs`, `payment_recovery.rs`) | subscription state | webhooks, dunning | payment provider | reordered, repeated webhooks | state follows the provider |
| Connect registry (`kyomi-datasource/connect/registry.rs`, `owner_recovery.rs`, `server/connect/handler.rs`) | per process: routes, subscribers, cleanup identities; Redis: presence, active generations, revocation markers; the token generation in the database | register, loop, unregister, revoke, recover owners; rotate, disconnect | sockets, replicas, Redis, the database | reconnects, blocked sends, lost publications, dead processes | a confirmed revocation is final, a live owner is not removed, the newest socket is routed to |
| MCP sessions (`kyomi-auth/mcp_session_manager.rs`) | pool of sessions | open, reuse, evict | remote servers | eviction in use | no use after close |

Left aside: datasource drivers, knowledge search, embeddings, charts, the user
interface and the desktop shell, which compute or present and have no protocol
of their own. The WebSocket manager is modelled where its fan-out and its bounded
channels matter, in `SyncLog`; for the conversation reads its messages are hints.

The hazards that the properties are aimed at are listed, with their lines, in
`PROJECT.json`; those that no property covers are in section 5.

## 2. Modules

| Module | Models | Extends |
|---|---|---|
| `RunLifecycle` | the policy, one guard and one result per plan | |
| `ConversationStore` | the store; one action per transaction | `RunLifecycle` |
| `ConversationStoreProofs` | the theorems about the store | `ConversationStore` |
| `ConversationTurns` | the abstract specification of a conversation's turns | |
| `ConversationJournal` | the journal as the interface of the store, and the mapping to the abstract turns | `ConversationStore` |
| `ConversationJournalProofs` | the proof of the refinement | `ConversationStoreProofs`, `ConversationJournal` |
| `DurableChat` | workers, tasks, tools and delivery over the store | `ConversationStore` |
| `DurableChatProofs` | the theorems about the workers | `DurableChat`, `ConversationStoreProofs` |
| `ConversationReads` | subscriptions, pages, acknowledgements and the client's cursor | |
| `ConversationReadsProofs` | the theorems about the reads | `ConversationReads` |
| `WatchScheduler` | pods, executions, edits and manual runs of a watch | |
| `WatchSchedulerProofs` | the theorems about the watches | `WatchScheduler` |
| `ConnectRegistry` | sockets, registry, Redis keys, revocations and recovery for one datasource | |
| `ConnectRegistryProofs` | the theorems about the registry | `ConnectRegistry` |
| `Sessions` | logins, refreshes and revocations of one user | |
| `SessionsProofs` | the theorems about the sessions | `Sessions` |
| `SyncLog` | writers, log, sync requests, and the store, IndexedDB and repairs of a browser | |
| `SyncLogProofs` | the theorem about the cursor of a browser | `SyncLog` |
| `MC...` | the instances for TLC | |

Operators whose name ends in a description of a mistake, marked `\* bug`, are
not part of the models: each is a version of the definition that follows it with
a plausible programming error, which the property it is meant for must refute.

### ConversationStore

Every operation of `ConversationStore` (Rust) is a transaction that first
updates the session row (`authorize!`) and so holds it to the end: one operation
is one action, and an operation that fails changes nothing and has none.

* `runs` is `conversation_runs`. The stored fence is also the fence of the
  lease, and `owner`, `expires` are the rest of it. Timestamps that no decision
  reads are left out.
* `committed` is `conversation_events`, as the set of events of each run: the
  idempotency keys of a run make each unrepeatable. A committed
  `tool_outcome` or `tool_unknown` stands for the row in
  `conversation_tool_receipts` as well. Provider responses, usage, planning,
  intents, recorded messages and thinking events are one event, `record`: no
  decision of the store looks at them.
* `message` is the status of the assistant's `chat_messages` row.
* `context` is the set of turns whose messages `claim` loads for the prompt.
* `access` stands for `workspace_users`, `users` and the sharing of the session:
  the pairs that pass `authorize!`. It changes at any time.
* `granted`, `accepted` and `ahead` are what the outside was told: leases in the
  hands of workers (who never forget one), runs named in answers to requests,
  and the turns that were open when a turn was accepted.

`now` and `submitted_at` are inputs of the actions, any value of `Times`: the
clocks of the replicas are neither synchronized nor monotonic. `locked_now`,
which adds the time spent waiting for the lock, is one more way to get such a
value.

`write_terminal` is the macro that ends a turn. It closes the tool calls that
were started and have no receipt, appends the terminal event, sets the message
and writes the row, and it fails unless the message is still in progress.

### ConversationTurns and ConversationJournal

`ConversationTurns` says what the store promises, without replicas, leases,
clocks, retries or authorization: a turn is accepted, begins when no turn of its
conversation is running, may be asked to stop, starts and settles tool calls,
and ends once; asked to stop, it ends as cancelled, and no tool call is left in
doubt. `ConversationJournal` maps the store to it through the committed events
alone (`journal_phase`, `told`) and the conversation of the run. The rows, leases
and messages do not occur in the mapping, so the refinement says that whoever
replays the journal, as the readers do, reconstructs a correct history.

### DurableChat

A worker is one incarnation of `DurableChatWorker::start`, with its own owner
id. `active` is its set of run ids, `task` its `JoinSet` (one slot for each of
the `MAX_ACTIVE` tasks), and the phase of a task is the await it is at:

| phase | code |
|---|---|
| `claim`, `expire` | the two branches at the head of `execute` |
| `model` | `ExecutionContext::complete` and `ingest` |
| `call`, `start`, `execute`, `outcome` | the steps of `ExecutionContext::tool`: intent, durable start, invocation, receipt |
| `finish` | `finish_with_metadata` and the delivery |
| `done`, `panicked` | what `join_next` returns |

`Beat` is the heartbeat of `drive_execution`. It runs beside every phase of the
execution, and the one renewal in flight when the execution ends can still
discard its result. `Unavailable` is a commit of the sink that fails with an I/O
error: the event may be in the journal or not, and the sink retries it twice.
`executed` counts real invocations, `delivered` what was pushed to the client.
Time is relative to the present: operations see 0, and `Tick` moves every
expiry nearer, which keeps the state space finite without a horizon.

Crashes, panics, storage failures and provider failures draw on `MaxFaults`.
Cancellation, revocation and the passing of time are free.

### ConversationReads

The journal of one conversation is a sequence of records as a reader of one run
sees them: `shown`, `other` (another run) or `restricted`. `sub`, `newest` are
`ConnectionReads`; `captured` is a response between `catch_up` and
`send_response`, which reads and sends under different locks. `client` is a
`ReadProjectionCursor` and the request it belongs to, `applying` are its tokens
in the hands of asynchronous applications, including those of replaced
subscriptions, and `projection` is what the client stored. A page ends at its
limit or before a shown record that does not fit (`Prefixes`);
`MIN_REPLAY_BYTES` makes the first one fit. The client is external: it uses the
cursor as its comments say, asks again after an error, and takes a snapshot
after a reset.

### WatchScheduler

One watch and several pods over one database; watches meet only in the order in
which a poll visits them. Each statement to the database is a step, and may
fail; a failed write may have been applied.

| state | code |
|---|---|
| `watch` | `enabled` and `next_run_at` of the row in `watches` |
| `row` | status and `started_at` of the rows in `watch_executions` |
| `loop` | where `start` and `poll_loop` of a pod are: `missed` and `catchup` in `check_missed_executions`, `boot` and `recover` before `recover_orphaned_executions`, `poll`, `claim` and `won` in `poll_due_watches`, `sleep`, `exited`; `down` without a process |
| `seen` | what the pod read: `next_run_at`, and when |
| `tracked` | the entry of the watch in `active_executions` |
| `stop` | where `shutdown` is, beside the loop: `wait` for the tasks, `keys`, `mark`, `done` |
| `task` | executions: `load`, `insert`, `verify` (the checks of the creator, the budget and the model), `disable`, `run`, `deliver`, `fail` and `minimal` (the two writes of the error path), `done`; `gone` when aborted or lost with the process |
| `edit`, `call` | `update_watch` between its read and its write, `run_watch_now` between its two checks and the spawn |
| `claims`, `delivered`, `late` | history: the firings claimed, the executions whose alert went out, those that had loaded the watch when it was last disabled |

The schedule fires at the multiples of `Period`. Time is in units larger than
the 30 seconds that a shutdown waits, so time does not pass during a shutdown.
Executions take any time, so each can be overtaken by orphan recovery or by the
shorter patience of run-now. A claimed firing can be lost (`Spawn` fails, the pod
crashes): that is the at-most-once of the code, and no property says otherwise. An
execution whose creator has left the workspace disables the watch and leaves
`next_run_at` as it was (`DisableWatch`), so a poll that read the watch before can
still claim that slot; `DisabledStaysQuiet` says that what it spawns ends when it
loads the watch.
Failures end at `Horizon` and time at `MaxTime`; between the two there is time
for every recovery.

### ConnectRegistry

One datasource. A socket is a number in the order of authentication; `sock` says
where its handler is, on which process, with which token generation and
connection id.

| place of a handler | code |
|---|---|
| `authenticated` | `handle_connect_ws` has checked the token and the row |
| `checked`, `inserted`, `present`, `added` | the awaits of `register_authenticated`, under `registration_lock` |
| `registered` | before the second `session_is_current` |
| `idle`, `sending` | `run_message_loop`, and a write to the socket that has not completed |
| `ended`, `clearing`, `cleared`, `closed` | `unregister` and the two statements of `clear_redis_lifecycle` |
| `dead` | lost with its process |

`session`, `subscriber` and `lifecycle` are the maps of a process, `told` the
watch channel of a socket. A socket whose entry in `connections` was replaced
has lost the sender of that channel and is woken by it (`Woken`). `presence`,
`active` and `revoked` are the keys in Redis, without which (`redis` false) one
process runs at a time. `inbox` are publications under way; one that is lost is
never put there. `req` follows a rotate or disconnect request through its write
and the steps of `revoke_generation`. `RecoverOwner` stands for the scan of
`recover_owner_page` with its proof that the owner's process is dead: the file
lock of a process is free when the process has ended. Commands and their answers
are abstracted to the handler's ability to send.

### Sessions

One user. `row` are the rows of `refresh_tokens`; `proc` the requests, at their
awaits: a login has read the user and signed a token (`read`, `minted`), a
refresh has verified its token before that (`verified`), `replaced` is a rotation
between its two writes, `ending` and `updating` the end of one family, `all` that
of all sessions. Transactions that start with the UPDATE of the users row hold
`lock`. The UPDATE of a family does not: in PostgreSQL (`pg`) it works on the rows
that were committed when it began (`snap`) and waits for those that a rotation
has changed; in SQLite it is the only writer. Time is the clock in microseconds;
`SetBack` sets it back. `epoch`, the `since` of rows and tokens, and `gone` are
history: how often all sessions were ended, in which epoch a token was signed,
which families were reported as ended.

### SyncLog

One browser (the device) of a user who has others, and one reconciled entity
type.

| state | code |
|---|---|
| `log` | `sync_log` by id: an id is taken from the sequence (`pending`), its row is committed (`visible`) or not (`void`), and `pruned` later |
| `writer` | a request between its change, its snapshot, its log entry and its broadcast; each of the last three can fail and is then skipped |
| `handler` | the receive task of the device's connection, which answers one request at a time in the steps of `handle_sync_bootstrap` and `handle_sync_delta` |
| `queue`, `ask` | the bounded channel to the device, its requests |
| `store` | the reactive store of the page |
| `idb`, `cursor` | IndexedDB: the entities, `last_sync_id` |
| `jobs` | the tasks that use IndexedDB, each a list of steps |
| `seen` | `seen_messages` of the WebSocket client |
| `attempted` | `RepairGuard` |
| `dropped` | history: a message of this connection met a full channel |

`Send` gives every message to `try_send`: any of them is dropped if the channel is
full at its turn, and those after it may fit again, because the socket is written
to meanwhile. `OtherAnswered` is the answer to another browser of the same user,
which goes to all its sockets. A message whose type and data the client has seen is
skipped: rows of a bootstrap have no `sync_id` and the timestamp of the entity, so
the same row in two bootstraps is one message; a broadcast holds its own time and
is never one (`Broadcasted`). The set is emptied at 1000 keys, which other messages
fill (`ForgetSeen`, with `OtherTraffic`). The handlers of `sync_action`,
`sync_complete` and `sync_reset` change the store at once and leave IndexedDB to a
task; tasks open the database in the order they were spawned and interleave after
that, and each write fails alone (`TaskFails`). That they open it in that order,
and that a publication through Redis fails no otherwise than a full channel, are
assumptions.

## 3. Runs

| Run | Instance | Shows |
|---|---|---|
| `store` | one conversation, two turns of two actors, two workers, one tool, clock values 0 and 2 and a lease of 2 | all invariants of the store, `TerminalFrozen` and the refinement `ImplementsTurns`, about 480,000 states |
| `chat_execution` | one run, two incarnations with two slots, two tool calls, three faults | `InvokedOnce`, `OneExecution`, `DeliveryAgrees`, `EveryTurnEnds` |
| `chat_queue` | two turns of two actors, one worker with one slot, one fault | `EveryTurnEnds` when the head of the queue cannot be claimed and when all slots are taken |
| `reads` | three records, pages of two, two faults | `CopyExact`, `ServerNotAhead`, `OnePageOutstanding`, `NothingAfterRevocation`, `EverythingArrives` |
| `watch_pods` | two pods, firings at 2 and 4, two failures up to time 2 | `AtMostOncePerSlot`, `OneScheduledPerPod`, `EveryExecutionEnds`, `DueIsTaken` |
| `watch_users` | one pod, firings at 2 and 4, one edit and one run-now request at a time, billing changes | `DisabledStaysQuiet`, and `AlertsAgree` under the recoveries of the loop and of run-now |
| `watch_shutdown_marks` | one pod, one failure | where the code differs from its documentation (below) |
| `connect` | two processes, two sockets, two generations, one request, one crash, with and without Redis | `RevokedCannotSend`, `LiveOwnerKept`, `NewestIsRouted`, `RevokedDrains`, about 730,000 states |
| `connect_subscriber` | two processes, two sockets | a subscriber is lost (below) |
| `sessions` | five requests, three tokens, two instants and one step back, both databases | `NoneSurvives`, `AccessExact`, `FreshLoginWorks`, `FamilyGoneSqlite`, about 1.8 million states |
| `sessions_family` | three requests, two tokens | a family outlives its end (below) |
| `sync` | one writer, one entity, one change, a channel of one message, deltas of one row, one failure, one lost connection | `CursorNamesRow`, `CountsConverge`, `RepairsEnd`, about 1.2 million states |

Why the bounds are enough. The store compares runs in pairs (queue order,
mutual exclusion); clock values 0 and 2 with a lease of 2 give a lease that
still runs, one that is over to the instant and a clock that went back; two workers are the racing ones; one tool call has every combination of
start, receipt and doubt. The theorems remove these bounds. In `chat_execution`
three faults reach every second failure during the recovery from a first one,
and the two attempts that a commit is retried. In `reads`, three records and
pages of two give a full page, a short page, an empty page and a page that ends
in front of a restricted tail, and two faults a disconnect during the recovery
from a reset.
In the watch runs, two pods are the racing ones,
two failures are a crash or failed statement and another one during its
recovery, and two firings let a pod meet the next firing with the last execution
under way, restart in between, or find it claimed; a third firing comes from the
catch-up run.
In `connect`, two sockets are the old and the new one of a reconnect, on the same
process or on two, and two generations are what a rotation replaces and what it
writes. In `sessions`, four requests are what the longest story needs (a login, a
refresh of its token, the end of the family or of all sessions, and another
refresh in between), and a fifth adds a second end; three tokens are a login and
two rotations. In `sync` the ratio of the code is kept: an answer is longer
(10,000 rows) than the channel (256 messages), here two messages in a channel of
one, so either message of an answer can be the one that is lost, the `sync_complete`
included. Older entities (`Init`) make the first bootstrap carry something, one
failure can strike at every step, and one lost connection or closed page leaves a
second one to recover in. `CountsConverge` was also checked with two entities,
without failures and other traffic (410,000 states), where a count can agree by
accident.

Deadlock is not checked in `chat_*`, `reads`, `connect*`, `sessions*` and `sync`:
when every turn has ended, every record has arrived, or all sockets, requests or
changes of the instance are used up, these systems rightly stop.

### Fairness

`EveryTurnEnds` assumes weak fairness of starting a replacement process, of the
scan (a one-second timer), of each step of a task (the runtime polls ready
tasks, and provider and tool calls return or fail, because they have timeouts)
and of time. It assumes nothing of heartbeats, so a lease may run out under a
busy owner, and nothing of clients. Failures are finitely many but come at any
point: with a database that never answers, nothing ends. `EverythingArrives`
assumes weak fairness of the send task's commands, timer and sends, and of a
client that reconnects, asks and applies; nothing of notifications.
`EveryExecutionEnds` and `DueIsTaken` assume weak fairness of restarting a pod,
of its loop (a 30-second timer), of its shutdown, of each execution (whose
calls have time limits) and of time; nothing of users.
`RevokedDrains` assumes weak fairness of each step of a handler (tasks run, Redis
and the database answer in the end, a blocked write ends or fails), of the
recovery scan, and strong fairness of the check that ends a revoked loop: the
`select!` is biased, and the timer of that check stands before commands,
messages and pings (`handler.rs:279`). `CountsConverge` and `RepairsEnd` assume
that the server answers its requests, that the page handles its messages, that its
tasks finish, and that it reconnects (`schedule_reconnect`); changes, failures and
lost connections are finitely many. The page gives up after ten attempts in a row
(`websocket_client.rs:158`), which is not modelled: a user who reloads it is.

### What is and is not promised of the caches

`CountsConverge` speaks of a page that was just opened, when no more changes and
failures come: it ends with as many entities as the server has. Two cases are left
out, and TLC refutes the property without either. A message of that last connection
was dropped: the repair is made once in a connection, and if its own rows or its
`sync_complete` are dropped, only the next connection repairs again. And IndexedDB
has entities and no cursor (the cursor failed to be written, or the page was closed
in the first bootstrap): the bootstrap that follows finds more rows than it lists,
the repair asks for the same bootstrap again, and its rows are skipped as duplicates.
A page that stays open is not promised anything, and equal counts are not equal
contents, which are not promised at all; both are among the disagreements below.
`RepairsEnd` has no exceptions.

### Where the code differs from its tests and documentation

`watch_shutdown_marks`: `shutdown` drains the map of tasks when its deadline
passes (`scheduler.rs:611`) and then takes the executions to mark from the empty
map; they stay `running` until orphan recovery. Its documentation (line 575)
says they are marked as errors.

`connect_subscriber`: `start_command_subscriber` aborts whatever subscriber the
datasource has (`registry.rs:460`) and is called after the registration lock was
given back. A handler that was replaced in between aborts the subscriber of the
newer socket; the comment at `registry.rs:106` says that stale cleanup cannot do
that. The newer socket then hears no commands and no revocations of other
replicas; `RevokedDrains` shows that revocations still take effect.

`sessions_family`: on PostgreSQL the UPDATE of `revoke_token_family` does not see
the row that a rotation under way inserts (`token_service.rs:293`), so the family
keeps a usable token, although the documentation (line 13) says that the entire
family is revoked. `FamilyGoneSqlite` is the part that holds.

Five more disagreements are known and have no run. The queue position of a turn
is `submitted_at`, read before the session lock
(`kyomi-auth/src/chat_service.rs:2398`), so a turn accepted later can stand before
one accepted earlier, although a test says "queue cannot bypass earlier accepted
turn" (`conversation_events/tests.rs:1060`); `QueueOrder` is what holds. The
marking at shutdown selects by watch (`scheduler.rs:643`), so a pod with a finished
entry in its map marks the execution that another pod has under way; the comment
at line 625 says that it does not.

`update_watch` decides on `next_run_at` with the value of `enabled` that it read
(`watch_service.rs:837`). A change of the schedule that read the watch disabled
stores no time after another edit enabled it: the watch is enabled and never fires,
although the documentation (line 795) says that enabling sets the time.

A bootstrap lists the entities, reads the watermark and then streams the listing
(`websocket.rs:683`). An entity that is deleted in between is logged below the
watermark, its broadcast comes before the stream, and the stream inserts it again;
the next delta starts after the log entry, although the comment at `helpers.rs:776`
says that the log entry lets the client converge on its next delta. Here the counts
differ, and a page that is opened later repairs it; an entity that was changed stays
old.

A repair wipes the store and asks for a bootstrap "to repopulate every wiped type"
(`sync_engine.rs:246`). Rows that did not change since the bootstrap before it are
the same messages, and the client skips them (`websocket_client.rs:516`), although
a comment there says that duplicates only occur from concurrent reconnections. The
store stays short of them until 1000 other messages have come and another connection
repairs it, or the page is opened again. `SyncLog` has all of this, and it is why
`CountsConverge` speaks of a page that was just opened.

Three limits of the watch properties are worth knowing. `AtMostOncePerSlot` is
checked without edits: an edit that computed `next_run_at` before a firing and
is written after its claim brings that firing back. Firings missed by more than
24 hours are skipped at start-up but claimed by the first poll, whose query has
no lower bound (`scheduler.rs:708`), and `DueIsTaken` depends on it: with the
cutoff in the poll as well, such a watch would never fire again, which is how
the mutant of that property fails. And the check of run-now counts records that
the spawned task inserts later, so overlapping requests all pass it.

## 4. Proofs

`ConversationStoreProofs` proves, for every value of the constants that satisfies
`StoreAssumption` (integer run ids and times, a positive TTL, `None` not a real
value):

| Theorem | Property |
|---|---|
| `StoreInvariant` | `IInv`, the inductive invariant |
| `Typed` | `TypeOK` |
| `MutualExclusion` | `OneRunning` |
| `AtMostOneExecution` | `NeverReclaimed` |
| `CancellationDecides` | `CancelWins` |
| `RecordsAgree` | `ProjectionAgrees` |
| `NoToolInDoubt` | `ToolsSettled` |
| `QueueKept` | `QueueOrder` |
| `PromptSettled` | `ContextSettled` |
| `RequestsIdempotent` | `OneRunPerRequest` |
| `EndedTurnsFrozen` | `TerminalFrozen` |

`IInv` adds to the invariants what makes them inductive. `RowsSound`: the fence
is 0 or 1, a run that is unknown or queued has fence 0 and no request to stop, an
unknown one has no events, and only ended runs have unknown tool outcomes.
`LeasesSound`: the run of every lease in a worker's hands has fence 1, and a run
has one lease; a claim raises the fence, so no second one exists. `AheadSound`:
the turns recorded as ahead of a turn exist and are of its conversation.
`RequestsSound`: an answer names the stored run of that request, and a request
has one run. `OneRunning`
needs no clock at all: it follows from the guard of the claim under the session
lock, and the clock only decides how early a turn ends.

The proof that a step preserves `IInv` does not go through the actions one by
one. Each action is first shown to be one of five kinds of step: it accepts a
turn, claims one, advances a running one (heartbeat, cancel request, event), ends
one, or touches no row at all (`Ends`, `Advances`, `WritesRow`); the invariant is
proved once for each kind. `EndedTurnsFrozen` uses the same views: a step only
writes rows that are open.

`ConversationJournalProofs` proves `JournalImplementsTurns`: `Spec` implies
`ImplementsTurns`. `IInv` says how rows and journal agree at the end of a turn;
the refinement also needs their agreement on the way (`JInv`): an accepted run
has its submitted event, it has a started event exactly when its fence is 1, and
no tool call starts before. Then `journal_phase` is the state of the row
(`PhaseIsState`), and every kind of step, accept, claim, event, cancel, finish,
expire, is a step of the abstract turns or changes nothing in the mapping.

`SessionsProofs` proves, for every number of requests and tokens, every horizon of
the clock and every number of steps back (`SessionsAssumption`):

| Theorem | Property |
|---|---|
| `SessionsTyped` | `TypeOK` |
| `NoneSurvivesHolds` | `NoneSurvives` |
| `AccessExactHolds` | `AccessExact` |
| `FreshLoginWorksHolds` | `FreshLoginWorks` |
| `FamilyGoneSqliteHolds` | `FamilyGoneSqlite` |
| `CutoffAdvancesHolds` | `CutoffAdvances` |

Its invariant follows a request from read to write. `CutOK`: the cutoff that a
request has read is the present one, or all sessions were ended since; what it
signed lies above the cutoff it read; and a refresh whose token is still active
has seen the present epoch. `SignedOK` and `AccessOK`: what was signed in an earlier
epoch is not above the cutoff, unless the clock was set back. `TokenOK`: the token
that a request presents is stored, and active while a rotation has replaced it.
`RowsOK` and `UpdateOK`: families are named after stored tokens, and with SQLite
the UPDATE of a family holds the lock and has every usable row of the family. The
lock is what makes `NoneSurvives` inductive: nobody ends the sessions between the
check of a row or a cutoff and the commit that relies on it.

`ConnectRegistryProofs` proves, for every set of processes and requests and every
number of sockets, generations and crashes (`ConnectAssumption`), with Redis and
without:

| Theorem | Property |
|---|---|
| `RegistryTyped` | `TypeOK` |
| `RevokedCannotSendHolds` | `RevokedCannotSend` |
| `LiveOwnerKeptHolds` | `LiveOwnerKept` |
| `NewestIsRoutedHolds` | `NewestIsRouted` |

Its invariant says what a socket and a request can rely on. `SockOK`: a handler
that still runs is on a live process; once it is in the maps it has a cleanup
identity, and is routed to or has been replaced by one with a greater identity;
once it is added it is in the active set; and identities do not exceed the number
of those given out on the process, so the next one is greater than all before.
`ReqOK`: a generation that a request has read is not above the ones issued, so the
write that follows makes it unusable for good: no later handler passes the check
before the message loop. What is left at the success of a request is that the
handlers already in the loop are gone. With Redis the empty active set says so,
because recovery removes only owners whose process is dead; without Redis the
cleanup identities of the one process say so (`OneProcess`). Most actions are one
of three kinds of step, of a socket, of a request, or of neither (`SockStep`,
`ReqStep`, `QuietStep`), for which the invariant is proved once.

`DurableChatProofs` proves, for every set of workers, slots, runs, tools and times
(`WorkerAssumption`, `StoreAssumption`):

| Theorem | Property |
|---|---|
| `WorkersKeepStore` | `OneRunning`, `NeverReclaimed`, `CancelWins`, `ProjectionAgrees`, `ToolsSettled`, `QueueOrder`, `ContextSettled`, under the workers |
| `ToolsInvokedOnce` | `InvokedOnce` |
| `RunsExecutedOnce` | `OneExecution` |
| `ClientsToldTheEnd` | `DeliveryAgrees` |

A step of a worker uses the store through its operations or leaves it alone, and
the clock is shown apart (`TickMoves`), so `IInv` carries over to the composition.
On top of it `TasksSound` says what a task has at each await: from `claim` on it
holds a lease of its run. The store grants a run one lease in its life, so at most
one task ever drives it (`OneDriver`), which gives `OneExecution`. `CallsSound`
follows a tool call: a task about to invoke has just made the start durable and
the tool was not invoked before, and one about to write the receipt has invoked it
once. Neither is enough alone: with a second driver both could be between start
and invocation, and without the order one driver could invoke twice.
`DeliveryAgrees` then says that what the client was told is the state of the row.
Operations of the workers see the time 0, hence `0 \in Times` in the assumption.

`ConversationReadsProofs` proves, for every page size, every number of events,
and failures (`ReadAssumption`, `NoneAssumption`):

| Theorem | Property |
|---|---|
| `Typing` | `TypeOK` |
| `CopyIsExact` | `CopyExact` |
| `ServerStaysBehind` | `ServerNotAhead` |
| `OneOutstanding` | `OnePageOutstanding` |
| `RevocationStops` | `NothingAfterRevocation` |

`PagesExact`: a page, wherever it is, holds the events of its range of the journal
and no others (`ReadPageExact`: that is what the store reads when the cursor is not
below what was pruned). `CopyExact` follows if the page that is applied continues
what the client holds, which is where the rest is needed: requests are numbered in
the order they are made (`Numbered`), until the first answer to its newest request
the client holds everything up to the cursor it sent (`AskedFromHeld`), a page of
the subscription follows the server's cursor, which is not past what was applied
(`Follows`), and the page of a subscription is in one place, held by the send task,
on its way, at the client, or acknowledged on the way back (`InOnePlace`). The parts
that speak of the subscription take it as a parameter (`ServerInv`), because a
command changes the subscription before it reads: the invariant is shown of the
subscription in between as well. `NoneAssumption` says that the value for "none" is
neither a cursor nor a token.

`WatchSchedulerProofs` proves, for every number of pods, callers, executions and
failures:

| Theorem | Property |
|---|---|
| `Typing` | `TypeOK` |
| `OneAtATime` | `OneScheduledPerPod` |
| `AlertsOnRecord` | `AlertsAgree` |
| `SlotsClaimedOnce` | `AtMostOncePerSlot`, when nobody edits the watch |
| `DisabledIsQuiet` | `DisabledStaysQuiet` |

The hypothesis on `Editors` in `SlotsClaimedOnce` is not there for the proof: the
statement is false without it. An edit that computed its fire time before a claim
and stores it after sets `next_run_at` back, and the slot is taken again. The run
checks the same property on an instance without editors. `TaskInv`: executions are
numbered as they are spawned, and the map of a pod holds its scheduled execution
that is under way and nothing between a claim and its spawn. `AlertInv`: an alert
that was sent or is
about to be is on record as a success, and its execution writes nothing more.
`DueSeen`: a pod that is about to move `next_run_at` read a time that was due, so
the new one, computed from a later instant, is after it. With that `SlotInv` is
inductive: every claimed time lies before `next_run_at`, and a claim compares with
what the pod has read, so of several pods that read the same time one gets it.
`DisabledStaysQuiet` is inductive with `TaskInv`: an execution gets past its load only
while the watch is enabled, and whenever the watch becomes disabled those that are
past it are noted, whoever disabled it. `PodAssumption` says that the empty owner is
not a pod.

`SyncLogProofs` proves, for every finite set of entities, every number of writers,
changes, faults and lost connections and every size of deltas and channels:

| Theorem | Property |
|---|---|
| `CursorIsCommitted` | `CursorNamesRow` |

It matters because `is_sync_id_available` answers a cursor whose row does not exist
with a reset, and a cursor that names an id which was rolled back would be answered
so at every connection. The invariant is stated as types that depend on the log.
`Ids(log)` is 0 and the ids of rows that were committed, pruned ones included;
`Messages(log)`, `Requests(log)`, `Handlers(log)` and `Jobs(log)` are the messages,
requests, states of the handler and tasks whose ids are among them, and `WireOK` and
`DeviceOK` say that all those on the way are of these types. Two facts carry the proof:
no step takes an id out of `Ids` (`Grow`), for which the row of an open INSERT must
be pending and its writer's alone (`Inserting`), and every id that is put into a
message is read from rows that are visible. `SendType` shows that what a full channel
leaves of an answer is still a sequence of its messages.

Only model-checked: `EveryTurnEnds`,
`EverythingArrives`, `EveryExecutionEnds`, `DueIsTaken`, `RevokedDrains`,
`CountsConverge` and `RepairsEnd`, which are liveness and out of the prover's reach.

## 5. Not modelled, and the plan

In this order:

1. Session deletion and sharing beside running turns.
2. `AgentLoop`: iterations, budgets, ids of tool calls.
3. The commands of the Connect registry with their answers and time limits; the
   catalog scheduler; billing webhooks; MCP sessions.
4. An abstract specification of the reads (a client that sees prefixes of the
   journal) and of the watch scheduler (firings taken at most once).

Hazards that no property covers. `delete_session` deletes the messages and then
the session in two statements (`chat_service.rs:1693`), beside a turn that may be
accepted or running. The provider numbers its tool calls from 0 in every response
(`gemini.rs:426`), while receipts are kept per call id. An edit of a watch can
bring back a firing that was claimed since it read the row
(`watch_service.rs:838`), and two run-now requests can both pass their check
(`server_fns/watches.rs:439`). A rotation that timed out after its write and is
tried again finds the new generation and confirms nothing about the old one
(`server_fns/connect.rs:192`); a presence key that could not be set is not set
again (`registry.rs:373`). Replicas with different clocks can put the cutoff of
all sessions before a signature (`token_service.rs:398`), and a workspace switch
reads the cutoff anew after its check (`session.rs:190`). Two writers of one
entity can log their snapshots in the opposite order (`dashboard_service.rs:814`),
and a row that commits after one with a higher id was read as the watermark is in no
delta (`sync_log_service.rs:125`); both leave old contents in the cache.

Within the modelled parts the following is left out: contents, sizes, versions
and encryption of events and messages; the expansion of details; the run
metadata of snapshots; token usage and progress notifications; the legacy append
of conversations without a lifecycle; local cancellation tokens of copilots; and
of the watches their creation and deletion, the daily cleanup, the agent session
inside an execution and the channels of an alert; of the registry the commands
and their answers; of the sessions OAuth grants, access tokens without a refresh
token, expiry and deactivated users; of the sync log changes of visibility,
the detail caches, the schema hash of the cache and the end of reconnecting.
