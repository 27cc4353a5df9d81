# Formal models of happy-server

happy-server stores end-to-end encrypted sessions, messages, machines and artifacts for
its users' devices and relays live updates and RPC calls between them. It keeps its state
in PostgreSQL, uses Redis for RPC routing and for notifications, and talks to clients over
HTTP and Socket.IO. Payloads are opaque to it. What it has to get right is *coordination*:
which process is a session's runtime, in what order messages become visible, what a retry
does, who wins a concurrent update, where an RPC call goes and which sockets hear of what.

This directory holds TLA+ models of those parts, TLC configurations that check them on
small instances, and proofs, for every instance, of the safety of the lease, the outbox,
the messages, the versioned writes, the delivery of events and the activity cache.
Source paths are relative to the root of the repository. `PROJECT.json` maps every
definition that models code to the lines it models.

- [Inventory](#inventory)
- [Modules and code](#modules-and-code)
- [Runs](#runs)
- [Fairness](#fairness)
- [Proofs](#proofs)
- [Disagreements found](#disagreements-found)
- [Observations](#observations)
- [What is not modelled](#what-is-not-modelled)
- [Plan](#plan)

## Inventory

| Component | State | Operations | What is hard | What makes it correct |
|---|---|---|---|---|
| Runtime lease: `sources/app/presence/runtimeConnectionLease.ts`, `sources/app/api/socket.ts`, `socket/runtimeConnectionGuard.ts` | lease columns of `Session`, `SessionRuntimeInstanceRetirement`, data of each socket | live and replay claim, renew, fenced write, end, expire, evict, owner lock, readiness | single SQL statements that wait for locks with an older snapshot; late disconnects; lost clients; clocks | nothing a superseded or ended incarnation does takes effect; readers, admission and sweep agree on who is connected |
| Notification outbox: `sources/app/session/sessionMessageNotificationOutbox.ts`, `...Bus.ts` | outbox rows with claim tokens; one dispatcher loop per pod; Redis | wake, poll, clean up, select, claim, re-read, publish, mark delivered or failed, stop | crashes between steps, claims that lapse, `PUBLISH` that times out and is executed later | at least once, in order per session, eventually |
| Session messages: `sources/app/session/sessionMessageCreate.ts`, `sessionMessageList.ts`, `sources/storage/inTx.ts` | `Session.seq`, `Account.seq`, messages | persist in a serializable transaction with retries, acknowledge, replay by cursor | repeated local IDs over several sockets, conflicts, a lease that changes or runs out while a producer writes, paging while others commit | stored once, truthful acknowledgements, a live feed that goes on where the cursor stops |
| Session socket handlers: `socket/sessionUpdateHandler.ts` | none of its own | session-alive, session-end, message, update-metadata, update-state | use the three components above | as above |
| Versioned fields: `socket/machineUpdateHandler.ts`, `socket/artifactUpdateHandler.ts`, `routes/artifactsRoutes.ts`, `routes/accessKeysRoutes.ts`, `routes/accountRoutes.ts`, `sources/storage/seq.ts` | version and value of each part of an object; `Account.seq` | compare-and-set update, create, delete, number the update, emit it | read, write, numbering and emission are separate awaits | every object is atomic; clients see one history |
| RPC registry and dispatch: `socket/rpcRegistrationRegistry.ts`, `socket/rpcHandler.ts`, `sources/storage/redis.ts` | Redis key per (account, method); per socket a queue of operations and a map of registrations | register, unregister, refresh, close, call | cancellation while an operation waits, commands executed after their timeout, takeover, crash | the last event of a client decides; every entry has a socket that refreshes or removes it; a call reaches its target at most once |
| Session deletion: `sources/app/session/sessionDelete.ts` | rows of the session | one transaction, then a notification | races the outbox and the writers | no row of a deleted session survives |
| Presence sweep: `sources/app/presence/timeout.ts` | `Session.active`, `Machine.active` | find stale rows, write them one by one | a heartbeat between find and write | the sweep spares who is connected and catches who is silent |
| Activity cache: `sources/app/presence/sessionCache.ts`, `sessionActivityPublisher.ts` | validation cache; per target a queued heartbeat and one under way | validate, queue, flush, requeue, clean up, shut down | flushes that overlap, fail or come late; rows that change meanwhile | no heartbeat is lost, a late one does no harm |
| Event router: `sources/app/events/eventRouter.ts` | Socket.IO rooms | add, remove, emit with a recipient filter, emit a durable notification | rooms joined at the handshake, recipients chosen later and by name | an event reaches exactly the connections its filter names, once |
| Socket shutdown: `socket/shutdownSocketRuntime.ts` | none of its own | close sockets, RPC, dispatcher, bus, Redis | each phase may time out | no live socket behind a stopped bus |
| Session and machine routes: `routes/sessionRoutes.ts`, `routes/machinesRoutes.ts` | sessions, machines | get-or-create, list | create races | one row per tag |
| Key-value store: `sources/app/kv/*`, `routes/kvRoutes.ts` | versioned keys | batch mutate, get, list | batches that collide and retry, notifications out of order | atomic batches; devices end up with what is stored |
| Social graph and feed: `sources/app/social/*`, `sources/app/feed/*` | relationships (two rows per pair), feed items and counter | add, remove, post, page back | two users acting on one another; items that move while they are read | the two rows of a pair agree; one notification in 24 hours; pages miss nothing |
| Authentication and pairing: `sources/app/auth/auth.ts`, `routes/authRoutes.ts` | pairing requests, token cache | request, respond, poll | two answers at once | a request is answered once |
| Integrations: `sources/app/github/*`, `routes/connectRoutes.ts` | link of an account to a service | connect, disconnect, webhook | external calls between steps | a link belongs to one account |
| Usage, push tokens: `socket/usageHandler.ts`, `routes/pushRoutes.ts` | one row per key | upsert, delete | nothing | single statements |
| Process lifecycle: `sources/main.ts`, `sources/utils/*` | shutdown handlers, lock, LRU | start, stop, run under lock | everything stops at the same time | what was accepted is written before the end |
| Storage and encryption: `sources/storage/*`, `sources/modules/encrypt.ts` | clients of databases | read, write, encrypt | external | - |
| Monitoring, HTTP plumbing: `sources/app/monitoring/*`, `sources/app/api/api.ts`, `api/utils/*` | counters | count, wire | nothing | - |

How they interact. A *handshake* (`socket.ts`) claims the lease and puts the socket in a
room named after the lease. Every session event of a runtime socket is checked against the
lease first, inside the statement that writes whenever there is one. *Messages* are stored
in one transaction together with their outbox row, which names the lease the notification
is meant for; the handler then wakes the dispatcher of its own pod. *RPC* operations of a
runtime socket take the session's advisory lock, the same that claims and ends wait for.
*Versioned updates*, *deletion*, *key-value batches* and *feed posts* draw numbers from the
account sequence and emit through the event router, the latter two in callbacks after their
transaction. The *event router* reaches the sockets of other processes through the Redis
adapter of Socket.IO; the *bus* reaches every process, each of which tells its own sockets.
The *sweep* shares the columns of the lease and of the activity cache.

The hazards each of these is exposed to, with the line where it bites and the properties
that would catch it, are listed in `PROJECT.json` under `hazards`.

## Modules and code

Every component module has its state as `VARIABLES`, one action per handler, callback or
await-to-await step, and its properties at the end. Names follow the source. Definitions
ending in `Mut` are deliberate defects of the definition after them (a dropped guard, a
missing reset, an off-by-one); for each property at least one of them is known to break it.

### RuntimeLease

One session, any number of incarnations (`Instance`) and sockets.

- `session` - lease columns, `active` and `lastActiveAt` of the `Session` row;
  `retirement` - status of each incarnation; `socket` - phase and `socket.data` of each
  socket; `inflight` - statements that have started; `lock` - the advisory lock while an
  owner operation holds it; `evicting` - displaced leases whose `disconnectSockets` is
  under way; `sweep` - the cutoff of a sweep between find and write; `now` - the clock of
  the database.
- A PostgreSQL statement is two steps. `Begin*` fixes `CURRENT_TIMESTAMP`, the view of the
  retirement table (`seen`) and whether the `Session` row qualified (`hit`). `Commit*`
  applies it: the row is tested again at its newest version, `ON CONFLICT` sees the newest
  retirement, but a `NOT EXISTS` over the retirement table keeps its old view. This is
  READ COMMITTED, and most of the properties are about the difference.
- `Connect`, `CommitClaim`, `CommitReplay` - the handshake (`socket.ts` with
  `claimRuntimeConnectionLease` and `claimRuntimeReplayLease`); `EvictDisplaced`,
  `DeliverEvict`, `LoseEvict` - its eviction of the displaced lease; `BeginRenew`,
  `BeginWrite`, `BeginEnd`, `LegacyEnd` - session-alive, the fenced writes, session-end;
  `Disconnect`, `BeginExpire` - the disconnect handler; `BeginOwnerOp`, `TryOwnerLock`,
  `FinishOwnerOp` - `runWithRuntimeConnectionOwnerLock`; `SweepFind`, `SweepWrite` - the
  session half of `timeout.ts`; `Silence` - a client or pod that vanishes; `Abort` - a
  statement that fails.

### NotificationOutbox

- `seq`, `outbox` - what `sessionMessageCreate` commits; `disp` - program counter, batch
  and flags (`running`, `pending`, `stopped`) of each pod's dispatcher; `owed` - commits
  whose handler has not called `wake` yet; `published`, `late` - what reached Redis, and
  what timed out and may still reach it.
- Each action runs from one `await` to the next: `Cleanup`, `Select`, `ClaimCas`,
  `ClaimRead`, `Publish`, `MarkDelivered`, `MarkFailed`, `Settle`, with `PublishFails`,
  `MarkDeliveredThrows` and `DrainFails` for the error paths. `Start`, `Poll`, `Stop`,
  `Exit` and `Crash` are the pod's. Clocks appear as what they decide: `LeaseRunsOut`,
  `RetryDue`. The number of the attempt stands for the random claim token, because every
  claim increments it.

### SessionMessages

- `row`, `account`, `messages` - the tables; `client`, `tx` - the connection and the
  running transaction of each producer; `reader` - cursor and messages received of each
  reading client; `acked` - acknowledgements sent; `other` - numbers taken by other updates;
  `now` - the clock of the database.
- `Begin` takes the snapshot of a serializable transaction; then exactly one of `Persist`,
  `ReturnDuplicate`, `Refuse`, or `Retry` when the `Session` row or the account sequence
  changed since the snapshot (`inTx` tries again with a new one), or `Fail` for every other
  error. `ReadPage` is a page of the cursor; the last page and the join of the live feed are
  where a gap could open.
- The lease is abstracted to a mode, a generation and the time until which it is in force.
  `Claim`, `Heartbeat` (which does not ask whether the lease still is) and `EndLease` write
  the row. `Tick` does not: a lease that runs out changes no row, so no transaction collides
  with it. Whether it is in force (`InForce`) is compared with `CURRENT_TIMESTAMP`, which
  PostgreSQL fixes when the transaction begins, before it waits for the advisory lock; the
  model takes that instant and the snapshot's as one. `InTime` is the limit of ten seconds
  that `inTx` sets, counted from the same instant.

### VersionedObject and VersionedWrite

`VersionedObject` is what a versioned object promises: a request takes effect in one step
between its submission and its answer, if and only if the versions it was based on are
current, and only a request that took effect may succeed. `VersionedWrite` is what the
handlers do: `Read` (with `NotFound`, `ReadMismatch`, `ReadExisting`), `WriteUpdate` or
`LoseUpdate`, `Refetch`, `Allocate`, `Emit`, `Succeed`, with `Throw` at any step. `Linearizable` states that
`VersionedWrite` implements `VersionedObject`, a request counting as applied from the
write on.

### RpcRegistry

- `redis` - the entry per method; `pipe` - commands written and not executed (one
  connection, hence a queue); `clock` - generations drawn; `owner`, `lock` - who the
  Session row names, and the advisory lock; `life` - per socket its queue `tail`, its map
  `held`, its cancelled methods and the step its running operation is at; `client` - what
  the client last asked for and was told; `call` - an rpc-call in progress; `uncertain` -
  registrations about which a command failed.
- Register, unregister, refresh and close run one at a time per socket
  (`OperationStep`), each through the owner fence, whose try-lock fails at once, and a
  Redis command. `CommandTimesOut` ends the wait and leaves the command in `pipe`. A call
  resolves, asks the target's room or its owner, and ends acknowledged or not.
- The model has the one process of the supported deployment; the lock of other processes
  does not appear.

### KvStore, SocialGraph and Accounts

`KvStore` and `SocialGraph` are what the services do to rows, as operators: `Mismatches`,
`Mutate` and `Changes` of a batch (`kvMutate.ts`), `FriendAdd`, `FriendRemove`,
`RelationshipSet`, `FeedPost`, `FeedGet`. What a mutation stores (`After`) and what is
announced of it (`News`) differ for the empty string, which is stored as NULL. `KvList` is cut
off after `ListLimit` keys in key order: the route has a limit (100 unless the client says
otherwise, at most 1000) and no cursor. `Accounts` runs them the way `inTx.ts` does.

- `db` - the rows; `request` - the attempt each request is at, with the snapshot it reads;
  `owed` - callbacks of committed transactions that have not finished; `device`, `reader` -
  a client that follows `kv-batch-update` and one that pages through the feed; `unheard` -
  history: the keys whose last change the device was not told of; `noticed` - history for
  the 24 hours.
- `Submit` takes a snapshot; `Commit` writes what the body computed on it unless rows the
  body read have changed; `LoseAnswer` does so too, but the connection is lost before the
  answer to COMMIT arrives, so `inTx` throws and no callback runs; `Retry` starts again with
  a new snapshot and no callbacks, three times; `Answer` and `Fail` end a request without an
  effect. `AllocateUserSeq` and `Emit`
  are the two steps of a callback, in any order among callbacks. `Crash` drops requests
  and callbacks.

### ActivityCache

One process's cache in front of the presence columns of machines and sessions.

- `row` - the columns; `entry` - validity, watermark, pending and in-flight update of each
  target; `validating` - heartbeats whose lookup is under way; `flush` - the loop with its
  `again` and failure flags and the writes of its turn; `phase` - up, stopping, down;
  `sweep` - machines found and not written; `heard` - history of the newest heartbeat.
- `Heartbeat` and `Validate` are `machine-alive` with `isMachineValid` and
  `queueMachineUpdate`; `BatchTimer`, `RunFlushLoop`, `PersistUpdate` (the database),
  `Persisted` (its answer) and `PersistFails` the flush; `Cleanup`, `Shutdown`;
  `SweepFind`, `SweepWrite` the machine half of the sweep; `DaemonState`, `Takeover`,
  `End`, `Delete` are others that write the rows.

### EventRouter and Delivery

`EventRouter` defines who receives what, twice: by room (`ConnectionRooms`,
`RecipientRooms`, `DurableRooms`), which is what a deployed process does, and by the walk
over the connections (`ShouldSendToConnection`, `ShouldSendDurable`) that the code keeps
for processes without Socket.IO. The second is the reference for the first. `Delivery` sends
events through several processes.

- `pod` - stage of each process; `conn` - state, process and lease of each socket; `lease` -
  who holds the session; `outbox` - committed notifications; `wire` - commands of the
  adapter and copies of notifications on their way to a process; `sent`, `got`, `dup`,
  `lost` - history.
- `Handshake` claims and evicts, `Join` enters the rooms, `Disconnect` leaves; `Emit` is
  `emitUpdate` and `emitEphemeral`; `Commit` captures the runtime a message is meant for,
  `Publish` puts it on the bus once or twice; `HandleMessage` and `HandleCommand` receive;
  `ShutdownPhase` is the next phase of `shutdownSocketRuntime`, `Crash` and `Lose` are the
  faults.

### MC modules

`MCRuntimeLease`, `MCNotificationOutbox`, `MCSessionMessages`, `MCVersionedWrite`,
`MCRpcRegistry`, `MCAccounts`, `MCActivityCache` and `MCDelivery` add symmetry sets, input
sets and scenarios for the configurations. Where two questions need different bounds, a run
explores the union of two corners instead of their product: `MCRuntimeLease` by a
constraint (many statements in an instant, or fewer while time passes), `MCSessionMessages`
and `MCRpcRegistry` by a variable `scenario` chosen at the start that instantiates the
component with smaller constants, the last three by a set of budgets or plans that `Init`
chooses from. No configuration replaces a definition of a component.

## Runs

Deadlock is checked for outbox and messages. Elsewhere the bounded clients run out of things
to do, or the process is shut down for good.

| Run | Question | Bounds, and why they suffice |
|---|---|---|
| `lease` | Do writes, replay claims, evictions and late disconnects of retired incarnations stay without effect? How long may a vanished runtime look connected; do readiness, admission, takeover and sweep agree? | two incarnations; three sockets (a displaced, a current, a late one) and three statements in flight with the clock stopped: every order of their begins and commits; or two sockets with and without IDs, lease of one tick, sweep after two, skew of one, two ticks: expiry, its boundary and the sweep all happen |
| `lease_handshake` | Is every handshake answered, and does nothing change under an owner operation? | two sockets, owner operations and ends competing for the lock, under fairness |
| `lease_retired` | Can a retired incarnation become live? | expected violation, see below |
| `outbox_order` | Is nothing marked that was not published, is the order kept, is a claim changed by its holder only? | two pods, two messages, batch of two, one fault of any kind, deletion, cleanup, stop: a second pod, a stolen claim and a late publish all occur |
| `outbox_liveness` | Is every notification published in the end? | two pods, two messages, one fault, under fairness |
| `messages` | One row per local ID, truthful answers, update numbers in commit order, no unauthorized output? Which message can a reader miss, in paging or when it joins the live feed? | two clients and messages, with two IDs and ciphertexts, one other update and one retry per transaction; or one client of every kind with a lease of one tick, a time limit of two and a clock to three, so that a lease runs out before, during and after the wait, and is renewed late; or a reader and a writer, two generations and pages of one message, so that every page boundary can race a commit |
| `write_objects` | Do the handlers make objects atomic, with one history, and do mismatch answers help? | every kind of object, two clients, four requests, one re-creation |
| `write_artifact_http` | May an update over HTTP overwrite a newer one? | expected violation, see below |
| `rpc` | Does the last event decide, is every entry looked after, is a call delivered at most once, do registrations only advance and the registry converge? | two runtimes succeeding each other, one method, three events, limit of one registration; or a runtime and a user socket called by a third, two methods (to exceed the limit), one failure of any kind |
| `accounts` | Do colliding transactions leave what a serial order would; do pairs of users agree; do late notifications mislead a device; does paging the feed miss an item? | two requests at a time, one retry each; two keys, three values (one empty), four batches (one names a key twice), a listing cut off after one key, three requests, unanswered commits and a crash; or two users, four friend requests with a day between them, and two pages of one item |
| `presence` | Is a heartbeat ever lost or written too late, does shutdown leave one behind, does a silent machine end inactive? | a machine and a session, alone and sharing a flush, up to three heartbeats, two other changes, one failure; threshold and validity of one tick, sweep after two, skew of one, clock to six: entries expire, flushes overlap and lag, the sweep races both |
| `delivery` | Who hears what, how often, and who is disconnected? | three sockets on two processes in eight plans: a runtime that moves to another process, within one, or away and back; a replay; another account; a daemon and a legacy runtime; a message published late or twice; a loss, a crash, a shutdown |

Three sockets suffice in `delivery` because a property relates at most two of them (who won
and who was displaced, who hears and who sent) and the third watches. Two overlapping
requests suffice in `accounts`: a collision is between two, and a third could only
collide with one that has committed already.

The properties, in the words of the code:

- **RuntimeLease.** `WriteFence`: a heartbeat, write or expiry about to take effect
  belongs to an incarnation not retired now. `ReplayLeaseNotFinal`: whoever replays holds
  the lease of an incarnation that is still replaying. `EvictionsAreStale`: an eviction
  never names the current lease. `LateDisconnectHarmless`: a lease becomes a tombstone only
  through its own socket or its incarnation's end. `StalePositiveBounded`: a vanished
  runtime is shown connected for less than a lease duration.
  `ReadinessMatchesAdmission`: if readers are told nobody is connected, a fresh
  incarnation is admitted. `NoPrematureTakeover`: no handshake takes the session from a
  runtime that readers see connected. `SweepSparesConnected`. `OwnerLockFence`: lease and
  retirements do not change under an owner operation. `HandshakeResolves`.
- **NotificationOutbox.** `DeliveredWasPublished`, `PublishedInOrder`, `ClaimHeld`,
  `EventuallyPublished`.
- **SessionMessages.** `StoredOnce` (and acknowledged truthfully), `UpdateSeqOrders`,
  `OutputFenced`: a runtime's message is committed only while the row names its generation,
  and less than the time limit of a transaction after its lease ran out.
  `CursorMeetsFeed`: the cursor is lossless (`CursorLossless`), and a message committed
  after a runtime has caught up is announced to its generation while it holds the lease, or
  its transaction began after the lease had run out (`FeedFollowsCursor`). That exception is
  a gap of the code, see the observations.
- **VersionedWrite.** `Linearizable` (refinement), `OneHistory`: no two clients are ever
  told different values for one version; `MismatchIsNews`: a mismatch answer that reports
  versions differs from what the client assumed (machines, artifacts, account, access keys).
- **RpcRegistry.** `RegistrationsAdvance`, `EntryIsLookedAfter`, `LastEventWins`,
  `AtMostOnce`, `Converges`.
- **Accounts.** `OneAfterTheOther`: a commit leaves the store as the request alone would
  have left it. `PairsAgree`: the two rows of a pair of users fit each other.
  `CooldownHolds`: nobody is told twice about the same user in 24 hours.
  `Reconciles`: nothing is announced that did not commit (`AnnouncedHappened`), and when no
  callback is outstanding, a device that keeps the highest version shows what is stored, but
  for the keys in `unheard`: those its first listing left out because they were deleted or
  came after the limit, until their next change, and those whose last commit went
  unanswered.
  `FeedPagesComplete`.
- **ActivityCache.** `HeartbeatKept`: the newest heartbeat is, up to the threshold, in the
  row, queued or under way, and shutdown leaves none behind (`ShutdownFlushes`);
  `HeartbeatWritten`: in the end it is in the row. `LateFlushHarmless`: a flush neither moves
  a session's activity back nor revives an incarnation that has ended (of the exported class:
  only tests queue heartbeats of sessions). `SilentGoesInactive`.
- **Delivery.** `AtMostOnce`, `NobodyElse` and `EverybodyHears` compare what sockets receive
  with the walk over the connections; `WinnerStays`: a delayed eviction never hits the
  current holder; `NoSocketBehindStoppedBus`.

Every module has a type invariant `TypeOK`. That of `RuntimeLease` is proved, as is that a
session with a tombstone is not shown connected (`TombstoneNotConnected`). The others are
the first conjunct of an invariant that the runs check and the theorems prove:
`DeliveredWasPublished`, `StoredOnce`, `OneHistory`, `HeartbeatKept`,
`NoSocketBehindStoppedBus`, `EntryIsLookedAfter` and `PairsAgree`.

## Fairness

Only liveness runs use fairness, and only of what the code or its platform guarantees.

- *Lease.* Strong fairness of the claims in flight: PostgreSQL queues waiters for an
  advisory lock first come first served, and an owner operation does not wait but tries.
  Weak fairness of the end of an owner operation: its transaction has a time limit.
- *Outbox.* Weak fairness of every step of a dispatcher (the event loop), of the wake a
  handler owes, of restarting a pod that is down (the orchestrator), of the poll timer,
  and of time for claim leases and retries. Nothing is assumed of faults except that there
  are at most `MaxFaults`.
- *RPC.* Weak fairness of queued operations, of the refresh interval, of Redis executing
  what was written and expiring what nobody refreshes, and of calls, which end after
  30 seconds at the latest.
- *Presence.* Weak fairness of the clock, the flush timer and the sweep (both run for as
  long as the process does), of the database answering a lookup or a write, and of the
  event loop that continues after an answer. Nothing makes heartbeats, failures or the
  shutdown happen.
- *Delivery.* Weak fairness, for each process, of handling what has been sent to it: Redis
  delivers in the end what it does not drop, and a loss is recorded.

## Proofs

Eight modules hold proofs about the component they extend. The bounds of the runs (numbers of
sockets, pods, clients, requests, events, faults, the clock) are constants there too, but
arbitrary ones.

| Module | Theorems about run properties | Others |
|---|---|---|
| `RuntimeLeaseProofs` | `WriteFenceHolds`, `ReplayLeaseHolds`, `EvictionsHold`, `StalePositiveHolds`, `ReadinessHolds`, `NoPrematureTakeoverHolds`, `LateDisconnectHolds`, `SweepHolds`, `OwnerLockHolds` | `TypeCorrect`, `TombstoneHolds` |
| `NotificationOutboxProofs` | `DeliveredHolds`, `OrderHolds`, `ClaimHeldHolds` | |
| `SessionMessagesProofs` | `StoredOnceHolds`, `CursorMeetsFeedHolds`, `UpdateSeqHolds`, `OutputFencedHolds` | |
| `VersionedWriteProofs` | `OneHistoryHolds`, `MismatchHolds`, `Refinement` | `NoOverwriteHolds` |
| `DeliveryProofs` | `AtMostOnceHolds`, `NobodyElseHolds`, `NoSocketBehindHolds`, `WinnerStaysHolds` | `RoomsReachTheWalk`, `WalkIsInTheRooms`, `DurableRoomsAreTheWalk` |
| `ActivityCacheProofs` | `HeartbeatKeptHolds`, `LateFlushHolds` | |
| `RpcRegistryProofs` | `RegistrationsAdvanceHolds`, `LookedAfterHolds`, `LastEventHolds`, `AtMostOnceHolds` | |
| `AccountsProofs` | `OneAfterTheOtherHolds`, `PairsAgreeHolds`, `CooldownAlwaysHolds`, `ReconcilesHolds`, `FeedPagesCompleteHolds` | |

In each, `Invariance` is `Spec => []IInv` for an inductive invariant `IInv`: a lemma for
`Init`, one lemma per action or group of actions, and one that combines them. The state
invariants follow from it; the action properties follow from it and a case distinction over
`Next`. TLC checked every `IInv` on small instances before it was proved.

### RuntimeLease

**Why `WriteFence` needs strengthening.** A renewing statement may have read the
retirements before its incarnation was retired. It is harmless only because every
retirement also replaces the lease ID in the `Session` row, which the statement tests
again at its newest version. So the invariant has to say: a statement in flight whose
socket is the *current* holder has seen the retirement of its incarnation, if there is one. That is `SeenFence`,
and it is inductive only together with the facts that lease IDs are fresh and that the row
is well formed:

    IInv == TypeOK /\ Freshness /\ SeenFence /\ RowShape /\ PastTimes
            /\ ExpiryOfClosed /\ ReplayLeaseNotFinal /\ EvictionsAreStale

- `Freshness` - a socket whose claim has not finished is named neither by the row, nor by
  an eviction, nor by a statement other than its own claim: random lease IDs never repeat;
- `RowShape` - lease ID and expiry are set together, a held lease is the active
  incarnation's and expires one lease duration after the last activity, and an active
  session's tombstone has expired;
- `PastTimes` - statements and the sweep carry times of the past, those of a vanished
  socket from before it vanished (for `StalePositiveBounded` and `SweepSparesConnected`);
- `ExpiryOfClosed` - a lease is expired only after its socket closed (for
  `LateDisconnectHarmless`).

The proof of a step has one case per action; lemmas handle the claims, which touch every
conjunct.

### NotificationOutbox

Order and truth both hang on what pods have in memory while the rows move on: a pod may lose
its claim, be overtaken and still publish. The invariant therefore speaks of everything that
may still reach Redis.

    IInv == DeliveredWasPublished /\ Numbered /\ Fresh /\ Working /\ LateInOrder
            /\ OneHolder /\ PublishedInOrder

- `Working`, `LateInOrder` - whatever a dispatcher selected or claimed, and whatever a
  timed-out `PUBLISH` may still execute, has only published or deleted messages before it in
  its session, so it may be published at any time; and what is about to be marked was published;
- `Numbered`, `Fresh` - rows exist for the messages committed so far, and a row nobody
  committed was never claimed: a commit cannot slip in before something selected;
- `OneHolder` - a token (the number of the attempt) is drawn once, so that no two pods hold
  the same claim. `ClaimHeld` needs it.

### SessionMessages

    IInv == TypeOK /\ Numbers /\ Stored /\ Idempotent /\ UpdateSeqOrders /\ Generations
            /\ Cursors /\ CursorLossless /\ FeedFollowsCursor

A serializable transaction decides on its snapshot and commits only if the rows it read are
unchanged. `Numbers` (the account sequence counts messages and other updates, nothing else)
and `Stored` (nothing is numbered beyond the sequences) make "the sequences are unchanged"
mean "no message was added": a snapshot that is still current sees every local ID.
`Generations` ties the connections to the claims (for the fence and for the live feed),
`Cursors` keeps a reader behind the session. The fence is the row: a snapshot that is still
current has the row's generation. The clock is bounded separately, by the transaction's own
start: the lease was in force then, and the commit is within the time limit. The lemma `PageClosed` says that a page of
`ReadPage` has no hole, whatever its size.

### VersionedWrite

All theorems have the hypothesis `"artifactHttp" \notin Handler`: that handler is the one
the run `write_artifact_http` catches. Under it, `NoOverwriteHolds` proves the very property
that run violates, so the fault lies with that handler alone.

    IInv == TypeOK /\ "artifactHttp" \notin handlers /\ Requests /\ History /\ Numbered
            /\ LostForGood /\ Counted /\ MismatchIsNews

- `History` - over everything clients know, may be answered or will be told (`Known`), a
  version of a part in one incarnation of the object has one value, and the row has the
  newest;
- `Requests` - a request is based on cells its client was told of;
- `LostForGood` - a request whose compare-and-set missed cannot match again, which makes the
  later re-read news (`MismatchIsNews`); `Counted` and `Numbered` keep versions and update
  numbers within the type invariant's bounds and unique.

`Refinement` is `Spec => Linearizable`: the initial states map to those of
`VersionedObject`, and every step to a submission, an effect, an answer or a stutter. Its
one delicate step is the write, where the compare-and-set on the row implies that all
versions the request is based on are current.

### EventRouter and Delivery

Three theorems without state compare `getRecipientRooms` and `getDurableRooms` with the
walk over the connections: the rooms reach nobody the walk would not choose; they reach all
of them but replay transports and, for session events, runtimes with a lease (the gap
described below); for durable messages the two agree.

    IInv == IsPlan(plan) /\ TypeOK /\ Placed /\ Fresh /\ Sent /\ OnItsWay
            /\ NobodyElse /\ AtMostOnce

`Fresh` and `Sent` give each event and publication an identity that is used once.
`OnItsWay` says of the network what the properties say of the sockets: what travels was
sent, is on its way to a process at most once and has not reached a socket there, and an
eviction names a lease that lost the session for good, which is `WinnerStays`. `Placed`
keeps live sockets on processes that are up, from which `NoSocketBehindStoppedBus` follows
through the order of the shutdown phases.

### ActivityCache

    IInv == TypeOK /\ Carried /\ UnderWay /\ Stopping /\ ShutdownFlushes /\ Followed

- `UnderWay` - an entry is marked in flight exactly while the flush is writing it, and a row
  that a write missed is gone for good;
- `Stopping` - while shutdown waits, another turn of the flush is to come, or the last one
  has taken everything;
- `Followed` - while a machine's heartbeats are in order, what the entry believes written is
  in the row, what it has queued or in flight is not behind the row, and the queued update is
  more than the threshold ahead of the one in flight. The last is why `Written` never drops
  a queued heartbeat as redundant and why `requeueFailedUpdate` loses nothing;
- `Carried` - nothing remembered is of the future, and a machine's updates name no
  incarnation (for `LateFlushHarmless`).

The first attempt failed for a good reason. The proviso of `HeartbeatKept`, that heartbeats
come in order, compared a heartbeat with what the cache knows to be written. A direct write
of the row (`machine-update-state`) can be ahead of that: a heartbeat behind it is queued,
the next lookup raises the watermark, a newer heartbeat is then within the threshold and is
suppressed, and the older one is written. With larger constants TLC shows it (validity of
three ticks, skew of two, three heartbeats and one direct write). The proviso now compares
with the row; see also the observation on direct writes below.

### RpcRegistry

    IInv == Types /\ Sockets /\ Gens /\ Commands /\ Entries /\ Calls

- `Sockets` - each socket by itself: a method whose last event is rpc-unregister is not held
  and will not be, or its unregister is queued behind every register of it (`Obeys`); the
  close is the last operation (`Closes`); the running operation has in hand what its step
  says, and a register that passed the limit still fits (`Works`). `LastEventWins` and the
  limit follow;
- `Gens` - generations come from the clock, and a SET in the pipe carries a later one than
  the entry it will meet and than every command written before it. Commands written *after*
  it may be older, which is why the refresh script has to compare generations;
- `Commands` - a socket waits for every live command in the pipe, which is the one its running
  operation wrote; the registrations of the others are in doubt;
- `Entries` - an entry that no failure and no takeover has put in doubt is held by its
  socket or is in its running operation's hand, and a result that has arrived confirms it;
- `Calls` - only a call that was sent has been delivered, and only one that is over has an
  outcome.

The argument goes through two layers. A lemma per action says what it does to the one socket
it belongs to, and puts it in one of three classes: a quiet step (`Quiet`), a step that
writes a command (`Started`), a command that is given up (`Fades`). A lemma per class, and one
for each of `Execute`, `Connect`, `Crash` and the loss of an entry, then carries the rest of
the invariant over.

The proof showed that `Executed` was not well defined: it was a `CASE` whose guards
overlapped (a method the command does not carry, and the kind of command), which TLC
evaluates in order and TLA+ leaves open. It is now a condition and a `CASE` of disjoint kinds.

### Accounts

A transaction computes on its snapshot and writes into rows that have moved on. Everything
rests on `CommitRuns`: if neither the rows it read nor the `Account` rows it increments have
changed, merging what it wrote into the rows *as they are* gives what the body, run on them
alone, would give. The feed is not among the rows compared. That its snapshot is still good
follows from the invariant:

    IInv == Types /\ Snapshots /\ Feeds /\ Versions /\ Pairs /\ Cooldown
            /\ Announced /\ Follows /\ Pages

- `Snapshots` - a snapshot is of the past, and while the counter of a feed is the one it
  shows, so is the feed: every post increments the counter;
- `Pairs`, `Cooldown` - the statuses agree, and only a row that says `recent` has been
  counted as notified. `MyStatus`, `TheirStatus` and `Told` say what a request makes of a
  pair, as one function of the two rows; `AddEffect` and `RemoveEffect` show that the bodies
  compute it;
- `Versions`, `Announced`, `Follows` - a batch that is owed names one version per key, and
  its last change of a key shows an entry the store has or had; for every key outside
  `unheard` that a device does not show as it is, a notification is owed that brings it.
  That is enough for any order of emission, because a version is written once: an entry of
  the current version shows the current row. `Versions` also says that no row holds the
  empty string, without which a listed row need not show itself;
- `Feeds`, `Pages` - feeds are finite, no item is newer than the counter, and what lies
  between the reader's cursor and the top of its first page has been seen. `NewestAll` is
  about `feedGet`'s extra item: if no more than a page is found when one more is asked for,
  everything was found.

Minima, maxima and the last mutation of a key come from the well-foundedness of the strict
subset order on finite sets, so no induction is needed.

### Assumptions

- `RuntimeLease`: `TimeAssumption` - durations are naturals, the lease lasts, and the sweep
  age is at least the lease duration plus the clock skew (ten minutes against four in
  the code); `InputAssumption` and `ValueAssumption` - inputs have the shape the handshake
  accepts, and `Null`, the tombstone and the synthetic incarnation are none of the others.
- `OutboxAssumption`, `MessagesAssumption`, `WriteAssumption`: batch and page sizes, the
  lease and the time limit are positive, bounds are naturals, sets of inputs have the shape the code validates.
- `DeliveryAssumption`: the plans assign to sockets what a handshake can establish.
- `CacheAssumption`: machines and sessions have different IDs, `None` is neither an ID nor a
  record, durations are naturals.
- `RegistryAssumption`: runtimes are sockets and make no calls (the handler disconnects one
  that tries), there is a method, the limit of registrations is positive (the constructor
  of `RpcRegistrationLifecycle` throws otherwise), `None` is no socket.

- `AccountsAssumption`, `KvAssumption`, `PageAssumption`: the account followed exists,
  batches are sequences of keys and values, `Null` is no value and the empty string is one,
  keys are ordered, a listing and a page have room for an item, bounds are naturals.

TLC evaluates each of them in the runs of its module. The only hypothesis that is not an
assumption of a module is the one on `Handler` above.

### Only model-checked

`HandshakeResolves`, `EventuallyPublished`, `Converges`, `HeartbeatWritten`,
`SilentGoesInactive` and `EverybodyHears`: liveness under fairness is out of the prover's
reach, like `ENABLED`. Every other property of a passing run has a theorem. All models
avoid `RECURSIVE` operators, which the SMT translation cannot handle; what a recursive
definition computes for every input could not be proved here.

## Disagreements found

1. **A retired incarnation can become live** (`lease_retired`). The live claim tests the
   retirement table with `NOT EXISTS` (`runtimeConnectionLease.ts:236`). The snapshot of
   that test is taken before the statement waits for the advisory lock. If the session end
   it waits for commits meanwhile, the claim does not see the retirement and its
   incarnation gets a live lease. `docs/protocol.md:99-101`: "a normally retired
   incarnation cannot become live again". The write fence holds all the same: the retired
   incarnation's later statements see the retirement.
2. **An artifact update over HTTP can be lost** (`write_artifact_http`).
   `POST /v1/artifacts/:id` compares versions with a read and then updates by ID only
   (`artifactsRoutes.ts:333`). `docs/protocol.md:24`: "This prevents silent overwrites".
   The socket handler compares in the write and is atomic (`write_objects`).

## Observations

Read off the code while modelling; they have no run of their own.

- `runWithRuntimeConnectionOwnerLock` reads ownership in the statement that tries the lock
  (`runtimeConnectionLease.ts:509`), so the ownership may be as old as the statement's
  snapshot, although the comment above (490-491) reads as if the lock came first.
- A user client that loses a race on a session field is answered from its first read
  (`sessionUpdateHandler.ts:135`, `:233`), so the mismatch answer can carry the version the
  client already had; `docs/protocol.md:308` promises the current one. `MismatchIsNews`
  therefore leaves sessions out.
- Updates are numbered after the write they announce, so two writes of one object can be
  numbered in the opposite order (`docs/protocol.md:23` calls the number monotonic).
- The artifact's own `seq` is computed from an earlier read (`artifactUpdateHandler.ts:157`)
  and can stand still when header and body change at the same time
  (`docs/backend-architecture.md:236`).
- Deleting an artifact and creating it again with the same client-chosen ID starts its
  versions over. An update of a client that knew the old incarnation can match.
- `update-metadata` of a missing session gets no answer at all.
- A runtime with a lease joins the room of its lease and not the room of its session
  (`getConnectionRooms`), so events for `all-interested-in-session` do not reach it. The walk
  over the connections would send them, and its comment says "Send to session-scoped with
  matching session + all user-scoped" (`eventRouter.ts:384`). `EverybodyHears` leaves out
  exactly these sockets (`ByRoom`).
- A displaced socket whose claim was made and that has not joined its rooms yet misses the
  eviction and stays connected; the fence on its packets holds all the same.
- The disconnect of a daemon's old socket announces the machine as offline although its new
  socket is connected.
- The machine half of the sweep writes by ID only (`timeout.ts:54-58`): a heartbeat between
  find and write is undone. The session half repeats its condition. Heartbeats never set
  `active` of a machine again; only `machine-update-state` does.
- A heartbeat that lies behind the last one by more than the threshold is written
  (`Math.abs` in `sessionCache.ts:217`, no comparison in the `UPDATE`), so a machine's last
  activity can move back. Likewise an older heartbeat under way overwrites the time that
  `machine-update-state` wrote past the cache. Sessions compare in the `UPDATE`.
- If a write fails while a newer heartbeat is queued, the failed one is dropped, which is
  right; if the queued one is older, the newer is lost (`requeueFailedUpdate`).
- Nothing in production queues heartbeats of sessions any more
  (`queueSessionUpdate` has no callers), and no caller passes `skipSenderConnection`.
- The activity publisher remembers per process what it published last, so a session that
  ended on another process and comes back here may be announced up to 30 seconds late.
- The callbacks of `afterTx` are async, so the catch with the comment "Ignore errors in
  callbacks because they are used mostly for notifications" (`inTx.ts:28`) sees none of
  their rejections: they end the process as unhandled (`Crash` of `Accounts`).
- A batch that names an existing key twice passes the version check twice; two values are
  announced for one version, and the last one stays. A batch that creates a key twice fails.
- A device that lists the store does not learn the versions of deleted keys, so an update
  that was announced late can show it a key that is gone. It does not learn of keys after the
  limit at all (`kvList.ts:44`, `kvRoutes.ts:55`; there is no cursor). `Reconciles` leaves
  both out until their next change.
- If the connection is lost after COMMIT and before its answer, `inTx` throws although the
  rows have changed, and the callbacks of `inTx.ts:25-31` never run: devices that stay
  connected are not told, and the client's repeated request is answered with a version
  mismatch. `Reconciles` leaves these keys out, too.
- `kvMutate.ts` stores NULL for an empty string (`:82`, `:109`) and announces the empty
  string (`:94`, `:121`), so a key that devices show as empty is deleted for a listing.
- `eventRouter.ts:208` says of a `kv-batch-update` that its version is "-1 for deleted keys".
  The code announces the incremented version with the value null, and the device of the
  model relies on that: with -1 it would keep the deleted value.
- The lease of a message transaction is judged at its start (`sessionMessageCreate.ts:93`,
  `:105`, `:126`) and running out changes no row. So a runtime's message may be committed up
  to ten seconds after its lease ran out. And a message whose transaction begins after that
  is announced to no runtime (`:249-251`); because `renewRuntimeConnectionLease` does not ask
  whether the lease has run out, a late heartbeat then revives it, and a runtime that had
  caught up goes on without having heard of that message until its next replay. TLC reaches
  both in the run `messages`; `OutputFenced` and `CursorMeetsFeed` say no more than this.
- A feed item with a repeat key is deleted and created anew under a new counter, so it moves
  to the top of the feed.
- The two answers of a pairing request are a check and a write (`authRoutes.ts:159`): of two
  at the same time the later one stays.
- A Redis command whose client timed out is still executed (`storage/redis.ts:8-10`),
  possibly after the owner lock was released. Generations keep this harmless
  (`RegistrationsAdvance`).
- A refresh that finds its socket is no longer the owner drops the local registration and leaves the Redis
  entry to its time to live; a call within that time is answered "RPC method not available".

## What is not modelled

Token and payload cryptography, file storage, the calls of GitHub and other vendors,
metrics and logs, and the wiring of Fastify and Socket.IO: libraries, pure I/O or stateless
code. Read-only listings apart from the message cursor, the key-value listing and the feed.
Usage reports, push tokens, usernames and pairing requests: single rows, written by one
statement, that nothing else is related to. The creation of access keys (`accessKeysRoutes.ts`): a check and an
insert behind a unique index, announced to nobody; `VersionedWrite` starts with the key and
models its updates. The get-or-create routes of sessions and
machines: a unique index decides their race, and the loser's client repeats the request. The
coalescing of activity events (`sessionActivityPublisher.ts`): a filter of ephemeral events.
The concurrent shutdown handlers of `utils/shutdown.ts` and the sweep that spins during
them: `docs/known-limitations.md` describes both.

Within the modelled parts, these are abstracted: message contents are model values; random IDs
are fresh names; clocks are small naturals or the decisions they lead to; PostgreSQL and
Redis behave as their documentation says for the isolation levels and scripts used.
More than one server process appears in the lease and outbox models, whose state is shared
through the database, and in the delivery model, which is about them, and not in the RPC
model. The activity cache is one process's: the caches of two processes meet only in the
rows, which others may write at any time in the model.

## Plan

The components that carry the coordination are modelled, and the safety properties of all
eight component models are proved. What is left is breadth: the components listed above as
not modelled, and the liveness properties, which stay with TLC.
