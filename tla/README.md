# Formal models of the WhatsApp CRM and its OpenWA gateway

TLA+ models, TLC checks and TLAPS proofs of the concurrent core of this
repository. Paths are relative to the repository root; `session/` stands for
`openwa/src/modules/session/`.

Contents: [system](#the-system) · [modules](#modules-and-how-they-correspond-to-the-code) ·
[runs](#what-each-run-checks) · [bounds](#bounds) · [fairness](#fairness) ·
[disagreements](#where-the-code-disagrees-with-its-own-text) ·
[proofs](#what-is-proved) · [not modelled](#what-is-not-modelled) · [plan](#plan)

## The system

Three programs. The **OpenWA gateway** (`openwa/`, NestJS) runs one WhatsApp
engine (a headless browser or a Baileys socket) per session, exposes a REST API,
and posts what happens as signed webhooks. The **CRM backend** (`backend/`,
Express over Postgres) receives those webhooks, keeps messages and contacts, and
sends texts through the gateway. The **mobile app** (`mobile/`) polls the
backend. JavaScript runs to completion, so everything hard is between two
awaits: what another handler, a timer or an engine callback did meanwhile.

### Inventory

| Component | State it keeps | Operations | Talks to | What is hard | What makes it correct |
|---|---|---|---|---|---|
| **Session engine lifecycle** (`session/session-engine-controls.ts`, `session-engine-lifecycle.service.ts`, `session-lifecycle-fences.ts`, `session-engine-event-wiring.ts`, `reconnect-policy.ts`, `openwa/src/engine/engine-registry.service.ts`) | registry of engines, start reservations, stop marks, reconnect states and timers, pending INITIALIZING writes, pending credential removals, the session row | create, start, stop, logout, force-kill, delete; disconnect handling and reconnect loop; engine callbacks | engines (callbacks), database, disk, plugin hooks, webhooks | five verbs, a timer and late callbacks race on one session; teardowns and removals take seconds; writes are unordered | no engine escapes; a stopped or deleted session stays so; the row tells the truth; no credentials outlive their row; the cap holds; verbs return |
| **Concurrency limiter** (`openwa/src/common/utils/concurrency-limiter.ts`) | active count, waiters, closed flag | run, close | webhook dispatch, media download, ffmpeg | the slot handed to a waiter that runs a microtask later | never over-admits, never idles a slot, serves in order |
| **Webhook delivery** (`openwa/src/modules/webhook/webhook.service.ts`, `utils/record-delivery-failure.ts`) | deliveries in flight, bookkeeping, dead-letter rows | dispatch, preflight, enqueue or post, retry, record, drain | limiter, Redis, receivers, database | a lost reply of Redis, retries, failing bookkeeping, shutdown in the middle | nothing lost in silence, nothing delivered called lost, posts bounded, everything ends |
| **Webhook queue worker** (`openwa/src/modules/queue/processors/webhook.processor.ts`) | BullMQ jobs | process, on-failed | Redis, receivers, database | stalled jobs, crashes between a row and a move | one row per failure, none missing |
| **CRM inbox** (`backend/src/routes/webhook.js`, `conversations.js`, `contacts.js`, `db/schema.sql`) | messages, contacts | webhook receiver, send route, contact routes | Postgres, gateway | at-least-once posts in any order, handled concurrently with no transaction | one row per event, 2xx only for what is stored, ticks do not go back from read |
| **Session ownership** (`session/session-ownership.service.ts`, `openwa/src/modules/takeover/session-takeover.service.ts`) | lease columns of the row, set of owned ids, heartbeat timer | claim, renew, release, release all, sweep, boot scan | database, lifecycle | a lease lapses while its owner waits for its own query; an answer speaks of a moment that is over | no two nodes run a session; a live claim is ended by its holder alone; an orphan is adopted |
| **Bulk batches** (`openwa/src/modules/message/bulk-message.service.ts`) | batch rows, cancellation flags, in-flight count | create, drain, cancel, reap at boot and at a takeover | engine, pacing, hooks, database, ownership | loop, cancel and reaper write one row from what each has read | the cap's count is exact, counters add up, a cancel is kept, every batch ends |
| **Integration ingress** (`openwa/src/modules/integration/ingress*.ts`, `redrive.service.ts`, `openwa/src/modules/queue/processors/ingress.processor.ts`) | event rows, jobs, dead letters | accept, dispatch, mark, sweep, redrive | plugins, Redis, database | crash between persist and dispatch, replay of a live dispatch | nothing recorded is lost, replays are bounded, nothing stays pending |
| **Message rows** (`openwa/src/modules/message/message.service.ts`, `message-projector.service.ts`, `session/message-mutation-projector.ts`, `pending-message-reaper.service.ts`, `keyed-mutation-queue.ts`) | message rows under a unique index, promise chain per message | send, echo, inbound, acknowledge, edit, react, revoke, reap | engine, database, hooks, webhooks | request, echo, reports and edits of one message write its row in any order, with no lock and perhaps before its id is known | one row per message, its status honest and its media kept; reports only climb; edits in order; an inbound message told once; no row stays PENDING |
| **Send pacing, body budget** | counters | | | counters over a clock | candidates for later |
| Plugins, hooks, adapters, events gateway, auth, import/export, search and the CRUD modules, dashboard, SDK, mobile app, backend login | | | | little concurrency of their own | not planned |

How they meet: the lifecycle sends status writes and dispatches
`session.status` webhooks; engine callbacks become webhooks; each delivery runs
through the limiter, then directly or through the queue worker; the CRM inbox is
one receiver of those posts and a client of the gateway's send route. The models
follow the same seams: `WebhookDelivery` extends `ConcurrencyLimiter` (shared
state); `CrmInbox` takes from the gateway only what it promises a receiver:
a post at any time, in any order, and again; `SessionOwnership` keeps of the
lifecycle whether a node has an engine, `MessageRows` only that an engine may be
replaced under its callbacks, and `BulkBatches` keeps of the ownership
whose claim the session's row carries, if any, and whether it has lapsed.

## Modules and how they correspond to the code

| Module | Models | Kind |
|---|---|---|
| `SessionLifecycle` | the session lifecycle of one node | component |
| `MCSessionLifecycle` | sessions, names, engines and handlers for TLC | instance |
| `SessionLifecycleProofs` | types, start reservation, engines in reach, the catch of a start, the cap, the fence before a launch, the status of a session nobody runs, reconnects of clients that wait, credentials and rows | proofs |
| `SlotPool` | what a limiter promises: slots, a line, a door | abstract specification |
| `ConcurrencyLimiter` | the limiter | component, refines `SlotPool` |
| `ConcurrencyLimiterProofs` | bounds, work conservation, the refinement | proofs |
| `WebhookDelivery` | dispatch, direct delivery, queue worker, shutdown, crashes; the limiter is part of it | composition |
| `MCWebhookDelivery` | deliveries for TLC | instance |
| `WebhookDeliveryProofs` | the limiter's results carried over to the composition; types, losses, rows and posts | proofs |
| `CrmInbox` | webhook receiver, send route, contact routes | component |
| `MCCrmInbox` | messages and requests for TLC | instance |
| `CrmInboxProofs` | rows, acknowledgements, ticks, contacts | proofs |
| `SessionOwnership` | the lease of one session among nodes with clocks, slow queries and crashes | component |
| `MCSessionOwnership` | nodes and requests for TLC | instance |
| `SessionOwnershipProofs` | types, live claims, one engine | proofs |
| `BulkBatches` | the batches of one session on nodes that share a database | component |
| `MCBulkBatches` | requests in order and few mishaps for TLC | instance |
| `BulkBatchesProofs` | types, the count in flight, the counters, cancels, boots | proofs |
| `IngressPipeline` | door, queue, worker, sweep and redrive of inbound deliveries | component |
| `MCIngressPipeline` | deliveries, instances and dead letters for TLC | instance |
| `IngressPipelineProofs` | types, attempts, stalls, the bound on replays, nothing recorded is lost | proofs |
| `MessageRows` | the rows of one message and everyone who writes them | component, its own instance |
| `MessageRowsProofs` | types, placement, one row, ticks, edits and reactions, dispatch | proofs |

### SessionLifecycle

An action is the code between two awaits of a handler. A handler in flight is a
member of `Procs`: `pc` says which await it is in, `op` the verb, `sid` the
session, `eng` the engine object it captured.

| State | Code |
|---|---|
| `engines`, `initializing` | `EngineRegistry` |
| `stopping` | `stoppingSessions`, set by `SessionService` before the first await of stop and delete |
| `reconnect` | `reconnectStates`: attempts, and whether a timer is armed |
| `pendingInit` | `pendingInitialStatuses`, the tracked INITIALIZING write |
| `wiping` | removals of credential directories in flight, whether the lifecycle was told (`pendingTeardowns`), and the handlers waiting for each |
| `lost` | `handleEngineDisconnected` calls waiting for their row |
| `writes` | status updates sent and not landed |
| `row`, `auth` | the sessions table, the credential directories |
| `estate` | what each engine object is: created, alive, down, dying, gone |
| `leaked` | names under which a browser or socket outlived its bounded teardown; no variable of the code keeps it |

`Request` and `StartRow` … `StartHook` are `start()`, with `InitializeEngine`,
`InitWritten`, `InitRuns` and the deadline branch (`InitKilled`,
`InitKillWritten`) for `initializeEngine`, and `CatchKilled`/`CatchWritten` for
its catch. `PostRow`, `RetireKilled`, `PurgeCheck`, `Purged` are the guard after
a successful initialization. `VerbRow` … `VerbWritten` are the other verbs, with
both fences of `delete()`. `TimerFires`, `ReconnectKilled`, `ReconnectFence` are
`executeReconnect()`. The engine's callbacks are `EngineReady`, `EngineState`,
`EngineLost`, `EngineError`, `EngineUnlinked`, `StuckAuth`; promises nobody
awaits settle in `HandleLost`, `Reap`, `WipeSettles`, `WriteSettles`. `Woken`
gives a handler whose promise has settled the turn before the event loop takes
up anything new: that is how microtasks run, and it matters, because a verb that
waits for an INITIALIZING write runs in the same turn as the write's own handler.

A bounded teardown may throw or hit its deadline (`TeardownsFail`, `Outlives`):
"the underlying Chromium/socket may still be alive"
(`session/session-lifecycle-fences.ts:50-52`). Every verb evicts the engine all the
same (`session-engine-controls.ts:246-247`, `:276-277`, `:340-341`, `:404-405`; `:609-613`
says so of `stopOrphanEngines`, which is in `SessionOwnership`), so `gone` means evicted, and a process that
lives on is recorded under its name in `leaked`: it is in nobody's hands, by the code's own
account, and writes its profile until its teardown settles late or the next launch under
its name sweeps it (`LeftBehind`). Its unlink may still be reported. That
sweep is whatsapp-web.js's; a Baileys socket has only the late end. For a background kill
(`Reap`) the session is not kept, so the name is any.

### ConcurrencyLimiter, SlotPool and WebhookDelivery

A task is one call of `run()`. The waiter that is handed a slot is `resumed`
until its continuation runs; other calls may come in between. `SlotPool` has no
counter and no gap: a slot that is given up goes to the head of the line in one
step. The refinement mapping serves the tasks that are resumed or running.

In `WebhookDelivery` a task is one delivery, one webhook and one event.
`Dispatch` and `Begin` are `dispatchWithLimit`, `Preflight` the plugin hook, size
cap and poison checks, `Enqueue` the job with its fallback, `Answered`, `Touch`,
`Retry` and `File` the loop of `deliverWebhook`. The worker is `Process`,
`JobAnswered`, `JobFiles`, `OnFailed`/`StallRecorded`; BullMQ (external) moves,
retries and stalls jobs in `JobMoves` and `Stalled`. `ShutDown` and `Exit` are
the two halves of `onModuleDestroy`; `Crash` kills a process that runs the
worker, at any point.

### CrmInbox

Each handler is a few queries with nothing around them, so a step is a query.
`IsDuplicate`, `SelectMessage`, `InsertMessage`, `SelectContact`,
`InsertContact` and `HandleAck` are the webhook handler; `QueryFails` fails any
of them before or after it took effect. `SendText`, `SendAnswered`, `InsertSent`
are the send route, `FindContact`, `CreateContact`, `DeleteContact` the
operator's. `Happened` and `Post` are the gateway: whatever happened may be
posted by any free request, in any order, again and again. The rows of a message
are two cells, one per route, because only the webhook's rows carry the unique
`idempotency_key`.

### SessionOwnership

A handler sends a query, the database executes it, its answer comes back: three
steps, because what matters is the moment the query speaks of. `sent[o]` holds the
age of o's query (claims and renewals carry a timestamp built when they were
sent), the queries of its node that are ahead of it on the `PoolSize`
connections, and its answer. Time is counted in ticks; a lease is the number of
ticks it has left, so that no clock grows without bound.

| State | Code |
|---|---|
| `row` | `nodeId`, `leaseExpiresAt` and the status of the session's row |
| `owned`, `engine`, `marked` | `SessionOwnershipService.owned`, the engine registry, `stoppingSessions`, each as the set of nodes where the session is in it |
| `op`, `sent` | the handlers in flight and their queries |
| `phase`, `beat` | each process, and its heartbeat timer |

`Execute` is the WHERE and SET of each query, for `claim`, `release`, `renewOwned`
(an update, then a look at what is held), `releaseAll` and `isHeldByOtherNode`;
`Fail` breaks a connection before or after the execution. `Request`, `Claimed`,
`Register`, `Launched`, `Rejected` are `SessionService.start()` around the
lifecycle's start, with `releaseUnlessEngineActive` as `GiveUp`; `StopPasses`,
`StopWritten` are `stop()`. `Heartbeat`, `Renewed`, `Kept`, `Lost` and
`OrphanStopped` are `renew()` with the lost-lease handler, `BeginSweep` and
`SweepStarts` the takeover sweep, `Boot` and `Scan` the start of a process,
`Shutdown` and `Exit` its end, `Crash` the other end.

### BulkBatches

A step is a query as the database executes it with the code that runs on its
answer. `run[r]` is a `createBatch` request and the `processBatch` loop it
leaves behind: where it is (`at`), its own counters (`mine`), its message (`item`) and
whether the engine it looked up once is still alive (`live`). `flag` is
`processingBatches`, `inFlight` is `inFlightBatches`, `reap` the orphan reaper of a
node with the entities it has read, `cancel` a `cancelBatch` request between its
read and its write. `owner` and `lapsed` stand for the lease, and `owner` is `None` when
`nodeId` is NULL; `eligible` says whether the row has a phone and a status the sweep
adopts. `out`, `late` and `deserted` are history: messages the engine took, messages begun after a
cancel was answered, and batches whose process ended when the session had left it.

`Create`, `Insert` are `createBatch`; `Load`, `Mark`, `NoEngine`, `Gate`, `Send`, `Save`,
`Sleep`, `Reread`, `Final` are `processBatch` with its failure paths in
`AfterFailure` and `RunFails`; `CancelRead` and `CancelWrite` are `cancelBatch`;
`ReapFind`, `ReapSave` and `ReapEnd` are `reapProcessingBatches` and
`onApplicationBootstrap`, and `Claims` is `claimableWhere`, all three clauses. Of the session,
`StartEngine` and `Launch` are a start with its claim, `EngineGone` a stop, a loss or the
teardown of a node that lost its claim, `Release` the claim given back by a stop, a logout, a
failed start, a delete or a shutdown, `Lapse` a claim that is not renewed because its
node is dead or has no engine (or, with `Lapses`, is late), `Status` any write of the status or
the phone. `Sweep` lists a session another node's lapsed claim names, if it is eligible; `Adopt` is
the `start()` of the listed session, later, refused if the claim is no longer for the
taking; `Adopted` its outcome: the batches are reaped, or the start failed and nothing is. An
engine whose teardown ended sends no more; what a failed teardown leaves behind is in
`SessionLifecycle`. The guards of the writes are `MayStart`, `NotCancelled`,
`MayFinish` and `Cancellable`.

### IngressPipeline

`event` and `letter` are the two tables, `job` what BullMQ holds for a delivery id or
for `redrive:<row id>`; `live`, `sweep` and `redrive` are the three dispatchers
between two awaits. `Post` is the door up to the row; `LiveEnqueue` …
`LiveLetter` are `IngressEnqueueService.enqueue` with its inline fallback and the outcome
marks; `Take` … `JobFails` are the worker, `Unstall` BullMQ's recovery of a job whose
worker died; `SweepFind` … `SweepBump` are the reconciler, row by row;
`RedriveFind` … `RedriveClose` are the operator's replay. `Age` and `Cool` are the
grace period of a row and of its latest attempt. `delivered`, `replays` and `last`
are history.

### MessageRows

One message, one key of the mutation queue; messages share nothing else. Each
writer has a row of its own (`row[w]`: the request's, and one per announcement of the
engine), and `id` says whether `waMessageId` is set on it: `Known` is the lookup by
that id, which the unique index makes unambiguous.

| State | Code |
|---|---|
| `row` | the messages of this id, and the request's row that has none yet |
| `req`, `fire`, `tick`, `revoke` | the send, the echoes or inbound announcements, the delivery reports and the revocation in flight |
| `kind`, `queued`, `copy` | the edits and reactions in the order they came, those still in `KeyedMutationQueue`, the metadata a reaction has read |
| `sweep` | the reaper between its find and its update |
| `told` | dispatches to webhooks |

`Send`, `Accepted`, `Returned`, `Rejected`, `Save`, `Conflict`, `Merge`, `Drop` and
`SaveFailed` are the send with `persistSentState` and `failSend`; `Announced`,
`Stores`, `Stale` are `handleOwnSendEcho` and `handleInboundMessage`; `FirstTry`
and `SecondTry` are `handleMessageAck` with its second look; `Edit`,
`ReadReactions`, `WriteReactions` the queue's operations, `FlagRevoked` the revocation,
which is not behind the queue; `SweepFinds` and `SweepReaps` the reaper. Each query may
fail (`RequestFault`, `StoreFault` and the others, each with what the code then
does), an engine may be replaced (`Retired`) and the process may die (`Crash`).

## What each run checks

| Run | Question | States |
|---|---|---|
| `SessionVerbs` | All five verbs on one session, two handlers in flight, losses and unlinks at any time, teardowns that fail, no reconnect budget. No engine is out of reach of the registry and of every teardown before a teardown of its own was tried (`NoOrphanEngine`), no launch over a removal the lifecycle knows of (`LaunchBehindFence`). | 843 227 |
| `SessionRetire` | start, logout and force-kill racing on an engine that reports losses twice or too late. When all is quiet, a retired session does not read INITIALIZING (`StopIsFinal`) and no row claims an engine that is not there (`NoStaleStatus`). | 845 846 |
| `SessionReconnect` | An unlimited retry budget, removals that may never end and a client that sends any of the five verbs and waits for the answer. A lost engine is being dealt with at every moment (`NoStrandedEngine`) and eventually replaced, stopped or given up (`LostIsHandled`); a reconnect in flight does not bring back what was stopped or deleted (`NoResurrection`, `DeletedMeansGone`); every verb and attempt returns (`VerbsFinish`). | 99 506 |
| `SessionRecreate` | A name deleted and created again. No credentials without a row (`NoCredentialsWithoutRow`). | 1 451 523 |
| `SessionCap` | Two sessions under a cap of one, database calls that fail, stall or land out of order. The cap holds (`CapRespected`), and the catch of a start, reached when its INITIALIZING write fails, kills the engine that start created (`StartCatchOwnsEngine`). | 1 235 155 |
| `WebhookDelivery` | Three deliveries, one slot, one place in line, direct or queued, failing answers and database, a Redis that loses its reply, shutdown, two crashes. The gate implements the pool (`ImplementsPool`); nothing is lost in silence (`NoSilentLoss`), called lost though received (`NoFalseDeadLetter`), filed twice (`OneRowPerFailure`), posted too often (`PostsBounded`) or again after a 2xx (`NoRepostAfterAck`); every delivery ends (`DeliveriesSettle`). | 479 149 |
| `CrmInbox` | Two messages of a customer, one anonymous, and one text of the operator; two concurrent requests, one fault (query failure or crash). One row per event (`OneRowPerEvent`), 2xx only for what is stored (`AckedIsStored`), no contact skipped by the duplicate that answers first (`ContactBehindMessage`), 'read' is final (`ReadIsFinal`). | 826 832 |
| `SessionOwnership` | Two nodes, starts and stops, launches that fail, engines that give up, heartbeats, boots, sweeps, and one mishap (failed query, crash, shutdown). No two nodes that are up run an engine (`OneEngine`). | 1 233 961 |
| `OwnershipAdopts` | The same nodes with queries that take up to a tick and overtake each other on two connections. A live claim is ended by its holder alone (`LiveClaimRespected`); the session of a dead node is claimed by another (`OrphanAdopted`). | 94 192 |
| `BulkBatches` | One batch and two requests to send it under a cap of one, two nodes, a cancel from either, and any two mishaps among a failing query and the events: a process that ends, an engine that goes, a start by hand, a status write, a claim that is not renewed; releases, adoptions and boots besides. The cap's count is exact (`InFlightCounted`), progress adds up and overstates nothing (`CountersHonest`), a cancel stops the loop (`CancelStops`: at once on the node that answered, within a progress save elsewhere) and is kept but for a reaper that had read the batch (`CancelIsKept`). A boot fails no batch that a loop still has an engine to send (`BootSparesPeers`); a batch in PROCESSING that a process holds ends (`BatchEnds`), unless a query fails, or the session is left where no sweep adopts it: nobody's, in the hands of a live node without an engine, ineligible, or gone from the process before that died. | 503 028 |
| `IngressPipeline` | One delivery through door, queue or inline fallback, worker, sweep and redrive, with one failure, one crash and an instance switched off and on. What was recorded and not delivered can be found (`NoSilentLoss`), is replayed a bounded number of times (`ReplaysBounded`) and does not stay pending (`PendingEnds`). | 387 583 |
| `MessageRows` | One message sent by the API, from the phone or received, announced twice, with any two of delivery reports, edits, reactions and a revocation, one fault and one stop. It ends as one row with its id, its media and a status that says FAILED only where the engine did (`StoredOnce`); reports climb in any order (`TicksShown`); edits are written in order and no reaction is lost to another (`LatestWins`); an inbound message is dispatched once (`InboundTold`); a row does not stay PENDING (`PendingEnds`). | 853 205 |

No run lists `TypeOK`: it is proved for each module (`TypeCorrect`,
`LimiterInductive`, `DeliveryTyped`, `CrmTypeCorrect`, `OwnershipTyped`,
`BatchesTyped`, `IngressTyped`). The mutants named "Mutant:" in
the modules are plausible bugs of the code, one for each property, that the run
must find.

Several session properties hold only on the paths the listed runs take. That is
a fact about the code and not about the model: the runs are the largest sets of
verbs and engine behaviours for which each property holds, and
[below](#where-the-code-disagrees-with-its-own-text) is listed, configuration by
configuration, what breaks it outside of them.

## Bounds

- `MaxRequests`, `MaxWrites`, `MaxCrashes`, `MaxJobs`, `MaxFaults`, `MaxManual`,
  `MaxMishaps`, `MaxEvents`, `MaxOrders` and the sets `Clients`, `Runs`, `Cancels`, `Letters` bound counters that the code leaves open; each sits in the guard of the action
  that counts, and its name says so in the module.
- Session runs: two handlers in flight (`Procs`). Every disagreement found needs
  two, with a timer or an engine callback as the third party; three requests
  reach each pair of verbs after a start. Engine objects are recycled when
  nothing refers to them, so two or three stand for any number. `MaxWrites = 1`
  bounds only the writes engines cause while others are in flight; the handlers'
  own writes are not bounded.
- `SessionCap`: a cap of one and two sessions; a larger cap needs more sessions
  for the same overlap.
- `WebhookDelivery`: three deliveries and one slot give one running, one parked
  and one refused; `RetryCount = 2` separates the first, a middle and the final
  attempt of the direct path and of the job; two crashes exhaust BullMQ's one
  recovery. One job (`MaxJobs`) is enough because jobs share nothing. The
  constraint `DispatchedInOrder` has the deliveries, which are alike, dispatched in
  one order: every behaviour is a renaming of one it keeps, and unlike symmetry it
  is sound for `DeliveriesSettle`.
- `CrmInbox`: two requests are what two retries of one event need; one fault is
  any single failure of a query, of the gateway's answer or of the process.
- `SessionOwnership`: `TTL`, `Beat` and `Slow` keep the ratios that matter. The code
  refuses `Beat * 2 >= TTL`; one renewal that fails leaves `OneEngine` intact only while
  `TTL > 2 * Beat + 2 * Slow` (the answer is built and read up to `Slow` later), which
  the defaults (60 s, 20 s) satisfy for any query under 10 s. The run has
  queries that take no time (`TTL = 3`) and one mishap; `OneEngineHolds` covers slow
  queries and more mishaps, each with a longer lease.
- `BulkBatches`: three messages saved every two give a save at the first, one item without, and a
  save at the last: a cancel elsewhere that just misses the first save lets through as many as it
  may. Two requests for one batch id collide on the unique row; a cap of one
  is reached by the first. Two nodes: one that drives, one that adopts or cancels. `MaxEvents`
  counts processes that end, engines that go, starts by hand, status writes and missed renewals;
  releases, sweeps, adoptions and boots are not counted. The constraint `TwoMishaps` takes two of
  these or one and a failing query: a stop and a peer that reboots, a stop and then a crash, a crash and
  a status that is not adopted, an adoption whose node dies. `CreatedInOrder` has the requests,
  which are alike, come in one order; neither constraint cuts a fair step, so that both are sound for
  `BatchEnds`. `BatchHandover.cfg`, outside the runs, checks `BootSparesPeers` and `BatchEnds` with
  four events on one request (336 264 states, no error).
- `IngressPipeline`: deliveries meet only in the sweep's batch and in the operator's; the
  theorems cover any number of them. Two dead letters are what a job and the sweep can write for
  one delivery, a third is only written after a redrive.
- `MessageRows`: two announcements are the fewest that duplicate one; two pieces of news
  (`MaxNews`) are any pair that meets on a row, two mutations (`MaxMutations`) any pair
  in the queue; one fault and one stop are any single failure. The theorems have none of
  these bounds.

Teardowns fail in `SessionVerbs` only: in the other session runs they would cost more time than they
show, and `SessionRecreate` needs them to succeed. Every theorem about the sessions but
`CredentialsHaveRow` allows them to fail.

Symmetry is used only in runs without liveness properties, on engines, handlers,
nodes or requests, which nothing in the code orders.

## Fairness

- `SessionLifecycle!Fairness`: weak fairness of the steps of every handler, of
  the row read of a reported loss, of status writes, of background kills and of
  armed timers. Node runs settled promises and due timers; every wait in these
  handlers is raced against a deadline (`teardownEngineSafely`,
  `awaitPendingTeardown`, `awaitInitialStatus`, the init timeout). Clients,
  engine events and credential removals owe nothing: `VerbsFinish` holds even
  when a removal never ends.
- `WebhookDelivery!FairSpec`: weak fairness of the deliveries' and jobs' steps
  together. Fetches are bounded by WEBHOOK_TIMEOUT, back-offs by timers, and
  BullMQ redelivers; the database and Redis answer. The number of steps is
  bounded by retries and crashes, so fairness of the disjunction is enough.
  Dispatch, shutdown and crashes are not fair.
- `SessionOwnership!Fairness`: queries are executed and answered, launches end,
  heartbeat and sweep timers fire, a process told to exit does, and time passes. Time
  is strongly fair because a query at its age limit or a due heartbeat holds it up
  again and again. Requests, mishaps and boots owe nothing, so `OrphanAdopted` says that the
  survivor alone is enough.
- `BulkBatches!Fairness`: each loop's steps (queries, hooks, engine calls and delays end),
  each reaper's and adoption's, the sweep of each node that is up, and the lapse of the claim
  of a dead node. A dead node need not come back; stops, releases, starts by hand, status writes
  and the lapse of a living node's claim owe nothing. The sweep runs where `autoStartSessions` is on.
- `IngressPipeline!FairSpec`: the steps of the live dispatches together, of the jobs
  together, of the sweep, of the two clocks, and a process that ended is started
  again. Posts, orders, faults and crashes are not fair. Faults and crashes are
  bounded, so that fairness of each disjunction is enough.
- `MessageRows!FairSpec`: the reaper alone (its timer comes round, its queries end):
  `PendingEnds` holds though request, engine and process owe nothing.

## Where the code disagrees with its own text

Kept as configurations beside the runs. Each ends in the counterexample; what the
text says and the code does otherwise is in the last column.

| Configuration | Property | What happens |
|---|---|---|
| `StartDuringReconnect` | `NoOrphanEngine` | a reconnect attempt still waiting in `initialize()` evicts by id the engine a `start()` launched |
| `DeleteDuringStart` | `DeletedMeansGone` | a `start()` past its fence clears the stop mark of a `delete()` in flight, and runs an engine for a deleted row |
| `RejectedReconnect` | `RetryFollowsFailure` | `onError` drops the reconnect state before the catch that would schedule the next attempt |
| `StopDuringStart` | `StopIsFinal` | a stop that ends during the `session:starting` hook is overwritten by the start's INITIALIZING |
| `CatchDuringReconnect` | `StartCatchOwnsEngine` | the catch kills the engine of a reconnect attempt |
| `LeftoverStopMark` | `NoStrandedEngine` | the mark of a refused delete makes the next reconnect give up on a dead, registered engine |
| `CredentialResidue` | `NoCredentialsWithoutRow` | a start overtaken by a delete fails and does not purge |
| `CapDuringReconnect` | `CapRespected` | a session between two attempts is not counted, and its attempt does not ask |
| `StuckAuthRm` | `LaunchOverNoRm` | the stuck-auth reset removes credentials without announcing it |
| `PurgeAfterCommit` | `PurgeIsSafe` | delete's purge hits the directory of a session recreated under the name |
| `CrmDuplicate` | `NoDuplicateRow` | `message.sent` is stored before the send route inserts its own row, which has no key |
| `StopDuringSweep` | `StoppedNotAdopted` | the sweep starts a session from a list read before its owner stopped it |
| `ReleaseUnderStart` | `OneEngine` | a release that another handler of the node sent lands after the node has claimed again |
| `StaleLoss` | `OneEngine` | a stop releases the lease while a heartbeat looks it up; a new start claims again before the look-up's "not ours" is handled, which then makes the node forget the new claim: its engine runs on a lease nobody renews, and a peer takes it over |
| `BatchDuringTakeover` | `FailedIsTrue` | a batch created on the adopting node between its start and its reaper is reported FAILED and goes on being sent (`bulk-message.service.ts:121-130` and `session-takeover.service.ts:100-101` say this is what the scope of the reaper is for) |
| `BatchHandover` with `Manual = TRUE` | `BatchEnds` | an operator's start takes a lapsed session over, and no reaper follows ("surface them as FAILED now rather than leaving them stuck in PROCESSING until some node happens to reboot", `session-takeover.service.ts:100-101`) |
| `IngressStalls` | `NoSilentLoss` | a worker that dies twice in its last attempt leaves a failed job and no dead letter |
| `IngressSaveFails` | `NoSilentLoss` | the same when the worker's dead-letter write fails |
| `IngressStarves` | `PendingEnds` | rows of a disabled instance fill the batch the sweep reads |
| `IngressLate` | `FailedStands` | a live dispatch slower than the grace period marks a row the sweep has closed |
| `IngressAbsorbed` | `RetiredIsDelivered` | a process ends after the job was added and before the row is marked; the job fails all its attempts and writes its letter; the sweep replays the row under the same job id, `queue.add` answers and adds nothing (a failed job is kept for a day), the row is marked dispatched and the letter redriven, where `ingress-reconciler.service.ts:183` says "the replay just delivered it". `NoSilentLoss` excepts this by name (`Absorbed`) |
| `MergeDowngrades` | `MovesForward` | the echo has its row and a report has advanced it; the request's merge then writes SENT over DELIVERED |
| `SaveFailsReaped` | `AcceptedNotFailed` | the engine took the message and the save of its row fails; the row is still PENDING and the reaper reports it FAILED |

`BatchEnds` excepts what leaves a batch in PROCESSING until some node boots, against the same
comment: a stop or shutdown that releases the claim before its process ends (`nodeId` is then
NULL and `lapsedHeldByOthers` lists nothing), a status outside `TAKEOVER_STATUSES`, an adoption
whose `start()` fails. `BootSparesPeers` is stated for loops that still have an engine, because
without one the code's ground for it fails: `bulk-message.service.ts:128-130` says batch ownership
follows session ownership "because the two cannot diverge: only the engine holder can send", but a loop
that waits out a delay outlives a `stop()` on its node, which hands the claim back
(`session.service.ts:395`). A peer that boots then finds the session claimable (`nodeId IS NULL`) and
reports the batch FAILED while its process still drives it; what the engine took before
stays sent, every later message of that loop fails for want of its engine, and the loop's
final write, guarded only against CANCELLED, may yet say COMPLETED.

Also noted while reading: `openwa/docs/06-api-specification.md` says the delivery
id differs per retry, while the code keeps it for all attempts of a delivery;
and the shutdown comment (`webhook.service.ts:186-188`) says whatever is still
running is logged per delivery, while parked deliveries of queued mode and
unfinished failure rows are neither (`DrainAccountsForAll` states it).

## What is proved

TLAPS checks every theorem for all values of the constants; the constants'
assumptions (`ConstantsAssumption`, `LimiterAssumption`, `WebhookAssumption`,
`CrmAssumption`, `OwnershipAssumption`, `BulkAssumption`, `IngressAssumption`,
`MessageAssumption`) are evaluated by TLC in every run; they are about types only
(`ConstantsAssumption` of the sessions: `None` is no session, engine, handler, number or
reconnect state, and there are finitely many sessions). Where a theorem assumes more, the assumption is
named in its statement, is what the run of its property has, and the paragraph below says
what breaks without it. Every invariant below was checked with TLC first.

- **SessionLifecycleProofs**, for any number of sessions, names, engines and handlers.
  - `TypeCorrect` (`[]TypeOK`) and `ReservationHolds` (`[]StartReservation`). `TypeOK` is
    not inductive: a step reads the session and the engine its handler captured, so the
    invariant `IInv` adds `Handlers`: a handler in flight has a verb, a session, and an
    engine wherever its next step uses one. `StartReservation` needs in addition only that
    the reservation is taken by `Request` alone and dropped by `Finish` alone, whichever of
    the exits of `start()` it takes.
  - `EnginesReached` (`[]NoOrphanEngine`), `CatchKillsItsOwn`
    (`[][StartCatchOwnsEngine]`) and `CapHolds` (`[]CapRespected`), with no reconnect
    budget (`MaxAttempts = 0`, which `maxReconnectAttempts` may be set to), whatever
    the database does and whichever teardowns fail. The first says that no engine is let go before
    its teardown was tried; that a process may survive the attempt, the code accepts and the
    theorem does not deny (`leaked`). The invariant `Ownership`: no timer is armed (`NoTimers`), only starts
    create engines (`Roles`), an engine object belongs to one session in the registry and
    in every handler's hands (`Homes`), a start that has its engine finds that engine or none
    registered (`StartsOwn`), and what the engines hold is registered or in the hands of
    the start that is about to kill it (`Reached`). Steps are first summarised: `Moves` is all
    a step may do to a handler, `Evicts` all it may do to the registry unless it
    creates an engine. With a reconnect budget the three fail in
    `StartDuringReconnect`, `CatchDuringReconnect` and `CapDuringReconnect`.
  - `LaunchIsBehindFence` (`LaunchBehindFence`) under `Confined`: also no failing queries,
    no engine that reports once torn down, and names used once (a verb stops waiting for
    an INITIALIZING write that stalls, and removes the credentials under its start; two sessions
    of one name share a directory that the removals of both hit). `TrackInv` ties the
    tracked INITIALIZING write to the start that waits for it; `FenceInv` adds that from
    its fence to its launch a start waits for every tracked removal of its name, or there is
    none.
  - `StatusIsBacked` (`[]NoStaleStatus`) and `RetiredStaysRetired` (`[]StopIsFinal`) under
    `Retiring`: no reconnects, a database that answers in order, and no stop or delete among
    the verbs; a stop during a start leaves INITIALIZING behind (`StopDuringStart`), a delete
    leaves an engine of no row (`DeleteDuringStart`). Both properties speak of a moment when all writes
    have landed, so the invariant speaks of what a row will read then (`SaysIn`, `Heard`):
    a session about to read active has an engine or a handler that will write it
    (`Spoken`). It needs that a verb waits only for a write in flight (`WaitsForWrite`), where
    stop marks may be (`StartMarks`, `Marks`), and that rows stay (`Present`). A step is
    summarised by the writes it leaves in flight (`Left`) and by who still cares for its
    session (`Cares`).
  - `NoneStranded`, `NothingResurrected` and `DeletedStaysGone` (`[]NoStrandedEngine`,
    `[]NoResurrection`, `[]DeletedMeansGone`) under `Patient`, the hypotheses of the run
    `SessionReconnect`, with any budget of reconnects, any order of the database's answers and
    any names: a client sends one verb at a time, queries do not fail, no engine removes
    credentials on its own, or reports during `initialize()` or once torn down.
    `NoStrandedEngine` fails in TLC without any one of the four. An attempt still runs beside any
    verb, at every await of both; the proof is about what the two leave to each other. The
    invariant is `Orderly`:
    - *driving*: a session has one driver, the start or the attempt that creates its engine
      (`Alone`), which finds its own engine registered or none (`OwnsSlot`), while no timer is armed
      and no loss is about to arm one (`NoTimer`); an armed timer would be the second driver;
    - *retiring*: an engine of a session that is under a stop mark or without a row (`Doomed`) is in
      the hands of a handler that takes it out (`BeingRemoved`), a duty that a verb hands to
      the attempt that is still to create the engine;
    - *budget*: a registered engine has a reconnect state or is doomed (`Budgeted`), and one that is
      down has its loss or its timer pending, is being closed, or is doomed (`Tended`);
    - *removals*: a tracked one finds its session without a reconnect state and with no engine but
      the one being logged out (`RmAlone`), and whoever is at a fence waits for it (`RmAwaited`). So a
      delete is never refused after its first fence, which is what leaves a stop mark over a
      running engine in `LeftoverStopMark`.
  - `CredentialsHaveRow` (`[]NoCredentialsWithoutRow`) under `Serial`, `MaxAttempts = 0` and
    `~TeardownsFail` (a process that outlives the teardown of a delete writes the directory again
    after the purge), with names, removals, engines and database as they like. `Accounted`, on top of
    `Ownership`: one handler is at work, an engine and a start past its row read have a row
    (`EngineHasRow`, `StartHasRow`), a delete at its second fence has emptied the registry
    (`Emptied`), so that nobody writes the directory between the commit and the purge, and
    credentials belong to a row or are about to be purged (`Backed`). With one attempt TLC
    finds credentials left behind: a delete commits and purges while `executeReconnect()` is
    still closing the old engine; its new engine writes the directory again, and its
    `initialize()` rejects. The purge "so no credentials outlive the row"
    (`session-engine-lifecycle.service.ts:1033`) is on the path of a launch that succeeds; the
    catch has none. With verbs that overlap a start can do the same (`CredentialResidue`).
- **ConcurrencyLimiterProofs**: `LimiterBounds` (`[]SlotsBounded`),
  `LimiterWorkConserving` (`[]NoIdleSlot`), `LimiterImplementsPool` (the limiter
  implements `SlotPool`). The invariant `LimiterInv` ties the counter to the set of
  holders, and the line to the parked tasks, each once: without the latter the head of
  the line could be a task that already holds a slot, and a hand-over would lose
  one. The refinement maps a resumed task to a served one, so `Resume` is a
  stutter and `Settle` is one `Leave`.
- **WebhookDeliveryProofs**: `DeliveryUsesLimiter`: every behaviour of the delivery
  system is one of the limiter, hence `DeliveriesBounded` and `DeliveriesPooled`.
  Then, for any number of deliveries, attempts, jobs and crashes, each of its safety
  properties: `DeliveryTyped`, `NothingLost`, `DeadLettersTrue`, `RowsCounted`,
  `PostsCounted` and `AckEndsPosts` (`[]TypeOK`, `NoSilentLoss`, `NoFalseDeadLetter`,
  `OneRowPerFailure`, `PostsBounded`, `NoRepostAfterAck`). The invariant has four parts per
  delivery beside the types and the limiter's own. `Placed` ties a delivery's place to its task
  while the process is up, so that a delivery that holds no slot is nowhere in the
  loop. `NothingSent`: before the first attempt there is no post, job or row.
  `DirectHolds` and `JobHolds`: a post is a failed attempt, a stall or the one
  under way. `RowsHold`: a row is the direct path's, a stall's or the job's, and a
  delivery that is over has one, an acknowledgement or a log line.
- **CrmInboxProofs**: `CrmTypeCorrect`, `CrmOneRowPerEvent`, `CrmAckedIsStored`,
  `CrmReadIsFinal`, `CrmContactBehindMessage`. The invariant adds `SendRows` (the send
  route's cell is empty until its one insert), which is what makes one row per event
  inductive; the webhook's cell is guarded by the unique key whatever the two SELECTs
  saw. `AckedIsStored` is inductive with it because rows are never deleted and every
  path to a 2xx passes a row found or inserted. For contacts, `ContactOwed`: until a
  query fails or a contact is deleted, a stored message with a sender has its contact, or
  a request that is on the way to write it.
- **SessionOwnershipProofs**: `OwnershipTyped` and `LiveClaimsRespected`
  (`LiveClaimRespected`), for any nodes, lease, age of queries and pool. The second needs the
  types alone: it is a statement about the WHERE of each query, and holds whatever
  moment the query was sent at. `OneEngineHolds` (`[]OneEngine`) is proved under `Calm`:
  one connection per node (with two, `StaleLoss`), one verb at a time on a node (otherwise
  `ReleaseUnderStart`), and `TTL > (MaxMishaps + 1) * Beat + 2 * Slow` (a lease that
  outlasts the failed renewals and two queries at their slowest; the defaults do for one failed
  renewal and queries under 10 s). The invariant says of a node that is up: an
  engine, or a start past its reservation, has the lease, with at least as much of it left as
  the beats, the mishaps and the renewal under way account for (`Covered`, `Floor`); an
  answered claim is the row's (`ClaimStands`); a heartbeat's look-up misses only where nothing
  runs (`LossTrue`); no release is sent under an engine (`ReleaseIdle`). Below it,
  queries of a node are executed in the order they were sent (`InOrder`) and two verbs are not at
  work at once (`OneVerb`).
- **BulkBatchesProofs**: `BatchesTyped`, `InFlightExact` (`InFlightCounted`),
  `CountersHold` (`CountersHonest`), `CancelHolds` (`CancelIsKept`), `CancelReaches`
  (`[]CancelStops`) and `BootSpares` (`BootSparesPeers`). The invariant is
  `Typed`, `InFlightCounted` and `Honest`: the row of a batch, the counters of the loop
  that drives it, the copy a cancel has read and those a reaper has read each add up and
  never claim more than the engine took (`RowsHonest`, `RunsHonest`, `CancelsHonest`,
  `ReapsHonest`), because any of them may be the next to write the row; and no two
  loops drive one batch (`OneRun`), because one could write back counters of the other.
  Each step of a loop is first summarised (`Moves`): it touches one batch (`Touches`), and
  its loop goes on or leaves and gives its place back (`Becomes`), with counters that the
  row it leaves behind bears out (`Takes`).
  `StopInv` strengthens `CancelStops`: a node that has read a cancel, or answered it, has the
  flag of the batch off (`Told`), a flag that is off means no message was begun since
  (`Obeying`), and a loop that cannot see the flag is at most as many messages past the
  cancel as it has done since its last save (`Within`).
  `BootSpares` assumes, and says so, that no lease lapses under a live engine
  (`~Lapses`; the finding of `BatchDuringTakeover` is about what a takeover itself can do); stops,
  releases, lapses without an engine, adoptions that succeed or fail, starts by hand and crashes are
  in it. Its invariant `PeerInv`: only the node whose claim the row carries, unlapsed, has an engine
  (`SoleEngine`), a loop with a live engine is on a node that has one (`LiveRuns`), only a node
  that is up sweeps (`SweepsUp`), one that boots serves nothing
  yet, and no loop can send what it has read (`BootsApart`).
- **IngressPipelineProofs**: `IngressTyped` (`[]TypeOK`, whose bounds on a job's attempts
  and stalls need that a running job has one left) and `ReplaysAreBounded`
  (`[]ReplaysBounded`). For the second, `ReplayInv` keeps an account per delivery
  (`Paid`): the dispatches the sweep made are in the attempt count of the row, in the
  count the sweep read, or are the one it is at; what a failed query, an outage or a crash leaves
  uncounted, the fault itself pays for. `SweepShape` adds that the sweep is at
  one row at a time and bumps only a row with attempts left.
  `DeliveriesRecoverable` (`[]NoSilentLoss`) is proved under two assumptions its
  statement names: the worker's dead-letter write succeeds (`~SaveFails`) and
  the process ends no more often than a job may stall (`MaxCrashes <= MaxStalled`). Without
  either, the code loses a delivery (`IngressSaveFails`, `IngressStalls`). The invariant
  `LossInv` says what each record of the pipeline vouches for: a closed row is delivered, in the
  queue or dead-lettered (`ClosedIsHeld`), the latest letter of a
  delivery is retired only by a replay (`LastIsOpen`), a completed job has delivered and a failed
  one has its letter (`DoneIsDelivered`, `FailedIsLettered`), and each of the three
  dispatchers knows, between two awaits, what its next mark will claim
  (`LiveKnows`, `SweepKnows`, `RedriveKnows`).
- **MessageRowsProofs**, for any number of announcements, reports, edits, reactions,
  faults and stops: `StoredOnceAlways`, `TicksAreShown`, `LatestWinsAlways` and `ToldOnceEach`
  (`[]StoredOnce`, `[]TicksShown`, `[]LatestWins`, `[]InboundTold`), with `TypeCorrect` and
  `AlwaysPlaced`. `TypeOK` holds the unique index, which is inductive because every insert or
  save with the id is guarded by it. `Placed`: whose rows there are, by where their
  writers are, and nothing about the message precedes it. `Settled`: without a fault, what
  each writer has left behind when it is over. On these rest `Climbed` (the reports,
  while a row is sure to take each: a report that comes before the id is tried again),
  `Chained` and `Carried` (what is written came before what waits, and the metadata a
  reaction carries has every earlier reaction) and `MediaKept`, which includes the
  copies of the metadata in flight. Every step is one of four to the rows: it leaves them
  (`Same`), writes one without the id (`Aside`), gives the id to one (`New`), or
  writes the one that has it (`Held`).

`StartReservation`, `SlotsBounded`, `NoIdleSlot` and the `TypeOK` of each module are proved
and not listed in a run.

Every safety property of the runs is proved. Only model-checked are the liveness
properties (`LostIsHandled`, `VerbsFinish`, `DeliveriesSettle`, `OrphanAdopted`, `BatchEnds`
and the `PendingEnds` of two modules): fairness and ENABLED are out of the prover's reach.
Outside the hypotheses a theorem names, its property fails in the configuration or the
counterexample the paragraph above gives.

No module uses recursion, so no theorem stops at an induction over data.

## What is not modelled

- Session lifecycle: several nodes (they are in `SessionOwnership`, with the lifecycle
  reduced to whether a node has an engine), restart of
  sessions at boot, QR and pairing expiry, the stable-uptime reset of the
  attempt count (its effect, attempts back to 0, may happen at any schedule), the
  content of events, metrics and logs. The engines are external: they speak when
  they like within what `EngineState`, `EngineLost` and the others allow.
- Session ownership: logout, force-kill and delete, the suspension of
  loss detection during an import, the proxying of requests to the owner, clocks that
  disagree, and a database that refuses renewals for longer than a lease: the last
  two end in two engines by the design of a lease. `OneEngine` speaks of
  processes that are up: a start in flight at shutdown registers its engine after
  the teardown and dies with the process. A `stop()` during a start that
  then retires its engine leaves the claim in place, which the model shows and no
  property forbids. An engine that was torn down counts as gone, whatever came of its teardown.
- Bulk batches: validation, media caps, templates, personalisation and the length of
  delays. What the model shows and no property forbids: a batch whose process
  ended, or whose mark failed, before PROCESSING stays PENDING for ever; a query
  that fails in the loop leaves PROCESSING until the next boot; the engine is
  looked up once, so that after a reconnect the rest of a batch fails; a cancel sent
  to a node that does not drive the batch leaves a flag behind, and its copy of the progress may
  understate what was sent; a cancel may be answered 400 because the loop finalised
  first.
- Integration ingress: the checks before the row, signatures and acknowledgement bodies, the
  throttler, retention pruning of the three tables, the per-conversation order and lock of
  the handlers, the day after which BullMQ forgets a finished job, and several processes
  sweeping one table.
- Message rows: what tells the twelve senders apart, events without an id, bulk
  saves, database calls that take effect and report an error, several reapers, a reaper that is
  switched off or reads less than the backlog, history sync as another writer, removal of a reaction, disappearing messages, `@lid` addresses. What the model shows and no property
  forbids: an edit still in the queue may write a body back after a revocation, and the
  merge into an echo's row overwrites reactions that were there first.
- Webhooks: which events match which webhook, payloads, signatures, retention of
  jobs and rows, redrive, CRUD. A stalled job that BullMQ pruned before the failed handler runs
  (`webhook.processor.ts:253`) leaves no row. A hook never throws and has no effect but to
  cancel or poison.
- CRM inbox: one customer; malformed events and events without an id, which are
  answered without a query; `failed` ticks; the read mark and list routes; PUT on
  contacts (it can change a phone, which `Known` does not follow); the signature check
  in front of the handler.
- The components marked `not_modelled` in `PROJECT.json`, each with its reason.

The map covers a small share of the repository's lines, and cannot cover a large one
honestly: most of them are the dashboard, the engine adapters, SDK types, DTOs,
controllers and CRUD services, which are sequential code between one request and one
query. What shares state across awaits, processes or crashes is in the components above.

## Plan

Done first: the lifecycle of a session, because everything else hangs on it, and
it is where most of the concurrency of the gateway is. Then the limiter with its
abstract specification, webhook delivery composed with it, and the CRM inbox at
the other end of the wire.

Then `SessionOwnership`, `BulkBatches` and `IngressPipeline`, each with its runs, its
proofs and the configurations that show where the code disagrees with its text; the
liveness runs of the deliveries and of the sessions were merged with their safety
runs; and the safety properties of `WebhookDelivery` and `CrmInbox` were proved.

Then `MessageRows`, with its proofs; `OneEngine`; the session properties that hold without
reconnects; and those that hold with them, of clients that wait.

Left, in this order:

1. An abstract lock with a time-to-live that `SessionOwnership` implements while no
   handler of a node releases under a start of the same node.
2. The body budget (a reservation released exactly once) and send pacing (allowance
   and breaker over a clock).
