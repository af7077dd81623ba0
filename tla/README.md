# A TLA+ model of go-mink

go-mink is an event-sourcing library for Go: an event store over PostgreSQL (or
memory), subscriptions and projections behind it, sagas, an outbox, idempotent
commands, read models, and data-governance tools (encryption, erasure,
retention, export) on top. This directory models the parts whose correctness
depends on *interleaving*, *failure* and *restart*, checks them with TLC on small
instances, and proves their safety properties, and that the PostgreSQL store
implements an atomic log, with TLAPS for every value of the constants. What is
checked and not proved is listed at the end of section 5.

`PROJECT.json` is the machine-readable index: components, runs, the source
lines behind every definition (`map`), a mutant for every property, findings,
hazards and theorems.

1. [The system](#1-the-system) 2. [Modules and their
source](#2-modules-and-their-source) 3. [Runs, bounds and
fairness](#3-runs-bounds-and-fairness) 4. [Where the code and its documentation
disagree](#4-where-the-code-and-its-documentation-disagree) 5. [Proofs](#5-proofs)
6. [What the checks do not show](#6-what-the-checks-do-not-show) 7. [Not
modelled](#7-not-modelled) 8. [Plan](#8-plan)

## 1. The system

| component | state it keeps | operations | what makes it correct |
|---|---|---|---|
| PostgreSQL event adapter (`adapters/postgres/postgres.go`) | `streams` and `events` tables, `global_position` sequence | `Append` (a transaction of several statements), `AppendWithOutbox`, `Load` | (stream, version) unique, versions gap-free, streams grow at their end, an append is atomic and its expected version holds when it takes effect |
| position feed (`adapters/postgres/subscription.go`, `rewrite.go`) | a cursor per subscription | poll above the cursor and below the safe watermark, deliver, resubscribe; in-place rewrite of an event | no committed event is passed over; the cursor does not stall |
| in-memory adapter and subscriptions (`adapters/memory/memory.go`, `subscription.go`) | the log, subscriber channels, a position per subscription | subscribe, notify, page through history, poll, retry, close, cancel | what was delivered is exactly what the position says; only a full channel loses an event |
| command bus, handlers, event-store facade, outbox-aware store (`bus.go`, `middleware.go`, `handler.go`, `store.go`, `aggregate.go`, `outbox.go`, `audit.go`, `versioning.go`) | an aggregate per call, the upcaster chain and type registry per process, the stored events, messages and audit entries | dispatch through recovery, audit, timeout and retry; load, decide, save; schedule messages; register upcasters; close the bus | the decision rests on the whole stream, messages match events, answer and audit trail are true, every event can be decoded |
| idempotency middleware (`idempotency.go`, stores) | one record per command key | look up, reserve, run, store, release, expire, clean up | one handler at a time, one effect per key, "in progress" is a true answer |
| outbox and publishers (`outbox_processor.go`, stores, `outbox/*`) | messages with status, attempts, last attempt | claim, publish, mark, reclaim, retry, dead-letter, clean up | one processor per message, completed means sent, every message settles |
| saga manager (`saga_manager.go`, saga stores) | saga row (status, version, step, keys of processed events), per-manager key cache and mutex map, loop position | event loop, `ProcessEvent`/`StartSaga`, `RetrySaga`, `ResumeStalled`, timeout sweep, compensation, Start/Stop | one goroutine drives a saga, redelivery repeats nothing, a stalled saga settles, a restart loses nothing |
| projection engine and rebuilder (`projection_engine.go`, `rebuilder.go`) | read model, checkpoint, worker position/state/paused flag, processing mutex, stop channel; channel of a live worker | worker loop under a supervisor, retry/poison/skip, restart policy, Pause/Resume/Restart/Rebuild, Start/Stop; inline and live notification | nothing below the resume position is missing, a self-healing worker catches up, Stop returns; live events are delivered or accounted for, and who drops one in silence is known |
| read-model repositories (`repository.go`, `adapters/postgres/readmodel.go`) | a map or a table, its columns | insert, update, upsert, delete, migrate, filter, order, page | no update is lost, both repositories answer alike, pages partition the answer |
| keys, field encryption (`encryption*`, `keylifecycle.go`) | the state of every master key; sealed fields of an event | seal, unseal, revoke, soft-revoke, restore, re-encrypt | fields round-trip, revoked means unreadable |
| erasure, retention, verification, subject index, export (`eraser.go`, `retention.go`, `verify.go`, `subject*.go`, `export.go`) | events with tags and envelopes, index, sibling stores, certificate, checkpoint | resolve, guard, revoke, propagate, certify, purge; sweep; export | a verified certificate is true, other people's keys are spared, re-runs converge, checkpoints and exports are honest |
| metrics, tracing, binary serializers, CLI (except `projection rebuild`), examples | | | not modelled, section 7 |

How they interact: commands go through the bus into an aggregate and through the
event store into `Append`; everything downstream (subscriptions, projections,
sagas) reads the position feed, keeps a position of its own, and relies on two
promises: the feed never passes over a committed event, and redelivery after a
restart is safe. The outbox rides in the append transaction and is drained by
competing processors. The idempotency middleware wraps command dispatch, also of
the commands that sagas send. Erasure, retention and export read the same events
while writers go on, and act through the keys. Whoever drives a saga, a message
or a key is decided by a store operation (version check, claim,
`StoreIfAbsent`), never by process-local state alone.

The hard behaviours are therefore: statements of two transactions in any order
and positions that become visible out of order; mutexes that are thrown away
while somebody waits for them; unconditional deletes and marks that arrive
late; crashes between an effect and the record of it; a rebuild, a pause or a
stop racing the worker; answers that are lost; events appended between the
resolution of a subject and the revocation of its keys. `PROJECT.json` lists
them under `hazards`, each at its line with the properties that would notice it
going wrong.

## 2. Modules and their source

Payloads, metadata, logging and metrics are left out throughout: no property
looks at them.

### The log

**`ExpectedVersion`** is `adapters.CheckVersion` (`adapters/common.go`).

**`EventLog`** is the contract of `Append`, the abstract specification: streams
as sequences, an append applied atomically against a log that passes the version
check, or failed without effect.

**`PostgresStore`** is `appendInTx` statement by statement plus the polling
subscription. `pc[c]` is the next statement of client `c`; `Begin`, `SelectRow`
(`SELECT … FOR UPDATE`, which locks only a row that exists), `InsertStream` and
`StreamInserted` (waiting for a rival's uncommitted row, then a unique violation
or success), `InsertEvent` (one sequence value and one row per event), `Commit`
(version update, `COMMIT`), and the ways to roll back. Rows of open transactions
are in `rows` and invisible until the commit. `Poll`, `Deliver` and
`Resubscribe` are `LoadFromPosition` with `safePositionClause` and the loop
around it; `Rewrite` is `RewriteEventData`, whose UPDATE gives the row a new
xmin. PostgreSQL is external: read-committed visibility, row locks, the unique
index, xids assigned at the first write (`XidAtLock`: already by the row lock),
a sequence that never rolls back.

**`PostgresRefinement`** maps the committed rows to `EventLog!log` and the
arguments of the running calls to `EventLog!call`.

### Reading the log

**`Subscriptions`** is one subscription of a kind chosen at the start:
`CatchupSubscription` (pages of history, then polling with bounded retries),
`PollingSubscription` (every error retried), or the native channel of the
in-memory adapter behind `filterEvents` and a bridge. Channels are bounded
sequences; every channel operation, `setPosition` and adapter call is a step, next
to appends, load errors, `Close`, cancellation and a closing adapter. A catch-up
with `MaxRetries = 0` retries for ever. `EventStore.SubscribeStream` hands the
adapter no `OnError` (`toAdapterSubscriptionOptions`), so what a full channel drops
is reported to nobody; `dropped` is kept by the model alone.

**`AsyncProjection`** is one asynchronous projection: `w` is the supervising
goroutine with the fields of `asyncProjectionWorker`, `rebuild` a call of `Rebuild`,
`mu` the holder of `processingMu`, `gen` the number of the engine's current stop
channel (a goroutine keeps the channel it was started with). A run ends for good on
its stop channels, `Unregister`'s included, on the context of `Start`, and also on
a checkpoint read that fails with a context error and on a batch error that wraps
`context.Canceled` (`exitStopped`), which the supervisor does not restart. One action per step that others can observe: tick, lock, load,
each `Apply`, the checkpoint read and write, the classification of an error,
backoff, poison handling, the supervisor's decision; clear, delete checkpoint,
replay, save of a rebuild. `RebuildCommand` is `mink projection rebuild`, which
resets the stored checkpoint from another process.

**`LiveProjections`** has several goroutines that append a batch, call
`ProcessInlineProjections` and then `NotifyLiveProjections`, the runs of a live
worker behind their channel, and `Pause`, `Resume`, `Unregister`, `Start`, `Stop`
beside them. A drop is recorded by what is logged of it: `lost` are the positions
a log line names or counts (a worker that is not running, an event that cannot be
decrypted, the event at hand when the call's context ends), `silent` the others
(the rest of that batch, the workers after this one, an unregistered projection).
A `Stop` that runs into its deadline leaves a run behind, and the next `Start` puts
a second one beside it.

**`SagaManager`** follows one saga instance. A thread is a manager's loop (with
the sweep it runs), a caller of `ProcessEvent`/`StartSaga`, or an operator that
calls `RetrySaga`/`ResumeStalled`; `th[t]` is its stack frame. A drive is
look up → lock → load → dispatch the commands one by one → (compensate) → save →
evict, one action each, so that every other thread, a cancellation or a crash
fits in between. The mutex map has its real behaviour: a mutex is created on
demand, and a terminal save removes it from the map while others may hold a
reference. `row.done` and `cache` are the persisted and cached keys of processed
events; `Save` is the store's `UPDATE … WHERE version`. A failing saga keeps the
captured trigger event or a locator of it, which `RetrySaga` reloads. An event
that cannot be decrypted, whose saga cannot be looked up or whose load fails under
the lock is passed over. The loop's position, its stop, restart
and crash are `position`, `next` and `loop`.

**`ReadModel`** is both repositories. In PostgreSQL every call is one or two
statements outside any transaction, `Migrate` is a sequence of statements, and two
instances of the same or of two releases do this at once on one table. Whether a
column may be NULL comes from its tag alone: a NULL in a nullable scalar is scanned
as zero, in a pointer as nil, and anywhere else it makes the row unreadable
(`NullColumnError`). The pure part (`compileFilters`, `matchCompiled`,
`buildWhereClause`, `orderModels`, pages) is written as operators on rows with
NULLs.

### Writing the log

**`CommandSide`** is the path of a command on several processes (deployed
versions of the program): closed-bus test, recovery, audit, timeout, retry, then
load, execute, save; in the store, schema stamp, type registry, and, in a setup
that routes saves through `EventStoreWithOutbox`, the atomic append with outbox
messages or the two-step fallback. A load replays the stream event by event and
looks at the type registry twice for each, as `deserializeWithUpcast` and
`isUnresolvedReplayType` do:
`raced` holds the events whose type was registered between the two looks, which are
applied as a map nobody handles. Only `EventStore` itself registers types on
append. `stream` is what is durable, `outbox` the messages, `trail` the audit entries, `doubt` the commands whose
outcome was unclear to their caller. **`SchemaVersions`** is the pure part of
upcasting: an event has a *form* (the version its data is really in) and a
*stamp* (the version its metadata names).

**`Idempotency`** follows one command key through `IdempotencyMiddleware`: `Get`,
stale delete, `StoreIfAbsent`, handler, `Store`, release are separate steps, each
of which can fail if it is a store call. Records have ids, so that a delete that
hits somebody else's record can be told apart. `Expire` is the clock; `Cleanup`
deletes by age whatever the record is, one that is still valid included. A failing
`StoreIfAbsent` may have written the record all the same. An unsuccessful result
without an error releases the key under `StoreErrors` too. `FailClosed` and
`StoreErrors` are chosen in `Init`.

**`Outbox`** has the processing and the maintenance loop of every processor.
Claiming increments attempts; a batch is published group by group (by
destination prefix, a group without a publisher is marked failed), each group
is marked after it was published; reclaim, retry and dead-lettering follow one
another in a maintenance round. Time enters as `stale`: the messages whose last
attempt is older than the processing timeout. **`Publishers`** says which message
of a group the webhook, Kafka and SNS publishers send and which they refuse.

### Personal data

**`Keys`** is the state of a master key under the local, Vault and KMS providers
and one that cannot revoke. **`FieldSeal`** is the sealing and unsealing of one
event's configured paths; a document is a function from paths to nodes.
**`PersonalData`** is the shared state: events with subject tags and envelopes,
keys, subject index, rows of the sibling stores; a row is a store and the id it is
kept under: a stream id, a subject, an actor, or the raw aggregate id that audit
entries, idempotency records and most correlation ids carry, which the purge and the
count reach only with `WithDerivedAggregateIDs`. Stores may be without a purger, a
counter, or a purger that knows footprints. Its actions are the appends
(with the separate, best-effort index write), re-encryption in place or as a
copy, and an administrator who soft-revokes and restores keys. **`Erasure`** is
`DataEraser.Erase` call by call with `Verify`, **`SubjectExport`** is
`DataExporter` stream by stream and, within an event, filter, revocation check and
decryption as steps of their own (a failing `IsRevoked` counts as not revoked; a
decryption error goes to the handler, which may swallow it), **`Retention`** is a
sweep of `RetentionManager`, whose hooks fail one by one, and
**`Governance`** composes the four on one store.

## 3. Runs, bounds and fairness

| run | instance | checks |
|---|---|---|
| `postgres_store` | a new and an existing stream, two clients, two appends of up to two events with any expected version and a resubscription, or one append beside a rewrite | `TypeOK` `VersionsUnique` `StreamsGapFree` `SkipOnlyByInversion` `ImplementsEventLog` `AppendsTerminate` `CursorCatchesUp` |
| `saga_manager` | one manager with two redelivering callers; two managers on one store; one manager with an operator; each with a failing step, lookup, load or save, a stop or a crash; two events of two commands, the first of them encrypted | `OneDriverUnlessRetried` `NothingRepeated` `EveryCallReturns` `StalledSagaSettles` |
| `idempotency` | two clients, three dispatches, every configuration, a failing handler, a store fault, a crash, records that expire or are cleaned up at any moment | `OneHandler` `EffectOnce` `InProgressIsTrue` |
| `outbox` | two processors, two messages that are sent, refused or unroutable, two mishaps (a failing publish or store call, a crash) | `ClaimedOnce` `CompletedWasSent` `EveryMessageSettles` |
| `projection` | two events, three troubles of any kind (a context error among them) and one operator call or one trouble and two calls, self-healing or classifying options | `NothingLost` `SelfHealing` `CatchesUp` `StopReturns` |
| `live_projections` | two notifiers, three events, two inline projections, a channel of one, two runs of the worker, three operator calls or failures | `EveryEventAccounted` `StopDrains` |
| `subscriptions` | each kind of subscription, a log of up to four events of two streams, channels of one, pages of two, two faults, two retries or retrying without limit | `ExactlyUpToPosition` `NativeLosesOnlyDrops` `EventuallyDelivered` |
| `command_side` | two commands of one and two events on an older and a newer process, two attempts, two faults; three setups (a plain store with lenient replay, auto-registration and upcasters registered late; strict replay with atomic outbox and fail-open audit, types registered late; strict replay with fallback outbox and fail-closed audit) | `DecidedOnFullHistory` `MessagesMatchEvents` `AnswerIsTrue` `DecodesRight` |
| `read_model` | two instances of one or two releases, three rows, four writes, one failing migration | `NoLostUpdate` `RepositoriesAgree` `PagesCover` |
| `governance` | two subjects, two streams, nineteen setups (providers, resolvers, guards, request kinds, stores without counter or purger, decryption error handlers, policies), one concurrent append, two faults; every list of up to three paths over documents of depth three | `VerifiedIsErased` `OthersUntouched` `ExportHonest` `SettledIsShredded` `OutOfScopeKept` `FieldsRoundTrip` `RerunsConverge` |

`postgres_skip_batch` and `saga_restart` are expected to fail and document
findings (section 4).

Every bound is a constant that is spent from a budget: calls, failing handlers,
store faults, crashes, restarts. Two actors suffice for the races here, because
each is a race for one row, lock or record: a third actor meets the state that
two already produce. Batches of two events are the smallest in which positions of
one transaction can enclose another's. Three troubles let a failure hit the
handling of a poison event, which takes two. A channel of one is full after one
event. Two faults let a failure hit the recovery from another (a retry after a
lost answer, a re-run after a crash). One concurrent append suffices in
`governance`, since the code resolves twice and the append can fall before,
between or after. Pages of two over four events make a second page and a last,
short one.

Fairness:

* `PostgresStore`: weak fairness of every client's next statement (PostgreSQL
  answers what is not blocked) and of each subscription's polling loop. Nothing
  obliges a client to call `Append` or a transaction to fail.
* `SagaManager`: goroutines are scheduled, so the steps of a drive, taking a free
  mutex included, and the loop's cases have weak fairness; the sweep ticks, a
  clock ages an untouched row, and a stopped or crashed manager is started again
  by whoever runs the process. Only weak fairness is used.
* `Outbox`: the loops tick, store calls and publishers return.
* `AsyncProjection`: goroutines run and external calls return; strong fairness
  for taking a contended mutex (starvation mode) and for the `stopCh` case of a
  select that keeps meeting it (Go chooses among ready cases at random).
* `Subscriptions`: the subscription's goroutines run, polls tick, and the
  consumer keeps reading.
* `Governance`: an append and an erasure under way go on, and whoever asked for
  an erasure asks again until it is certified, as the documentation of strict
  accountability asks; `RerunsConverge` rests on this.

Failures, crashes, operator calls and new events have no fairness: they may
happen or not. `Idempotency`, `LiveProjections`, `CommandSide` and `ReadModel`
check safety only.

## 4. Where the code and its documentation disagree

Two are runs:

* `postgres_skip_batch` — `safePositionClause`'s comment promises that a
  subscription never skips a committed event, with appends to existing streams
  "always safe". A batch takes its positions one statement at a time under one
  xid; when another append draws a position inside that range and commits later,
  its event is passed over. What does hold is `SkipOnlyByInversion`, and it is
  proved. (The run even takes the comment's word that the xid is drawn at the
  first INSERT. PostgreSQL assigns it when `FOR UPDATE` locks an existing row;
  with `XidAtLock = TRUE`, single-event appends can be inverted too.)
* `saga_restart` — the loop stores the *next* position and the feed delivers
  strictly above what it is given, so `Stop` + `Start` resumes one event late,
  against the comment that a restart re-delivers the interrupted event.

Six more configurations are kept beside the runs. Each checks one property that
the model violates:

* `ProjectionRebuild.cfg` (`MCAsyncProjection`, `RebuildLosesNothing`) — a rebuild
  that fails after it has cleared the read model leaves the worker at its old
  position (`projection_engine.go:703`); the next checkpoint makes the loss
  permanent, against `read-models.md:372-374`.
* `ProjectionStatus.cfg` (`MCAsyncProjection`, `StatusIsHonest`) — `Pause`, `Resume`
  and `Rebuild` of a projection whose worker exited as Faulted show it as paused or
  running with no goroutine behind it (`projection_engine.go:624`), after which
  `Restart` refuses to act.
* `ProjectionOutage.cfg` (`MCAsyncProjection`, `Undying`) — a read that fails with a
  context error of its own (not that of `Stop`) ends the worker as
  stopped and the supervisor does not restart it (`projection_engine.go:1325-1328`,
  `:1277-1278`), under `RestartForever` too. `SelfHealing` excepts exactly this.
* `SagaRetry.cfg` (`MCSagaManager`, `OneDriver`) — `saveSaga` evicts the mutex of a
  settled saga (`saga_manager.go:1465-1470`), but `RetrySaga` reopens the saga, so
  two goroutines can drive it at once, contrary to the comments at `:871-872` and
  `:1579-1580`. The store's version check then decides.
* `ErasureMarker.cfg` (`MCGovernance`, `RerunsConverge`) — the erasure marker is an
  event without a subject tag (`eraser.go:598-601` explains why a lost certificate
  can be re-attested by a re-run). With a scanning resolver an unattributed event
  makes every later resolution partial (`subject.go:559-572`), so once the marker
  is stored and the certificate lost, no re-run certifies again.
* `ErasureBackfill.cfg` (`MCGovernance`, `VerifiedIsErased`) — an index declared
  authoritative, as `subject.go:386-407` allows after a backfill that attributed
  every event. An untagged event is attributed through its plaintext, so once its
  key is soft-revoked an erasure resolves an empty footprint that is not partial
  (`resolveByIndex`), and `gateVacuous` lets an empty footprint be certified,
  although the key can still be restored.

## 5. Proofs

Eight modules hold theorems about the specifications the runs check, for any sets
of clients, streams, messages, processes, subjects and setups and any bounds. Two
of them serve two components each: `AsyncProjectionProofs` what fills a read model
and what keeps it (`AsyncProjection`, `ReadModel`), `CommandSideProofs` the append
and the notification that follows it in the same process (`CommandSide`,
`LiveProjections`).
They use only the named assumptions of the modules (sizes are positive, budgets
are natural, option fields have their documented values), which TLC evaluates on
every run. Each inductive invariant was checked with TLC before it was proved.

`PostgresStoreProofs`

* `TypeCorrect`: `Spec => []TypeOK`.
* `WatermarkSkipsOnlyInversions`: `SkipOnlyByInversion`. Not inductive: a row
  loaded but not yet delivered also moves the cursor later. `FeedInv` adds
  `FreshInv` (positions and xids in use are below the next ones, positions
  identify rows), `CursorInv` (the cursor stands at a delivered row),
  `DeliveredInv` (everything below *any* delivered row is delivered or excused by
  an inversion) and `BatchInv` (the same for the loaded page). A page is
  lower-closed among safe rows (`PageIsLowerClosed`), and a row that is not safe
  when a page is loaded has a younger writer than everything in it: that is the
  inversion.
* `VersionsAreUnique`, `StreamsAreGapFree`, `StreamsGrowAtTheEnd`: from
  `VersionInv`: xids are drawn late and are distinct, whoever inserts holds the
  stream row, a row is committed and at most `streams.version` or belongs to the
  one open transaction and is above it, and no version is missing below either.
  Without the last part a commit could publish a version with a hole beneath it.
* `AppendsAreAtomic`: `Spec => ImplementsEventLog`, by step simulation. The
  abstract append happens at the commit; `CallInv` says that the expected version
  checked under the row lock still holds then and that the batch ends where the
  call said, `AuthorInv` that the rows of a transaction are its own.

`IdempotencyProofs`: `HandlersExclude` (`OneHandler`) and `EffectsAreSingle`
(`EffectOnce`). Failing closed, the reservation is a lock: whoever is between
`Reserve` and the return owns the live record, and a stored effect is a live
result (`ReservationInv`); ids are never handed out twice (`IdInv`).
`ProgressIsReal` (`InProgressIsTrue`) holds under every configuration and is
inductive beside those: a reservation appears with its client in the handler, and
whatever takes the client away from it stores a result, deletes the record or
leaves an orphan (a crash, a failing delete, a lost answer of `StoreIfAbsent`).

`OutboxProofs`: `CompletedMeansSent` (`CompletedWasSent`), because a group waits
to be marked only after it was sent; `ClaimIsExclusive`
(`~SlowPublishers => ClaimedOnce`), because a message in somebody's hands is
`processing` and recent, so neither `FetchPending` nor `ReclaimStale` takes it.

`AsyncProjectionProofs`: `ReadModelComplete` (`~ApplyBatches => NothingLost`) and
`WorkerIsAlive` (`SelfHealing`: no other end than a context error). Every position
something may go on from is covered: the checkpoint, the worker's own, where its
batch is, what it is about to save (`Cover`). While a rebuild clears and replays,
`processingMu` keeps batches out (`MutexInv`), and a finished replay has covered the
feed to its end, which is why positions the worker carried across it are harmless.
With batches the code skips a refused batch as a whole, so the hypothesis is needed.

The repositories have four theorems in the same module.

* `UpdatesAreKept` (`NoLostUpdate`): not inductive, because between its two
  statements an `Update` carries a copy of the row. `ReadInv` adds what that copy
  is worth (`HeldInv`: unless another update overlapped, its counter is one more
  than what was acknowledged), what the rows look like (`RowsInv`: the counter of
  a row is NULL exactly until its column exists) and how far every instance's
  migration has come (`TableInv`: a release writes only when the columns of its
  model exist).
* `RepositoriesSelectAlike` (`RepositoriesAgree`): from `RowsInv`, which says where a
  NULL can be: a column that is not nullable is added with a default, so no ready
  instance meets a row it cannot scan, and a filter on a field that is not a pointer
  meets a NULL only in a nullable scalar. There the two do differ (memory compares
  the zero, SQL the NULL), and the property names that case.
* `AnswersAreOrdered` (`OrderIsTotal`, the part of `PagesCover` that depends on
  history) and `PagesTile` (the pages of any sequence tile it). What lies between
  them, that sorting a finite set by a total order gives a sequence of its rows, is
  a fact about a sort and is left to TLC.

`SagaManagerProofs`: `OneDriverAtATime` (`OneDriverUnlessRetried`). The mutex map
does not give it, since its entry is deleted when the saga settles. Until the saga
settles everybody has the mutex in the map; afterwards whoever comes with another
one finds the settled row, and a drive whose version the store would accept is one
of an unsettled saga (`QuietInv`).

`NothingSentTwice` (`NothingRepeated`, until an operator retries and while
`LastEvent <= MaxTracked`) counts: `CountInv` charges each repeated drive to the
failed load or save, stop, crash or lost race that caused it. An event is *open* while
neither its key is in the row nor the row settled; for an open event a manager has
sent no more than what was paid for, or one of its threads is driving it and that
drive is on top (`SentInv`, `RollInv` for compensation). A drive whose save the
store accepts has a cache with every key of the row (`KeysKept`), so it closes the
event for ever. A loop that is stopping has already paid for the drive it will
leave unfinished (`Credit`). The last conjunct, that a manager which shares the
saga with nobody loses no race, is `LoneInv`. The count is per manager and charges
lost races, because two managers can go on losing saves to each other: a bound by
the number of managers and disturbances alone would be false.

`CommandSideProofs`: `NoStaleDecision` (`DecidedOnFullHistory`),
`OutboxFollowsStream` (`MessagesMatchEvents`), `CallersHearTheTruth`
(`AnswerIsTrue`) and `StoredFormsDecode` (`DecodesRight`), from `CommandInv`: what
a call loaded is the history up to where its replay is, or every gap was warned of
or is in `raced` for this very replay; an
event without its message belongs to a save under way, to a command in doubt or to
a dead process; the events of the current attempt are the last ones up to the
version the call knows; a stamp written with a complete chain names the form.

In the same module `NoEventVanishes` (`EveryEventAccounted`) and
`StoppedWorkerDrained` (`StopDrains`) are about live and inline projections.
`LiveInv` says where every event is and that places exclude each other (`PlacedInv`), that
what a notifier has in hand comes after what it has sent (`HandsInv`, `FlowInv`),
and how far a batch is through the inline projections (`CellInv`, `AppliedInv`).
Beside it, `SilentInv` says that what is dropped in silence had a cancelled call or an
unregistered projection, and `RunsInv` that what left the channel is with a run or was
delivered, in order while no second run was started over it.
`StopDrains` is inductive beside `LiveInv`: a worker leaves, other than by a
cancelled context, only when its channel is empty, and what is put there when no run
is left is late.

`SubscriptionsProofs`: `NothingSkipped` (`ExactlyUpToPosition`) and
`OnlyDropsAreLost` (`NativeLosesOnlyDrops`). A page in hand is the run of positions
after the subscription's own, which is behind the channel between a send and
`setPosition` (`PageInv`); the native pipeline holds, in order, a
part of what was sent into it, and what is missing was dropped (`NativeInv`); the
history and the first `BufferSize` events after it fit the channel, so a drop has a
higher position (`DropInv`).

`GovernanceProofs` is about erasure, export and retention on one store. All rests
on what no step of any actor does (`DataMove`): a sealed event is never
changed, no event changes its stream or its subjects, a revoked key comes back only
through an administrator.

* `GuardedErasureSparesOthers` (`OthersUntouched`): what the guard let pass is
  disjoint from the keys that protected others.
* `CertificatesAreTrue` (`Sound => VerifiedIsErased`): an erasure that is not
  partial looks at every event it speaks for (`OwedCovered`), in both
  resolutions; a clean check of those means they are sealed under a destroyed key.
  Of the rows it says that one which is left is of a kind the answer does not
  attest (`Unattested`), for a certificate and for a report of `Verify` alike.
  `Sound` leaves out one combination, an authoritative index beside upkeep, where
  the property is false (section 4).
* `SweepsStayInScope` (`OutOfScopeKept`): what was out of scope when the sweep
  began still is when the guard looks.
* `SweepsMissNothing` (`SettledIsShredded`): every event up to the frontier that a
  Shred policy is for has a candidate that would hold the checkpoint back behind
  it, unless its key is lost.
* `ExportsAreHonest` (`~option.upkeep => ExportHonest`): what the export owes is in
  a stream it has still to read, in the batch, in hand, exported or beyond reading
  (`OwedOK`), a key its cache calls live was live when it began, and an event for
  which a call to the provider failed is in `blind` (`KeysOK`). With upkeep a key
  may be restored after the export passed an event it could not read; the wording,
  which looks at the present key, is then too strong.
* `SealedFieldOpens`: one field of any document, sealed and then opened. The
  document may hold sealed fields already, so fields that are opened in the reverse
  order of their sealing undo each other one by one; that the two orders of the
  code are such (`orderByDepth`) is `FieldsRoundTrip`, which folds over the list of
  paths and is model-checked.

Only model-checked:

* liveness, under fairness: `AppendsTerminate`, `CursorCatchesUp`,
  `EveryCallReturns`, `StalledSagaSettles`, `EveryMessageSettles`,
  `CatchesUp`, `StopReturns`, `EventuallyDelivered`,
  `RerunsConverge`;
* `NothingRepeated` after an operator's retry: two drives of one manager may then
  overlap and the bound counts those under way (`Unfinished`);
* what sorts and folds compute: the sorted part of `PagesCover`, and
  `FieldsRoundTrip` for a list of several paths. Both need induction over data; TLC
  checks them on every bounded input.

## 6. What the checks do not show

Some properties carry conditions because the code does not promise more, and
lifting the condition makes the model violate them:

* `OneHandler`/`EffectOnce` hold until a handler outlives `ReservationTTL` or the
  age of a `Cleanup`, or the unconditional delete of a stale record hits a newer one
  (`raced`), and only when failing closed; a success whose result could not be
  stored may be repeated.
* `ClaimedOnce` needs publishers that return within the processing timeout
  (`SlowPublishers = FALSE`). A group fails as a whole, so the delivered
  neighbours of a refused message are sent again until they are dead-lettered.
* `NothingRepeated` allows a manager one more run of an event's commands per
  retry, failing load or save, stop, crash or save that met another manager's newer
  version: commands are at-least-once across those.
  A lookup that fails for an event that starts nothing drops that event
  (`resolveSagaID`), and so does any event that cannot be decrypted or whose load
  under the lock fails.
* `SelfHealing` and `CatchesUp` exclude a worker ended by a context error
  (`EndedByContext`, section 4), an unregistered projection, and a `Stop` that ran
  into its deadline (`leaked`): the next `Start` finds the old supervisor and
  launches none.
* `NothingLost` excludes failed rebuilds (`botched`, see section 4), and the run
  applies events one by one: with `ApplyBatches = TRUE` skipping a poison batch
  passes over all of it, as the code says. `mink projection rebuild` clears no
  read model, and a running worker's next checkpoint undoes it.
* `NativeLosesOnlyDrops` says what is lost, not that anybody hears of it:
  `EventStore.SubscribeStream` passes no `OnError`, so its drops at a full buffer
  are silent. `EventuallyDelivered` excludes subscriptions
  that ended (a load error in the history phase is final whatever
  `RetryOnError` says) and polling on a closed adapter, which never ends.
* `EveryEventAccounted`: events of a live projection that is not running are dropped
  with a warning; when the notifying call loses its context one event is logged and
  the rest of the batch is not, and an unregistered projection drops in silence. Two
  runs of a worker (after a `Stop` that timed out) may deliver out of order. A failing
  inline projection leaves the later ones without the event.
* `AnswerIsTrue` excludes commands `in doubt`: a retry after a lost answer or a
  failing fallback schedule stores the events twice; a fail-closed audit turns a
  success into a failure after the events are stored. A panic is not audited when
  the recovery middleware is outermost.
* `DecidedOnFullHistory`: without strict replay events of unregistered types are
  skipped with a warning, and with or without it an event whose type is registered
  between the two looks at the registry is dropped with none (`raced`).
  `DecodesRight` excludes events appended between two registrations (`complete`),
  whose stamp is an intermediate version.
* `NoLostUpdate` excludes updates that overlap (`overlapped`): `Update` is a
  SELECT and an UPDATE without a lock. `RepositoriesAgree` is about fields that
  are not pointers (in memory a filter compares the pointer itself) and excepts the
  NULLs of a nullable scalar. `PagesCover`
  needs the id as the last key in PostgreSQL.
* `VerifiedIsErased` leaves rows a verified answer does not attest (`Unattested`):
  those of a store without a counter, those under a raw aggregate id without
  `WithDerivedAggregateIDs`, and those of shared streams in a report of `Verify` or a
  store purged the old way. It is not promised when an index is trusted as authoritative for
  subjects that only a backfill derived (section 4); `ExportHonest` is proved where
  no administrator restores keys or re-encrypts, and excepts events for which a call
  to the key provider failed (`blind`): with a handler that swallows errors their
  ciphertext goes out unmarked, and the filter may miss an untagged one.
* `SettledIsShredded` excludes keys an administrator restored and events that
  were re-encrypted behind the checkpoint. `ReEncryptInPlace` does not update the
  subject index.
* `RerunsConverge` is stated for setups in which nothing stands in the way
  (`Convergent`): every event tagged with one subject, no shared stream, a key per
  subject, a scanning resolver, no marker (see section 4).

## 7. Not modelled

* Metrics, tracing, logging, binary serializers and byte formats: no effect on
  the behaviour, or conversions of third-party libraries.
* The command-line tool except `projection rebuild`: argument parsing, code
  generation, tables. (`mink projection pause` sets a status column that the
  engine never reads.)
* Snapshots, the adapter's own schema migrations, diagnostics and queries of the
  audit log: reads, or single statements that no other operation depends on.
* Cryptography and the services behind KMS and Vault; only key states are kept.
* Idempotency-key derivation, tenants in keys, time windows of requests, requests
  that combine key ids and streams.
* A resolution of a subject is one atomic read; in the code it pages through the
  store. An export of a filter alone, which scans the whole store, is left out.
* `ParallelRebuilder`, the From/ToPosition options of a rebuild, two concurrent
  `Stop` calls, `RegisterLive` on a running engine; start and stop of the outbox
  processor (a stopped one behaves like a crash, one that outlives its `Stop` like
  a further processor); the Kafka writer cache.
* LIKE/CONTAINS filters, `DropTable`, `TxRepository` and the aliasing of the
  caller's pointer by the in-memory `Insert`.
* The processed-key window of a saga at its limit: the parameter is there
  (`MaxTracked`), the run keeps it larger than the log.

## 8. Plan

Done: the PostgreSQL store with its abstract log and first proofs; saga manager;
idempotency; outbox and publishers; asynchronous, inline and live projections;
subscriptions; the command side with outbox, audit and schema versions; read-model
repositories; keys, field encryption, erasure, retention and export.

The safety invariants of all components that are modelled and the refinement of the
event log are proved, up to the parts listed at the end of section 5.

What could follow: runs at the limits (the processed-key window, slow publishers
against a weaker property, a resolution that pages), and the commands of the
command-line tool that write to the stores.
