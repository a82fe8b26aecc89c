# TLA+ model of discogs-graph-enricher

`discogs-graph-enricher` (the package `graphinator`) consumes Discogs dumps from four
RabbitMQ queues and writes them into a Neo4j graph. This directory holds TLA+ models of
its coordination logic, TLC configurations that check them on small instances, and TLAPS
proofs of their most important properties for every value of the constants.

## The system

One asyncio process. `DATA_TYPES` are artists, labels, masters and releases; each has one
durable quorum queue, one consumer and one dead-letter queue. Everything the process must
not forget is in Neo4j or in an unacknowledged delivery.

| component | state | operations | what makes it correct |
|---|---|---|---|
| Durable completion latch (`check_file_completion`, `_record_extraction_signal`) | `ExtractionCompletion` node per version (`signals`, `maintained_at`, `maintenance_status`, `stats_version`); cache `extraction_complete_signals`/`_version`, `extraction_latch_lock` | flush, record signal, ack or requeue, start maintenance, resume at start-up | a marker is acked only when recorded; two dumps never share signals; maintenance waits for all types and is never forgotten |
| Post-import maintenance and stats refresh | `post_import_maintenance_task`, `stats_refresh_task`, attempts, the checkpoint nodes | drain, seven steps, stamp, record failure, retry, refresh | single flight; a stamp means every step ran for that dump under that code |
| Checkpointed paging (`maintenance_paging.py`) | one `MaintenanceCheckpoint` node per step; cursor, page size, failure count in memory | read checkpoint, process page, halve, commit, finish | done means every key; committed pages are not redone; it ends |
| Consumer lifecycle (`graphinator.py:269-690`) | `consumer_tags`, `completed_files`, `extraction_signalled`, `consumer_cancel_tasks`, `active_connection`, `consumer_recovery_requested` | arm and fire timers, cancel, close, poll for parked markers, recover | no queued message stays without a consumer; the service gets idle |
| Message handler and record path | counters, the delivery | batch add or direct write, ack, nack, requeue with budget | each delivery settled once, after its write |
| Batch processor (`batch_processor.py`, over the external `AsyncBatchEngine`) | per-type deques, holds, limits of `BatchConfig` | add, flush, put back, reject, hold return | acked only when written; limits fit the broker's consumer timeout |
| Graph projection (`batch_projection.py`, `entity_projection.py`, `company_`, `media_projection.py`, `person_credits.py`, `master_reference.py`) | nodes and edges | hash gate, prune then merge, stubs | re-import converges to the record, whatever the order |
| Stub and sentinel cleanup (`cleanup_all_stub_nodes`, `cleanup_sentinel_master`) | nothing of its own | choose isolated stubs, delete in inner transactions, delete the master `0` | no edge that a record asserts is lost with a stub |
| Stub name backfill | a line checkpoint on disk | read the dump again, name the nodes that have none | it names, and never renames what a record named |
| Start-up and shutdown (`main()`) | `boot` order of the two start-up checks | declare, resume, refresh, tear down | what a crash interrupted is found again |
| Telemetry, health and progress report; contract, release and install tooling | counters that only they read | observe, build | not modelled |

Interaction: the broker calls the handler; the handler hands records to the batch
processor and markers to the latch; the latch starts maintenance; maintenance drains the
batch processor and then pages through Neo4j; the consumer lifecycle decides which queues
have a consumer and is re-armed by both kinds of marker.

Hard behaviours: four handlers interleave at every `await` over one module-global cache;
the process, the connection or a Neo4j answer can be lost between any two of them; an ack
destroys the only copy of a trigger; a pass lasts hours while the next dump may begin; and
checkpoints of one run are read by another. `PROJECT.json` lists each hazard at its line.

## Modules

| module | models |
|---|---|
| `CompletionGate` | abstract: what the latch promises - record, settle, start, finish |
| `ExtractionLatch` | the latch in detail, one action per code between two awaits |
| `MCExtractionLatch` | its model-checking instance (symmetry of types and of handlers) |
| `ExtractionLatchProofs` | theorems about it, the implementation of `CompletionGate` among them |
| `PostImportMaintenance` | both detached maintenance tasks, their checkpoints and the dumps around them |
| `MaintenanceProofs` | theorems about it |
| `CheckpointedSweep` | `run_checkpointed_step` and its page processors |
| `SweepProofs` | theorems about it |
| `Consumers` | consumers, grace timers, the close of the transport, the periodic checker and recovery |
| `ConsumersProofs` | theorems about it: its types, every consumer has its tag |
| `ConsumersRecoveryProofs` | theorems about its grace timers and the recovery |
| `BatchSettlement` | deliveries of one type in batch mode: submit, flush, settle, hold return, poison, the drain before a marker |
| `BatchSettlementProofs` | theorems about it |
| `BatchLimits`, `MCBatchLimits` | the timed behaviour behind the sum `BatchConfig.__post_init__` checks |
| `BatchLimitsProofs` | theorems about it, for the accepted configurations with bounded holds and writes and two keys a slot |
| `RecordAssertions` | pure rules: the edges a record asserts, the edges it may prune, the names it gives |
| `Projection`, `MCProjection` | the graph under both write paths, redelivery, the cleanups and the name backfill |
| `ProjectionProofs` | theorems about it |

The component modules are views of one system at different grain. In
`ExtractionLatch` a pass is only the occupant of its slot; `PostImportMaintenance` opens
the pass and reduces the latch to the state of a dump (`none`, `importing`, `partial`,
`complete`); in it a sweep is one step that succeeds, fails or leaves a checkpoint behind,
which `CheckpointedSweep` opens. Definitions described as a *faulty variant* in a comment
are not part of any model: each is a plausible bug that breaks one property and shows that
the property notices it.

### ExtractionLatch

A handler task `k` is its `pc`, the delivery `marker[k]`, whether it can still be settled
(`live[k]`) and the private `candidate`. The path of `check_file_completion` is
`flush -> latch -> load -> persist -> committed -> state -> ack | trigger -> start`, with
`requeue` from every failure. `persist` and `committed` are separate because the commit
and its answer are separate events: `LatchWriteFailed` in `committed` is a commit whose
answer was lost. `Deliver` includes the code up to the first await. `ConnectionLoss`
returns the deliveries to the broker but leaves the handlers running on dead channels;
`AckLost` is an ack sent into a dying connection. `Crash` empties the process, and
`Restart` starts the consumers before the resume reads anything, as `main()` does.
A node exists once `signals` is not empty. `alarmed` marks the places where the code gives
up with nothing but an ERROR log line.

### PostImportMaintenance

A pass is `(pass, attempt, step, ok)`, a refresh `(refresh, refreshAttempt, refreshStep,
refreshOk)`; both use `checkpoint[s]`, keyed by `maintenance_run_key`. The variables
`swept`, `fresh` and `quiet` are history: no code reads them, they say what the graph's
derived properties are worth. `pending` says that the batch queues hold accepted records,
`returned` that a crash gave some back to the broker. A `Restart` may be a new release with
a higher `STATS_VERSION`.

### CheckpointedSweep

Keys are numbered in their order. `Begin` reads the checkpoint, `ListPage` and
`ProcessUpTo` are the two kinds of page processor (all keys in one transaction, or key by
key), `PageTooLarge` and `FailedAtMinimum` the two answers to a retryable error.
`Interrupted` covers every way a call can end early. `stale[r]` is history: the keys not
visited since run `r` last began at the start.

### Consumers

Three kinds of task share the module globals. A marker handler is a triple
`<<type, stage, channel still open>>`; what it does to Neo4j is left to `ExtractionLatch`,
here it waits (`FlushExtraction`), lands (`LandFileComplete`, `LandExtractionComplete`), is acked
- after the read of `maintained_at` when its signal completes the set (`AckExtractionComplete`) - or
requeues; `extraction_signalled` stands for the durable set, which after a restart may hold more.
Records are counted in `held` until their batch settles. A grace timer is the
await it is suspended at: `sleep`, `cancel` (waiting for CancelOk), `channel` and
`connection` (inside `close_rabbitmq_connection`). The checker is its `pc`:
`sleep -> parked / resubscribe -> stuck`, and `channel -> connection -> connect -> probe ->
declare -> consume` when it recovers, `abortChannel -> abortConnection` when that failed;
`back` is where the interrupted tick goes on.

The broker is modelled where the code cannot know it: `subscribed` against `consumer_tags`,
a cancel frame (`cancelSent`) or a close frame (`closeSent`) that is executed after its
sender gave up, and `ChannelGone`, which returns every unsettled delivery while its handler
runs on with `open = FALSE`. `Closing` is TRUE from the first await of a close: a request
sent afterwards on that channel fails, a consume sent before may still be answered.
`SetTimer` is `task.cancel()` and the replacement of a timer, whatever it was doing.
Grace is time: a grace timer ends after the messages its consumer could get are handled,
except in `MaxOverruns` cases, in which a handler needs longer than
`CONSUMER_CANCEL_DELAY`. A timer that recovery stops in its cancel call asks for one more
recovery as soon as it runs (`TimersReset`). `Subscribe` registers a consumer and stores its tag in one step:
the code stores the tag when `queue.consume` returns, which happens in the step of the event loop that
reads ConsumeOk, before any handler of that consumer gets past its first await, and nothing before
reads the tag. `queue.consume` has no timeout, so if it raises on an open channel the broker has
refused; on a channel that is closed meanwhile the subscription is gone as well (`ResubscribeFails`).

### BatchSettlement

One data type. `pending` and `batch` hold entries `<<message, its channel is still open>>`:
an entry is a `PendingMessage` with its callbacks, and `ConnectionLoss` makes it stale while
the same delivery comes back from the broker (`returns`, then `fresh`). A flush is
`idle -> writing -> written -> settling`; the commit (`WriteCommits`) and its answer (`write`)
are two steps, because a write past `max_write_s` is cancelled whether it committed or not.
`poison` counts deterministic failures in a row, at `MaxPoisonRetries` the key is written
one record at a time; `retry` is the transient back-off. A marker handler is
`<<channel still open, stage, attempts>>` with stages `drain -> latch -> ack`, `requeue` from
a failure; any number of them can be left from channels already lost. The engine is an
external library: its actions are taken from how the processor, the comments, the docs and the
tests use it. The hold is looked at on every flush entry, as in `BatchLimits` and as the comment at
`batch_processor.py:89-90` says (the comment on `max_hold_s` speaks of deliveries in transient
back-off only); outside a back-off a delivery is only held that long by slowness, which counts
against `MaxFaults`. `add_messageRaises` and `requeue_record` are the path of a handler that fails
before its record is queued: it pauses with the record (`returning`) and gives it back. That
`submit` queues a record and raises afterwards is left out, since `submit` then ends in a flush whose
failures the engine keeps to itself. `heldBack` and `missed` are history: the records that a hold, a
failed handler, or a return behind the marker, left at the broker, and those of them a finished
drain did not see.

### BatchLimits

One key per data type, each `idle`, `queued` for a slot, `writing` or in `backoff`, and one
delivery per key, any one, followed by its `age`. Time moves in units and only when nothing
that is due is left undone. `worst_case_s` is the sum in the code. The hold is looked at on
every flush entry, each entry leads to at most one write, and a batch may leave the followed
delivery in the queue. An unbounded hold or write is the value `None`; as in the code the first
switches the check off and the second is charged nothing. `Provisioned` says what the sum takes for
granted and `BatchConfig` does not check: both bounds set and at most two keys to a slot.

### RecordAssertions and Projection

`RecordAssertions` states once what both write paths share. In `Projection` each type has a
queue of record versions; `ReadHashes` and `batch_write` are the two transactions of a batch,
`process_record` the single transaction of the other mode, and a service may be restarted
in either. `Project` is the sequence of statements of one transaction: `nodes`, `hash`, `name`
and `edges` change together. `Repeat` writes a batch again although it may have committed,
`HoldReturn` puts a delivery behind newer ones. The stub sweep is `SelectStubs` (the driving
`MATCH`) followed by `DeleteStubs` (its inner transactions), and may run at any time.

Three history variables name what the code does not promise. `overlapped`: a write
committed while a sweep had chosen stubs it had not deleted. `mixed`: the last write of a node
held two versions of its record, whose edges are then both there. `unordered`: an older version
may have been written after a newer one, since nothing compares versions. The properties except
exactly these cases. A master published under the sentinel's id `0` is rejected by the batch path
(`Usable`) and written by `process_record`; the node it makes is excepted from what is said of hashes
and newest versions, since `DeleteSentinel` takes it whenever it runs. Assumed of the records
(`RecordsAssumption`, `LoadedAssumption`, `DumpsAssumption`): a hash stands for its content, a dump
holds a record once, a record has an id (both paths dead-letter one without) and a name, a version to
be published is not in the graph already, and the edges other providers wrote are `ISSUED_ON` and
`CREDITED_TO`. The names are an assumption on the data: for a record without one the single path
writes `Unknown Artist` and the like, while the batch path sets the property to null.

## Runs

| run | bounds | shows |
|---|---|---|
| `latch_two_dumps` | 2 types, 2 versions, 2 handlers, 2 Neo4j failures | `Inv`, `AckedSignalIsDurable`, `CacheNeverAheadOfNode`, `SignalsStayWithTheirDump`, `FailureNeverBesideStamp`, `ImplementsGate` |
| `latch_one_dump` | 2 types, 1 version, 2 handlers, 1 failure, 1 crash or lost connection, fair | `Inv`, `CompletedDumpHasOwner`, `ImplementsGate`, `DumpGetsItsMaintenance` |
| `latch_dropped_trigger` | 2 versions, no failure | violates `CompletedDumpHasOwner` |
| `maintenance_two_dumps` | 2 dumps, 2 stats versions, 2 attempts, 2 faults or crashes | `Inv`, `StatsVersionHonest`, `StampedMeansSwept`, `FinalWhenQuiet` |
| `sweep_two_runs` | 6 keys, 2 runs, pages of 4 to 1, 5 calls, fair | `Inv`, `DoneMeansEveryKey`, `NeverRedoesCommitted`, `RememberedSizeHolds`, `EverySweepEnds` |
| `consumers_recovery` | 2 types, 1 dump, 1 failing call, fair | `Inv`, `GhostTagsAreRepaired`, `RecoveryConcludes`, `EveryMessageIsDelivered` |
| `consumers_two_dumps` | 2 types, 1 dump and the second up to its `file_complete`, fair | `NeverCancelsAnImport`, `EveryMessageIsDelivered` |
| `consumers_overrun` | 2 types, 1 dump, 1 overrun, 1 restart | `SubscriptionsAreTagged` |
| `consumers_pinned` | bounds of `consumers_two_dumps`, the extractor may stop anywhere | violates `EveryMessageIsDelivered` |
| `batch_settlement` | 4 messages, batches and prefetch of 2, requeue budgets of 1, 1 fault (Neo4j, a handler, slowness), 1 loss or crash, fair | `TypeOK`, `AckedIsWritten`, `OnlyJustifiedDeadLetters`, `SignalCoversItsRecords`, `EveryDeliveryHasOneOwner`, `EverythingSettles` |
| `batch_limits` | 4 types, 2 slots, hold 2, interval, back-off, write and grace 1, timeout 9 | `SlotWaitBounded`, `BelowConsumerTimeout` |
| `projection` | 2 dumps, 5 versions of 4 records (one under master id `0`), batches and prefetch of 2, 1 return or repeat | `Inv`, `HashTellsTheEdges`, `OwnNameStays`, `ReferencesAreNamed`, `LatestVersionWins`, `ForeignEdgesStay` |

`Inv` is, in each of the five modules that define it, the type invariant together with the
invariants that its proofs rest on; single flight of the maintenance tasks and "no
maintenance before all signals" are conjuncts of it.

Why the bounds are enough: the latch compares a set of signals with `DATA_TYPES` and one
version with another, so two types and two versions meet every combination of "mine,
another's, none"; two handlers meet every ordering at the lock. (That a commit whose answer
was lost is overwritten by a stale cache would take a third type; `AckedSignalIsDurable` is proved for
any number.) Losses are in `latch_one_dump` only: with two dumps one loss is out of TLC's reach
(more than seven million states), and the theorems cover it. A requeue budget of one is both within and beyond the
budget. Two attempts are a first and a last one. Six keys with pages of four give a full
page, a partial page, two halvings and the empty page that ends a sweep. In `Consumers` a
type is either the one a timer or a handler belongs to or the one that keeps the service
busy, so two types meet every case of "all idle" and "one left"; three messages are one of
each kind, and five reach a second dump after the service went idle. In `batch_settlement` one
message has each role that can be told apart (healthy, poisoned, marker, rejected; an invalid
record never enters the engine and is covered by the proofs), and the record behind the marker
makes a flush beside a drain possible. In `batch_limits` four types over two slots are what
the service runs with, and 2 + 1 + 1 + 2 * (1 + 1) = 8 is just below 9. In `projection`
the two versions of the release differ in every list a prune looks at, in the master (a real one,
then the sentinel), in the companies block (silent, then present) and in the name of an artist it
refers to; the other records meet it as the stub's own record, as the master it refers to and as
the sentinel. What labels add, their two kinds of hierarchy edge, is in the proofs only.
Deadlock is checked for `Consumers`, whose checker ticks for ever, for `BatchLimits` and
for `Projection`; the other models may stop when all dumps are done and their bounds are spent. Symmetry is used in safety runs only.

Fairness (`latch_one_dump`): the event loop resumes every task whose await has completed
(weak fairness of each handler step and of the start-up), `asyncio.Lock` serves its waiters
in order (strong fairness of taking it), RabbitMQ keeps delivering a ready message (strong
fairness of delivery), passes end because they have a bounded number of attempts, and a
supervisor restarts the process. Failures need no fairness. In `sweep_two_runs` only the
call itself is scheduled fairly; nothing assumes that a statement succeeds. In the
`consumers_` runs every task resumes and every frame is executed (weak fairness), a request
on a closed channel raises, and the checks that run at `STUCK_CHECK_INTERVAL` and
`QUEUE_CHECK_INTERVAL` are taken although other ticks come between (strong fairness). In `batch_settlement` RabbitMQ delivers while the prefetch
allows, `run_periodic` keeps flushing, back-offs end, and the handlers of markers and of records that failed run on (weak fairness);
no action that fails is fair, and a poisoned write fails because the model says what it is.
`PausingSpec` assumes nothing of the extractor, `FairSpec` that it finishes what it began.

### Where code and text disagree

* `latch_dropped_trigger`: a trigger is ignored whenever *a* pass runs, also one of another
  version, after it was acked. The second dump then waits for a restart.
* `consumers_pinned`: recovery registers consumers for all types, also for a finished one
  with an empty queue, and arms no timer for it. While that consumer stays, the service is
  never idle, and a type that was cancelled has nobody who reads its next dump until the
  extractor publishes something for the idle type - the starvation that the comment above
  that loop wants to prevent.

More disagreements show in the models but are no run:

* The comment of `cleanup_all_stub_nodes` says "no consumer is still MERGEing cross-type stubs",
  but the consumers of a restarted service and of the next dump run beside a pass. A sweep that
  chose an isolated stub deletes it with the edge that a record attached in between, the
  record's hash is stored, and no later import restores the edge (`overlapped` in `Projection`).
* `schedule_consumer_cancellation` cancels a type's old timer also in the middle of
  `close_rabbitmq_connection`. `CancelledError` is no `Exception`, so no recovery is requested; a
  type that was resubscribed in the meantime keeps its tag and loses its consumer, and its
  `extraction_complete` stays parked, although `docs/consumer-cancellation.md` bounds that wait.
  It needs two markers of one type in flight and a handler slower than `CONSUMER_CANCEL_DELAY`;
  `consumers_overrun` reaches it, the fair runs leave overruns out because of it.
* `_stamp_maintenance_success` calls the stamp the durable "graph is final" signal; a pass resumed
  after a crash does not wait for the records that the crash returned to the broker.
* `docs/consumer-cancellation.md` says that a pass interrupted by a shutdown waits for the next
  signal or an operator, while the start-up check resumes it (`resume_pending_maintenance`).
* A comment in `_run_post_import_maintenance_attempts` says that the steps run "over a graph that
  is no longer being written", while only a refresh watches for arriving records and a pass sweeps
  on (`RecordArrives`, `StepCompletes`).
* A signal is recorded after a drain that found nothing pending, also when the hold returned
  records of that type to the broker before (`missed` in `BatchSettlement`).
* The comment in `BatchConfig.__post_init__` says that "the bound must act before the broker's
  consumer_timeout can", and `BatchConfig` accepts `max_write_s=None`, `max_hold_s=None` (both in
  `tests/test_batch_processor.py`) and `max_concurrent_flushes=1`. With one slot, or with an unbounded
  write, TLC finds both properties of `batch_limits` violated; with an unbounded hold it finds
  `BelowConsumerTimeout` violated. The service itself runs with two slots and both bounds.
* `cleanup_sentinel_master` calls itself "Backstop only: the projection no longer creates it", and
  `master_reference.py` says that the two write paths "cannot disagree". Of a release's reference that
  is so. A master record published under id `0` the batch path dead-letters and `process_master`
  writes, its edges included (`Usable`, `process_record`).

## Proofs

All theorems hold for every value of the constants, under the named assumptions of the
modules and the hypotheses given below.

* `ExtractionLatchProofs`. `LatchInv` (with `TypeOK`: `Inv`) is the inductive invariant. The safety properties are
  not inductive: that an acked signal is on the node needs that every handler past its
  commit has its signal on the node, which needs that its `candidate` contains its own type
  and nothing the node lacks, which needs that the cache is never ahead of the node and that
  one handler at a time is inside the latch. From it follow `AckedSignalIsDurable`,
  `CacheNeverAheadOfNode`, `MaintenanceOnlyAfterAllSignals`, `FailureNeverBesideStamp` and
  `ImplementsGate`. `SignalsStayWithTheirDump` strengthens it with "what
  a handler works on was received".
  `CompletedDumpHasOwner` is proved for dumps that do not overlap (`DumpsApart`: while a complete
  dump waits for its outcome no newer one has a node and no other pass runs), which the code cannot
  enforce and which `latch_dropped_trigger` shows is needed, and without that condition for a
  single version. Its argument is `NoneForgotten`: every signal past the latch is in the cache and in
  the candidate of whoever holds the lock, so the handler of the last one sees that all are there;
  and `OwnerInSight`, which counts an ack about to be sent as one sent.
* `MaintenanceProofs`. `MaintenanceInv` relates a done checkpoint to the run key its sweep
  last completed under and the position of each task to what it completed; single flight is
  what keeps one task's progress from being undone by the other. From it follow
  `SingleFlight`, `StatsVersionHonest` and `StampedMeansSwept`. `QuietInv` gives `FinalWhenQuiet`: in
  an attempt during which nothing was written every step behind the cursor is fresh, also a step
  that is skipped because its checkpoint says done.
* `SweepProofs`. `SweepInv` says that whatever is behind a cursor, in memory or committed,
  was visited under its run, and that a running sweep is ahead of its checkpoint.
* `ConsumersProofs`. `SubscriptionsAreTagged` is not inductive: when CancelOk takes a tag
  away, the consumer must be gone. `TaggedInv` adds that a timer waiting for CancelOk has
  its frame outstanding as long as the consumer lives, which no new consumer can break,
  since the checker only ever registers one for a type without a tag. The type invariant includes
  that what a lost channel puts back in front of a queue is a sequence of messages again.
* `ConsumersRecoveryProofs`. `TimersInv` needs no condition: tags and cancel frames belong to a
  connection the process refers to, a recovery begins without consumers and without a timer that
  could cancel one it registers, types enter a dump in turn, and a sleeping timer over a type
  that was put back to work has the marker that replaces it at the broker or in a handler.
  `GraceInv` adds `NeverCancelsAnImport` and `GhostTagsAreRepaired` and what makes them inductive:
  a type whose cancel call waits, or whose timer closes the transport, has no marker on its way
  (`CancelsAreIdle`, `ClosersAreIdle`), and a frame whose waiter is gone is followed by a recovery
  (`FramesAreFollowed`). Both are theorems under `MaxOverruns = 0`, that is, if no handler outlasts
  a `CONSUMER_CANCEL_DELAY`. The hypothesis is the point of the disagreement on
  `schedule_consumer_cancellation` above: with one overrun a ghost tag can stay.
  The number of types, messages, failing calls and restarts is arbitrary.
* `BatchSettlementProofs`. `SettlementInv` adds what makes the safety properties inductive:
  the order in which the broker will deliver what it has (`QueueOrder`), that a flush with its
  answer has its members in the graph and an isolated flush has one member (`FlushShape`), and that
  from the marker's delivery on, each record before it is written, dead, with the engine or in
  `heldBack` (`DrainOrder`), which a finished drain turns into `DrainCovers`.
* `BatchLimitsProofs`. `LimitsInv` bounds the age of a held delivery by where its key is in a
  flush: at most `max_hold_s` when it enters the queue, then a wait, a write, a back-off and a
  flush interval. The wait is the hard part (`Room`): the queue is first come first served, and
  every place in it is matched by a free slot or a write older than the waiting key, so the wait
  lasts one bounded write. The theorems have the hypothesis `Provisioned`: holds and writes are
  bounded, and there are at most twice as many keys as slots. Four types, two flushes and the
  service's limits meet it; `BatchConfig` does not check it, and it accepts configurations for
  which both properties fail (above).
* `ProjectionProofs`. `EdgesInv` joins `HashTellsTheEdges`, `ReferencesAreNamed` and "the stubs a
  sweep chose stay isolated while nobody writes beside it": a stub the sweep may delete then
  carries no edge a stored hash vouches for, and an edge is prunable only by the record it
  belongs to. `LatestVersionWins` rests on `LatestInv`: unless a node is `unordered`, no row
  of it waits behind its newest version, and once no row of it waits the graph holds that version;
  a batch is the front of its queue, and what its hash gate left out is stored until it settles.
  `OwnNameStays` and `ForeignEdgesStay` have smaller invariants of their own; `TypeOK` includes that no edge dangles.

Only model-checked: the liveness properties `DumpGetsItsMaintenance`, `EverySweepEnds`,
`RecoveryConcludes`, `EveryMessageIsDelivered` and `EverythingSettles` (liveness under fairness and
ENABLED are outside what the prover can do), and the two violations. Every safety and action
property of a passing run is a theorem, five of them under the conditions just named
(`CompletedDumpHasOwner` with several versions, `NeverCancelsAnImport`, `GhostTagsAreRepaired`,
`SlotWaitBounded`, `BelowConsumerTimeout`).

## What is abstracted or left out

* Shutdown is modelled as a crash. The orderly teardown flushes first, which is one of the
  behaviours of a crash after a flush.
* The broker's `x-delivery-limit` of 20 closes is outside the bounds; back-off delays are
  time and have no state.
* `task.cancel()` of a refresh takes effect at once; a statement already sent to Neo4j may
  in fact still commit one page.
* The check before a page and the page itself are one step of a refresh.
* Manual, unversioned maintenance (`version=None`), stale duplicate latch nodes, a dump
  published again under the same version and a rollback of `STATS_VERSION`.
* The key space of a sweep does not change while it runs.
* In `Consumers`: `cancel_all_consumers` at shutdown (a restart loses every task),
  `CONSUMER_CANCEL_DELAY = 0`, transport drops that aio_pika repairs by itself,
  dead-lettering, dumps that overlap, a consumer held by an unfinished type across a
  restart, and more than one marker of a kind in flight per type.
* In `BatchSettlement`: `max_pending` (submit never waits; entries of a lost channel count against
  it beside their own redeliveries), an unbounded requeue budget (`max_requeues=None`), the effective batch size, the order of entries within the
  queue, the single-record path with its requeue budget, and more than one type.
* In `Projection`: scalar properties other than name and hash, the derivation of a media block from
  legacy formats, the normalisation of person names and company identities, other providers writing
  at the same time, and the line checkpoint of the backfill (a row applied again changes nothing).
  `SAME_AS` is written but promised by no property: it only matches artists that already exist, and
  a record the hash gate skips is not looked at again.
* Latch nodes with equal or missing `created_at`, and the connection that leaks when `connect()`
  succeeds and `channel()` raises, which changes no other state.
* The Cypher of the statistics steps, telemetry, health and the progress report (observation only),
  and the build tooling.

## Plan

Done: the modules above. What could follow:

1. A composition of `BatchSettlement` and `ExtractionLatch`, so that the records a hold returned
   show in what maintenance finally sweeps.
2. A dump published again under a version already stamped, and the shutdown drain of `main()`.
3. A proof that a dump of `PostImportMaintenance` implements what `CompletionGate` promises of its
   pass, and an abstract specification of a queue that `BatchSettlement` and `Consumers` share.

The number of runs is kept to a dozen, so that the whole project checks in minutes.
