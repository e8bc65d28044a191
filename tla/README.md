# streamledger in TLA+

TLA+ models of the streamledger service (Go, under `src/`), the TLC configurations that
check them on small instances, and TLAPS proofs of the main results. `PROJECT.json` is
the machine-readable index: components, runs, mutants, the map from definitions to
source lines, findings, hazards and theorems.

## The system

streamledger is an event-sourced ledger of account balances and inventory items. gRPC
commands are decided against the replayed state of one or two streams and appended to
an event log with an optimistic version check; two projectors build read models from the
log.

| part | source | state | operations | what is hard | what makes it correct |
|---|---|---|---|---|---|
| ledger rules | `internal/ledger/{events,state,decide,errors}.go` | none (pure) | two folds, six decisions | int64 arithmetic at its limits | a legal history never makes a quantity negative |
| command service | `internal/ledger/service.go` | none between calls; locals of each call | OpenAccount, Deposit, Withdraw, Transfer, AdjustInventory, ReserveStock, ReleaseStock | load, decide and append are separate Store calls; retries; duplicates; publish after commit | commands take effect one at a time on the state they were decided on, a key at most once, answers are true |
| event store contract, in-memory store | `internal/eventstore/eventstore.go`, `memory/store.go` | log, stream versions, global sequence, dedupe entries | Append, LookupDedupe, LoadStream, LoadSince, LatestGlobalSeq | batches are all-or-nothing | versions consecutive, a key has one effect |
| PostgreSQL event store | `internal/eventstore/postgres` | four tables and a sequence | the same | row locks, unique index waits, deadlocks, a sequence drawn before commit | implements the contract; readers by sequence number miss nothing |
| projector and appliers | `internal/projections/*.go` | none | ApplyEvent, CatchUp, Lag | redelivery and polls race; order of delivery | an event applied at most once; views are a fold of the log; eventual consistency |
| read models | `internal/projections/{memory,postgres}` | views, checkpoints | Get/Upsert, checkpoints, WithTx | isolation of check-apply-advance | view and checkpoint move together |
| buses | `internal/bus/inmemory`, `natsbus`, `duplicator.go` | subscriptions; stream and consumer | Publish, Subscribe, Close | loss, duplication, order | at-least-once to every subscriber |
| gRPC server | `internal/grpcserver/server.go` | none | commands, three queries | version convention, lag computed from two reads | errors keep their meaning |
| wiring | `cmd/streamledger/main.go` | tickers, goroutines | run, subscribeAndCatchUp, publisherAdapter | start-up order, restarts | polls go on for the process's life |
| metrics, generated code | `internal/metrics`, `gen` | counters | - | - | - |

How they interact: a gRPC handler goroutine runs one service command; the service calls
the Store (`LookupDedupe`, `LoadStream`, `Append`) and then the publisher. The in-process
bus calls each projector's `ApplyEvent` on that same goroutine; the NATS bus stores the
events in a JetStream stream and calls it on its own goroutines. Independently one ticker
goroutine per projector runs `CatchUp`, which reads the log from the projector's
checkpoint. Queries read the views and checkpoints directly. `buildStorage` pairs the
in-memory event store with the in-memory read model and the PostgreSQL event store with
the PostgreSQL read model; the bus is chosen independently.

## Modules

| module | models | interacts with |
|---|---|---|
| `LedgerRules` | folds and decisions as operators on machine integers of width `IntMax` | extended by all ledger modules |
| `EventStore` | the in-memory store; each method is one step because one mutex covers it | extended by `LedgerService` |
| `LedgerService` | any number of concurrent handlers running the seven commands | composes `EventStore` and `LedgerRules` |
| `AtomicLedger` | abstract: a command decides and writes in one step, a key acts once | implemented by `LedgerService`; the write side of all read-side modules |
| `ReadModel` | the views, the two appliers and `LoadSince` as operators | extended by all read-side modules |
| `AtomicReadModel` | abstract: views and checkpoints change by whole applications of one event | implemented by `PostgresReadModels` for a projector that one worker serves |
| `Projections` | two projectors, the in-memory read model, the in-process bus, the duplicating publisher, the catch-up tickers; the life of one process | composes `AtomicLedger` and the read side |
| `Queries` | clients of GetProjectionLag, GetBalance and GetInventory | extends `Projections` |
| `NatsBus` | publishing, the shared consumer, callbacks, acks and redelivery | replaces the in-process bus of `Projections` |
| `PostgresReadModels` | ApplyEvent as a transaction, statement by statement, for any workers of the two projectors | over `ReadModel` and a log whose appends commit out of order |
| `PostgresStore` | Append as a transaction, statement by statement, and the polling reader | implements `AppendContract` |
| `AppendContract` | abstract: what `eventstore.Store` says of Append: version checks, conflicts, duplicates, all or nothing | implemented by `PostgresStore` |
| `MC...` | instances for TLC | |
| `LedgerRulesProofs` | lemmas about folds, appliers and pages | extends `ReadModel` |
| `LedgerServiceProofs`, `LedgerAnswersProofs` | theorems about the log; about answers and publishing | extend `LedgerService` |
| `PostgresStoreProofs`, `ProjectionsProofs`, `QueriesProofs`, `NatsBusProofs`, `PostgresReadModelsProofs` | theorems about the module of that name | each extends its module; `QueriesProofs` and `NatsBusProofs` also `ProjectionsProofs` |

Operators whose name contains `Mut` are deliberate bugs. Nothing uses them; replacing the
definition that follows by one of them must break the property `PROJECT.json` pairs it
with, which shows that the property depends on the code.

### LedgerRules and EventStore

An event is a record of sequence number, stream, version, type, amount and key. A stream
stands for an (AggregateType, AggregateID) pair. JSON payloads are reduced to the one
number a fold or decision reads; reasons, order ids and timestamps are dropped. `Wrap` is
Go's silent int64 wrap-around. `Fold(s, log)[n]` is `FoldAccount` or `FoldInventory` over
what `LoadStream` returns when the log has its first `n` events. `Validates`, `Produced`
and `AppendWrites` are the three parts of `Append`.

### LedgerService

The state of a handler is the locals of a command: its arguments, the attempt counter,
the states loaded, the appended events and the result. One action per Store call:
`Receive` (entry, including Transfer's same-account test), `Lookup`, `LoadOne` or
`LoadFrom`/`LoadTo` (Transfer loads its two accounts in two calls) each with the decision
that follows it, `AppendDuplicate`, `AppendConflict` (retry or give up), `AppendCommit`,
`Publish`, `Respond`. The six one-stream commands have the same text up to names, so the
actions are shared; the map gives each action the lines of one command that it translates.
The service takes expected versions for stock commands too; the gRPC server never sends
one, and the models keep the service's own interface. `since` is a history field (length
of the log at entry) that the properties need.

With `Faults`, a Store call may fail without effect, the commit may succeed while its
answer is lost, and the process may crash and come back over the same log: what the
PostgreSQL store can do to the service.

A client may send an expected version. `PinAhead` bounds how far it may lie beyond the
stream's current version: 0 means clients only pin versions that exist, the normal use.

### Projections

The write side takes `AtomicLedger` steps, which `LedgerService` is proved to implement.
A writer then publishes its batch: `1 + ExtraDeliveries` rounds, each a sequence of
deliveries to both projectors in one of the two orders of Go's map iteration. Each
delivery is `ApplyEvent`, atomic because `WithTx` holds the read model's mutex. With
`BusOn` false nothing is delivered in process. A poll is `GetCheckpoint`, `LoadBatch`,
then one `CatchUpApply` per event, interleaved with deliveries. `DeliverFails` and
`CatchUpFails` are the faults. This read model exists only together with the in-memory
event store, and both end with the process: a behaviour is the life of one process, and a
restart begins again at `Init`. Crashes over durable storage are in `LedgerService`,
`PostgresStore` and `PostgresReadModels`. The ticker's wait and the `for` loop's next turn are one state, since a poll
that starts at once or later reads the same checkpoint.

### Queries

A client asks for the lag, then reads one view, and starts again. The handler of
`GetProjectionLag` keeps no lock, so its three reads (end of the log, the two checkpoints
in the order of its loop) are three steps; `GetBalance` and `GetInventory` are one read of
one view. `since` is a history field: the length of the log when the client asked.

### NatsBus

`Command`, `ApplyEvent` and the polls are those of `Projections`. A publish
stores one message after the other (`PublishMsg`) and gives up at the first error, whether
or not that message was stored (`PublishFails`). The consumer's state is a cursor
(`sent`), the messages whose ack wait is running (`owed`) and the acknowledged ones. There
is one consumer because `Subscribe` always uses `Options.DurableConsumerName`, and
`cmd/streamledger` leaves it at its default for both projectors; `Send` therefore picks
either callback. A callback runs the handler and then acknowledges: `HandleAck`, or
`HandleAckLost` when the ack does not arrive, or `HandleNak` when the handler failed.
`AckWaitEnds` makes a message available again that nobody holds any more;
`AckWaitTooShort` does so while a callback still holds it. Broker and client library are
external, modelled from the configuration the code passes. The wire format is a record
with the wire's field names, and `toEvent` reads it back.

### PostgresReadModels

A worker is a goroutine that calls `ApplyEvent` for one projector: a `CatchUp` poller
(of this process or of another replica) or a bus subscription, to which any committed
event may be delivered at any time. `GetCheckpoint` and `GetView` are plain SELECTs: they
see what is committed at that moment. `UpsertView` and `SetCheckpoint` wait while another
open transaction has written the row; the view's new value was computed before the wait,
the checkpoint's GREATEST is evaluated after it. `Commit` makes both rows visible.
`Fails` is a rollback for whatever reason, a crash included; `CommitAnswerLost` commits
and then looks like a failure.

The log is the PostgreSQL event store's, the only one this read model is used with. A
`Command` draws its numbers at the end of the log and locks the rows of its streams; its
events stay in flight, unseen by `LoadPage` and undelivered by the bus, until
`CommitAppend`. Appends on different streams may commit in any order. `skipped` is a
history variable: the projectors that have loaded a page past a number in flight. What a
command appends is `AtomicLedger`'s step. Two simplifications: an append draws its numbers
in a row, and appends that are rolled back are left out, since a gap in the numbers is
never noticed (numbers are compared, not counted).

### PostgresStore

PostgreSQL itself is external: waits, the deadlock detector and READ COMMITTED visibility
are modelled from the statements the code sends. `Write` merges the loop body's
statements: only the row lock and the sequence draw are visible to others, and the lock is
held to the end of the transaction. A caller's expected versions are those it read when it
called, so they may be stale once the rows are locked; up to `PinAhead` beyond them; or
absent. A finished call keeps its answer (the events, `duplicate` with the original events,
a version conflict, or another error) until its caller takes it. `Poll` is a projector
that only catches up.

`AppendContract` has one step per outcome that the doc comment of `Append` names, and one
for other errors, of which the comment says nothing: they may come at any time, with the
batch written or not. Under the refinement the store's versions, events and processed keys
are the committed rows, and a call is its arguments until it is answered.

## Runs

All finish within two to three minutes on two cores.

| run | instance | shows |
|---|---|---|
| `accounts` | 2 handlers, 2 accounts, 7 commands, 2 keys (one misused by two commands), 4 calls, 1 retry, faults | `LogIsSerial`, `Solvent`, `OneEffectPerKey`, `AppliedIsInLog`, `RejectionIsJustified`, `ConflictMeansProgress`, `DuplicateIsOriginal`, `PublishedExactlyOnce`, refinement of `AtomicLedger` |
| `stock` | 2 handlers, 1 item, all three inventory commands, no faults, fairness | the same for stock, and `EveryCallEnds`, `EveryEventPublished` |
| `redelivery` | 2 writers, a two-event batch, every publish doubled, 1 fault | `NeverAppliedTwice`, `CheckpointsOnlyAdvance` |
| `queries` | 1 writer, one account and one item, one client, fairness | `ViewIsFoldAtCheckpoint` and `EventuallyConsistent` when delivery follows the log, `LagBoundsStaleness` |
| `pg_append` | 2 transactions, 3 appends, transfers in both directions and a third stream, current, stale, ahead and absent versions, 1 key, faults, fairness | `ImplementsContract`, `VersionsNeverCollide`, `LinksAreComplete`, `SeenInVersionOrder`, `EveryAppendEnds` |
| `pg_views` | a lone poller for one projector, a poller and a subscription for the other, 3 events that commit in any order of their numbers, 1 delivery, 1 fault, fairness | lone projector: `ImplementsReadModel` and, unless a page went past a number in flight, `ViewIsFoldAtCheckpoint` and `EventuallyConsistent`; both: `CheckpointsOnlyAdvance`, `EveryApplyEnds` |
| `nats` | 2 writers, 2 events, 2 faults, fairness | `NeverAppliedTwice`, `AckedIsHandled`, `EveryMessageSettles`, `LagSettles` |
| `pin_ahead`, `stranded`, `pg_late_commit`, `pg_double_apply`, `nats_shared` | minimal | the findings below |

What the read-side properties mean together: `EventuallyConsistent` is checked where the
events reach a projector in log order (`queries`), and over PostgreSQL for a projector
that only polls and whose pages went past no number in flight (`pg_views`). The exception
is real: `pg_late_commit` shows a poll that misses an event for good. With several writers,
or through NATS, only `LagSettles` is left: the checkpoints reach the end of the log, and
the views may still miss events (`stranded`).

Bounds. Four calls with one retry are enough for an open, a lost attempt, a second lost
attempt that exhausts the budget, and a transfer racing its own copy. `IntMax` of 3 or 4
makes overflow reachable within those calls (`Solvent` excludes it explicitly). Two
writers suffice for out-of-order publishing, and pages of two split the four-event logs
of `redelivery` and `queries` into several pages. Two transactions suffice for every
pairwise lock conflict on the event store and two workers for every pairwise race on a
projector's rows; longer lock cycles are not covered. Two faults in `nats` allow a lost
ack followed by another, or a nack followed by an early timeout. In `pg_append` a
`PinAhead` of 1 lets an append conflict, or succeed only because another one committed
first; the third stream gives it something that conflicts with neither transfer. In
`pg_views` two of the three events are on one stream, so their appends exclude each other,
and the third overtakes them or is overtaken. The theorems remove all
bounds for the safety properties; they matter for the liveness properties only.

`CHECK_DEADLOCK FALSE` appears where clients may stop calling; the projector runs check
deadlock because the tickers never stop.

Symmetry (interchangeable handlers or writers) is used only in runs without liveness
properties.

Fairness. `LedgerService`: weak fairness of each handler's own steps, since a goroutine
whose call is not blocked is eventually scheduled; clients and faults need not act.
`Projections`: weak fairness of each publishing goroutine and of each poll, since the
ticker fires for the life of the process. `PostgresStore`: weak fairness of each session
(waiting sessions are not enabled, and the deadlock detector is one of the steps) and of
the poller. `EveryAppendEnds` relies on the number of appends being finite; PostgreSQL
queues lock waiters, so this is not where the code could starve. The same holds for
`EveryApplyEnds`. `PostgresReadModels`: weak fairness of each worker; deliveries and
faults need not happen; an append that has drawn its numbers commits, since Append's
remaining statements wait for nothing but locks that are released. `NatsBus`: weak fairness of each publishing goroutine, callback
and poller, and of the broker, which goes on handing out what is neither acknowledged nor
owed (`MaxDeliver: -1`). The number of faults is finite in every liveness run.

## Findings

1. **A poll never returns to an event that was overtaken** (`stranded`). `ApplyEvent`
   takes any sequence number above the checkpoint. Two handlers publish after the store's
   lock is released, in either order, so the later event may arrive first; the earlier one
   is then a "duplicate", and `CatchUp` starts after it. A delivery that fails followed by
   one that succeeds has the same effect. `projector.go` and `main.go` say that polling
   repairs lost messages; it does so only if no later event is delivered before the poll.
2. **Sequence numbers commit out of order** (`pg_late_commit`). The BIGSERIAL value is
   drawn before the commit, so even a pure poller skips an event of another stream that
   commits late. By `PolledViewsFollowTheLog` this is the only way polling goes wrong.
3. **The PostgreSQL read model counts an event twice** (`pg_double_apply`). The checkpoint
   is read without `FOR UPDATE`, so a poll and a delivery of the same event can both pass
   the duplicate check; if the second reads the view after the first has committed, it
   adds the event again. `projections.go` and `projector.go` say that the transaction
   excludes this. With one worker for a projector it does (`pg_views`).
4. **A version pinned ahead of the load** (`pin_ahead`). Withdraw decides on what it
   loaded but appends with the client's version; if the stream reaches it in between, a
   withdrawal decided on an older balance commits and the balance goes negative.
5. **Two projectors share one NATS consumer** (`nats_shared`). Each message reaches the
   handler of one of them, against `bus.Subscriber`'s at-least-once; the other depends on
   its polls, and skips the event for good if a later message reaches it first (finding 1).

Three smaller ones have no run of their own:

* Credits are unbounded: a deposit past the largest int64 wraps the balance to a negative
  number. `pin_ahead.cfg` with `IntMax = 1` and `PinAhead = 0` shows it; `Solvent` and the
  theorem about it exclude it explicitly.
* A concurrent copy of a keyed Append on PostgreSQL gets a unique violation instead of
  `duplicate=true`: `InsertKey` waits for the first copy and then fails. The contract lets
  Append fail with an error of the database at any time, so `ImplementsContract` allows
  it; the failed copy writes nothing, and a later retry gets the original events.
* A copy of a keyed command that misses the lookup while its twin commits decides on the
  changed state and may be answered with a business error, though its key took effect. The
  error was true while the call was in progress (`RejectionIsJustified`).

## Proofs

Every invariant and action property of the passing runs, and all three refinements, are
also theorems: they hold for every set of handlers, commands, streams, transactions,
workers and keys, every retry budget, page size and integer width, and any number of
calls, deliveries and faults.

| module | theorem | statement | hypothesis |
|---|---|---|---|
| `LedgerServiceProofs` | `TypeCorrect` | `[]TypeOK` | |
| | `SerialLog` | `[]LogIsSerial` | `PinAhead = 0` |
| | `Solvency` | `[]Solvent` | `PinAhead = 0` |
| | `Linearizable` | `ImplementsAtomicLedger` | `PinAhead = 0` |
| | `Idempotent` | `[]OneEffectPerKey` | |
| `LedgerAnswersProofs` | `AppliedAnswers` | `[]AppliedIsInLog` | |
| | `DuplicateAnswers` | `[]DuplicateIsOriginal` | |
| | `JustRejections` | `[]RejectionIsJustified` | |
| | `LockFree` | `[]ConflictMeansProgress` | `PinAhead = 0` |
| | `PublishedOnce` | `[]PublishedExactlyOnce` | |
| `PostgresStoreProofs` | `StoreTypes` | `[]TypeOK` | |
| | `UniqueVersions` | `[]VersionsNeverCollide` | |
| | `CompleteLinks` | `[]LinksAreComplete` | |
| | `PollInVersionOrder` | `SeenInVersionOrder` | |
| | `AppendIsAtomic` | `ImplementsContract` | |
| `ProjectionsProofs` | `ReadTypes` | `[]TypeOK` | |
| | `EffectivelyOnce` | `[]NeverAppliedTwice` | |
| | `ViewAndCheckpointTogether` | `CheckpointsOnlyAdvance` | |
| | `ViewsFollowTheLog` | `[]ViewIsFoldAtCheckpoint` | `InOrder` |
| `QueriesProofs` | `LagIsABound` | `[]LagBoundsStaleness` | `InOrder` |
| | `QueriedViewsFollowTheLog` | `[]ViewIsFoldAtCheckpoint` | `InOrder` |
| `NatsBusProofs` | `BrokerTypes` | `[]NatsTypeOK` | |
| | `HandledBeforeAcked` | `[]AckedIsHandled` | |
| | `EffectivelyOnceOverNats` | `[]NeverAppliedTwice` | |
| | `RedeliveryLeavesNoTrace` | `CheckpointsOnlyAdvance` | |
| `PostgresReadModelsProofs` | `TableTypes` | `[]TypeOK` | |
| | `CheckpointsRise` | `CheckpointsOnlyAdvance` | |
| | `ApplyIsAtomic` | `ImplementsReadModel` | |
| | `PolledViewsFollowTheLog` | `[]ViewIsFoldAtCheckpoint` | `Polled` |

The three hypotheses are the conditions under which the code keeps the promise, and the
findings show that each is needed:

* `PinAhead = 0`: clients pin only versions that exist (finding 4).
* `InOrder`: there is no in-process bus, with any number of writers and failed polls; or there is one, with a single writer and no failures, and redelivery as often as
  it likes. Otherwise a delivery may overtake another (finding 1).
* `Polled`: a projector with a single worker is served by a poller. A lone subscription
  may be handed a later event first (finding 1 again).

The properties themselves say where else something is excluded: `Solvent` a log without
overflow, `DuplicateIsOriginal` a key that stands for one command, `ImplementsReadModel`
and `ViewIsFoldAtCheckpoint` over PostgreSQL the projectors that one worker serves
(finding 3), the latter also projectors that have loaded a page past a number in flight
(finding 2).

Assumptions on constants: accounts and items are disjoint, `Streams` is their union,
`IntMax`, `MaxRetries` and page sizes are positive, commands are well formed (an account
command names an account), `NoKey` is not a key, a batch is not empty, every worker serves
a projector, and a view's row is not a checkpoint's row. All are `ASSUME`s that TLC
evaluates.

### The log

`LogIsSerial` is not inductive: an append is legal only because the state it was decided
on is still the state of the stream. `SerialInv` adds `StoreConsistent` (sequence numbers
are positions, the version map agrees with the replay) and, for each handler,
`HandlerConsistent`: what it loaded is a `Snapshot`, a past state whose version is at most
the present one, and which *is* the present state if the versions are equal; and what it
is about to append was decided on that snapshot. A successful version check then turns the
snapshot into the present, which makes the new event legal. Appending to one stream keeps
snapshots of others (`FoldAppend`, `FoldPrefix` in `LedgerRulesProofs`: replaying a longer
log agrees on its prefix), and makes older snapshots of the same stream strictly older.
`Solvency` follows from `LegalKeepsNonNegative` by descent on log positions
(`SerialLogIsSolvent`). `Linearizable` reuses `SerialInv`: `AppendCommit` and
`AppendAckLost` are `Execute` steps, everything else stutters.

### Answers and publishing

An answer is given several steps after the moment it is about. `AnswersInv` says what a
handler knows meanwhile: the state it loaded is one the stream has had since the call came
in (which makes a refusal just), what it is about to publish is in the log under its
command, and each dedupe entry was written for one command that carries the key. All of it
is stable because the log only grows, so no assumption on pins is needed. `ProgressInv`
strengthens `ConflictMeansProgress` by the attempt in progress: if a loaded stream has
moved (`Overtaken`), one more append than lost attempts has happened. `PublishInv` says
that the numbers published and the numbers each handler holds are pairwise disjoint;
without faults they cover the log.

### The PostgreSQL event store

`StoreInv` describes the uncommitted events: those a transaction has written carry exactly
the versions between the committed row and the one it sees (`TxConsistent`), two
transactions never write the same stream (`LocksExclude`) or the same key (`KeysExclude`),
and along a stream, committed or not, sequence numbers grow with versions
(`SeqsFollowVersions`). The last is what makes a poll by sequence number meet each stream
in order.

`CallsInv` adds what the contract needs: each event written so far passed its version check
and would pass it now (`WritesChecked`), because the row it was checked against is locked;
and a call shows no answer before its end. The step that decides a call maps to the
contract's: a commit, its answer lost or not, to `Writes`, with every expected version
matching the committed rows of that moment; finding the key to `Duplicate`, where
`LinksMatchLog` makes the linked events those of the key; a version conflict to
`Conflict`; every other error to `Fails`. The conflict is the delicate one: the row that
does not match is committed and unlocked, and the key that was not there at `InsertKey` is
still not there, since the transaction holds it. All other steps stutter.

### The projectors

`ReadInv`: what a publish or a poll still has to hand over is in the log, a poll's starting
point is behind the checkpoint, and the applied numbers grow and are at most the
checkpoint. `ViewInv` (for `InOrder`) adds that every event about to be handed over is an
old one, the next one, or preceded by its predecessor from the same source; so `ApplyEvent`
never skips (`ApplyNextKeepsFold`: the applier and the command side's fold do the same,
`ApplyViewIsApply`). `LoadSinceIsNext` says that a page is the run of events after its
starting point. `QueriesInv` keeps "end of log minus lag is at most the checkpoint" while
the three reads of a lag query are spread over time. `NatsInv` adds to `ReadInv` that the
stream's messages decode to events of the log and that an acknowledged message has been
through a handler, whose checkpoint covers it.

### The PostgreSQL read model

`TxInv`: a transaction holds locked exactly the rows it has written, no row is locked
twice, and a checkpoint about to be committed is not below the present one. The last is
preserved because the row is locked, and it is why checkpoints rise for any number of
workers. `SoloInv`: for a projector with one worker, the checkpoint and the view it read
are still the committed ones when it commits; no other transaction touches its rows. The
commit is then the `ApplyEvent` of `AtomicReadModel`, and every other step stutters.
`FoldInv` (for `Polled`): unless the projector is in `skipped`, the page in progress
continues where the checkpoint is. `PageOfLog` is the step from what a SELECT sees to that:
by induction over the log, the events collected so far are either the run that follows the
checkpoint, or some number in flight lies before the last of them.

### Only model-checked

Liveness: `EveryCallEnds`, `EveryEventPublished`, `EveryAppendEnds`, `EveryApplyEnds`,
`EveryMessageSettles`, `LagSettles` and `EventuallyConsistent`. They rest on fairness,
which is outside the prover's reach. The inductive invariants were checked with TLC on the
same instances before they were proved.

## Not modelled

* gRPC error codes, field checks and protobuf mapping: stateless conversions of one answer.
* Connecting, migrating, flags, listeners and shutdown: I/O that happens once, before the
  first or after the last command. `Subscribe` and `Close` of the in-process bus likewise.
* A restart of the in-memory configuration: log and read model are gone together, and the
  models of it end with the process. With `-storage=memory -bus=nats` the stream outlives
  the log; that hazard is listed in `PROJECT.json`.
* The duplicate window of JetStream: an event is published once, by the handler that
  appended it, so the window has nothing to drop.
* Metrics (write-only counters no decision reads) and generated code.

## Plan

1. One model of `PostgresStore`'s transactions and the read-model transactions together, in
   which the numbers in flight come from Append's own statements.
2. Theorems: what is left of `ViewIsFoldAtCheckpoint` when deliveries do overtake each
   other: each view is a fold of the events its projector applied.
