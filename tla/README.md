# Verification of the event-sourced core banking service

TLA+ models of the service in `src/`, from the command to the read model, the
TLC runs that check them, and TLAPS proofs of the properties that matter most.  Paths below
are relative to `src/src/` unless they start with `docs/`.

## The system

A NestJS service keeps bank accounts and internal transfers as event streams
in Postgres.  Several instances of it may run against one database.

| Component | State it keeps | Operations | Hard behaviour |
|---|---|---|---|
| Money (`common/money`) | – | parse, format | sign, precision, two-digit scale |
| Account aggregate (`modules/accounts/domain/account.aggregate.ts`) | status, currency, balance, version | create, deposit, withdraw, freeze; `when` | guards are checked on a loaded copy |
| Account write path (`account.repository.ts`, event store, snapshot store) | `events`, `snapshots`; per process `accountLocks` | `executeWithRetry`: lock, load, run, append, snapshot | races between processes, retry limit, failed and in-doubt database calls, crashes |
| Transfer aggregate (`transfer.aggregate.ts`) | status, failure stage | initiate, three starts, three advances, fail | stale callers |
| Transfer coordinator (`transfer-coordinator.service.ts`) with its command handlers | none of its own; polls `transfer_summary` | poll, process one leg per transfer | several coordinators, crashes between any two awaits |
| Transaction registry (`infrastructure/transactions`) | `transaction_records.status` | reserve, run, mark completed or failed | orphaned and misclassified records |
| Idempotency service (`infrastructure/idempotency`) | `idempotency_records` | reserve, replay the answer, complete or fail | concurrent retries, crash while in progress, lost replies |
| Outbox and publisher (`infrastructure/outbox`), Kafka | `outbox_events`, the topics | claim, send, mark published or failed | several publishers, duplicate and reordered messages, rows left claimed |
| Consumers (`infrastructure/projections/*-consumer.service.ts`) | offset of the consumer group | project the next message | redelivery after a failure or a rebalance |
| Account projector (`account-projector.service.ts`) and read model | `account_summary`, `account_statement` | project one event, reset | gaps, two writes per event, concurrent workers |
| Transfer projector (`transfer-projector.service.ts`) and read model | `transfer_summary` | project one event, reset; list pending | guarded by timestamps of several clocks |
| Projection runner (`projection-runner.service.ts`) | – | rebuild an account, a transfer, everything | rebuilding against live consumers, aborted rebuilds |
| Projection coordination (`projection-coordination.service.ts`) | a counter, two flags, a promise chain, waiters | `runShared`, `runExclusive` | conditions tested one microtask before they are acted on |
| HTTP controllers (`modules/*/*.controller.ts`) | – | the account and transfer commands, reads | clients retry and reuse keys and transaction ids |
| Migrations, observability, in-memory stores, wiring | – | – | no core logic of their own |

How they interact.  A controller runs a money command through the idempotency
service and the transaction registry; the command handler calls
`AccountRepository.executeWithRetry`, which appends the event and its outbox
row in one database transaction.  The publisher sends outbox rows to Kafka, the
consumers project them into read models.  The coordinator polls the transfer
read model, drives each pending transfer by transfer commands (on its stream)
and account commands (through the registry), and learns nothing except by
reading.

What makes each part correct:

- account: never overdrawn; loading is replaying; commands are atomic, take
  effect at most once and are answered truthfully; the mutex strands nobody;
- transfer: each leg moves money at most once; the status says where the money
  is; ends are final; every accepted transfer reaches an end;
- registry: a record serialises the attempts at a leg and never blocks a leg
  for good unless it was decided;
- idempotency: a retry gets the original answer, "accepted" means done, and a
  transaction id moves money at most once under whatever key;
- outbox: no event is lost, no row is worked by two publishers, nothing is sent
  that was not committed;
- projections: whatever order and number the messages come in, a row shows a
  state the aggregate had and never goes back; in-order messages are caught up
  with;
- coordination: rebuilds exclude each other and live projections, and nobody
  waits forever.

`PROJECT.json` lists the components, the hazards with the line where each bites,
and for every definition the source lines it models.

## Modules

| Module | Models |
|---|---|
| `Money` | `money.ts`: a decimal is its sign, whole part and two fraction digits |
| `AccountAggregate` | the guards (`DomainError`), events (`MakeEvent`) and event handler (`When`) of an account, as operators |
| `AccountLedger` | abstract: accounts on which commands happen in one step, at most once, and are answered truthfully |
| `AccountRepository` | the account write path, one step per await |
| `TransferAggregate` | the transfer status machine, as operators |
| `MoneyTransfer` | abstract: money leaves the source, then arrives or comes back |
| `TransferSaga` | coordinators, registry, transfers and accounts together |
| `CommandApi` | the way of a request through the controller, the idempotency service and the registry to the account |
| `Topic` | abstract: streams that grow, and a topic of committed events in any order and number |
| `OutboxRelay` | the outbox rows and the publisher loops; implements `Topic` |
| `ProjectionFeed` | how events reach a projector: one partition of the topic, the consumer group, rebuilds |
| `AccountProjection` | `ProjectionFeed` with the account projector and its two tables |
| `TransferProjection` | `ProjectionFeed` with the transfer projector and its table |
| `ProjectionCoordination` | the exclusion of rebuilds and live projections in one process, on the microtask queue |
| `MC*` | the values of the constants for TLC |
| `*Proofs` | TLAPS proofs about the module of that name; those about `ProjectionCoordination` are the last part of `AccountProjectionProofs` |

### AccountRepository

`streams` is the `events` table, `snapshots` the `snapshots` table,
`accountLocks` the map of promises in each process.  A command waits on the
promise it found in the map (`prev`); `released` holds the promises that are
resolved.  `pc` says between which two awaits a command is:

    new -> queued -> snapshot -> read -> replay -> append -> [saveSnapshot] -> release -> done
                        ^                            |
                        +------- version conflict ---+

`Submit`, `Acquire` and `Release` are `withAccountLock`; `ReadSnapshot`,
`ReadStream` and `Replay` are `getById`; `Execute` is the operation on the
aggregate; `AppendCommits`, `AppendConflicts` and `SaveSnapshot` are `save` and
the two ways `append` ends.  `QueryFails` is a database call that fails with no
effect, `CommitReplyLost` a COMMIT that took effect and failed all the same,
`Crash` the death of a process.  `history` and `since` are auxiliary: the state
after each prefix of a stream, and the length of the stream when a command got
its lock.

Rows of a stream never change, so the result of a read is the version of its
last row.  A unique key on stream and version backs the version check inside
the append transaction; the two together are one atomic compare-and-append.
Event ids, owners, timestamps and outbox payloads are left out.

### TransferSaga

`transfer` and `account` are what the streams replay to, `registry` the status
of the transaction record of each leg, `summary` the projected status, which
lags.  `pc`, `batch`, `job`, `leg` and `err` are the locals of each coordinator.
One action per awaited call: `Poll`, `Load`, `Reload`, `Start`, `Reserve`,
`Handler`, `MarkCompleted`, `MarkFailed`, `Advance`, `FailTransfer`.
`CallFails` and `ReplyLost` are the two ways a call can fail, at each of those
points, and `Crash` restarts the loop of an instance.

Account and transfer commands are one step each.  For accounts that is what
`AccountRepository` shows (`ImplementsLedger`); the transfer repository runs the
same loop without snapshots.  A conflict that outlasts the attempts is a failed
call.  All accounts and transfers of a model use one currency: the
initiation handler has checked that, and currencies never change.

`summary` lags, and for the transfers in `Unreliable` it may do worse.  `LoseEvent`: the
newest event is never projected, because the publisher that had claimed its outbox row
died or lost track of it (`abandoned` in `OutboxRelay`), or because the rebuild that was
to project it was aborted; `lost` remembers it.  A later event is projected all the
same if the transfer has a row, and makes the projector throw if it has none
(`Arrives`).  `RebuildTransfer` deletes the row and lets everything be projected
again.  Between those the status moves forward, which `TransferProjection` shows for
clocks that increase along a stream (`StatusNeverBack`).  Transfers do not block each
other here: that a message the projector throws at stops its whole partition is in
`ProjectionFeed`.  `listPendingTransfers` is modelled without its limit of 50.

### CommandApi

`keys` is `idempotency_records`, `registry` is `transaction_records`, each with
the request it was made for; `account` is what the streams replay to.  Every
HTTP request, a retry too, is a process of its own: requests share nothing in
memory on this path, so it does not matter which instance handles which.
`ReserveKey` is `IdempotencyService.execute` up to its handler (the failed INSERT
and the SELECT after it are one step, since records are never deleted),
`ReserveTransaction` the same of `TransactionRegistryService.execute`, `Handler`
the account command, `CompleteTransaction`, `FailTransaction`, `CompleteKey` and
`FailKey` the ends of the two try blocks.  A request hash is the request itself;
the stored response is always "accepted".  `CallFails`, `ReplyLost` and `Crash`
are as in the saga.  `committed` is auxiliary.

The account command is one step, as in the saga.  The coordinator's use of the
registry, with retryable errors, is modelled in `TransferSaga` only.

### Topic and OutboxRelay

`version` and `store` are the event store: how far each stream has come, and the
events in the order of their sequence number, which is drawn before the commit
and so may lie before numbers already visible.  `log` is the topic.  `outbox`,
`published` and `claimed` are the rows of `outbox_events` and which of them have
`published_at` and `processing_started_at` set.  `AppendEvent` is the append
transaction, event and row together.  One action per awaited call of `runLoop`:
`Claim`, `Publish`, `MarkPublished`, `MarkFailed`; each has its failing form, with
the call's effect or without (`ClaimReplyLost`, `PublishFails`,
`MarkPublishedFails`, `MarkFailedFails`), and `ProducerRetries` is a second copy
written by the Kafka producer.  The UPDATE that claims rows returns them in no
particular order, so a batch is a set.  `abandoned` is auxiliary: rows that are
claimed while no loop knows of them any more.

### ProjectionFeed, AccountProjection, TransferProjection

The environment of a projector is `Topic`, which `OutboxRelay` is proved to
implement: committed events, any order, any number of copies.  Workers are the
consumers of the group and the processes that rebuild.  `owner` is the member the
partition is assigned to, `pos` how far in it each member is.  `Rebalance` lets another
member begin at any offset that may be committed; a former owner that is handling a
message goes on in the batch it has fetched, up to any message of it (`fetched`).  One
that is between two messages is not different: taking the next one touches nothing
shared, so the rebalance may as well come after it.  `pc` and `msg` say
where each worker is with which event: `read` (the summary), `upsert`, `append`
(the statement entry).  `StartRebuild` is the reset, `ReadEvents` the query for
the stream or the next page of everything, `Advance` and `Throw` the two ways
`project` ends.  A full rebuild projects both kinds of events; each module follows
the ones its projector does not ignore.

`AccountProjection` keeps of a summary what the aggregate has (`summary`), of a
statement the versions that have an entry.  `torn` is auxiliary: versions whose
entry nobody will write.  `TransferProjection` keeps status, failure stage, the
legs whose transaction id is set and `updated_at`; `clock` is `occurredAt` of
every event, any assignment in `Clocks`.  `disturbed` is auxiliary: a rebuild has run
while another worker was at work, or a rebuild of everything has been overtaken by a
commit at a lower position (`Overlapping`, `Overtaken`).

### ProjectionCoordination

JavaScript runs one continuation at a time, and `await` puts the rest of the
function at the end of the microtask queue even when there is nothing to wait
for.  `micro` is that queue, `waiters` is `waitingResolvers`, `exclusiveQueue` the
chain of promises.  `CallShared`, `EnterShared` and `FinishShared` are
`runShared` cut at its awaits, `CallExclusive`, `TakeTurn`, `EnterExclusive` and
`FinishExclusive` are `runExclusive`, and `Retest` a turn of the loop in
`waitUntil`.  Messages, requests and the results of queries come when the
microtask queue is empty.  `behind` is auxiliary.

## What the runs check

| Run | Result | Instance |
|---|---|---|
| `account_concurrency` | passes | 4 commands, 2 processes, 1 account, snapshot every 2 events, 2 attempts |
| `account_faults` | passes | 3 commands, 2 processes, 2 failing calls of any kind, 1 crash, 3 attempts; with liveness |
| `saga_contention` | passes | 2 coordinators, 2 transfers competing for one balance, a destination that may be frozen; with liveness |
| `saga_faults` | passes | 2 coordinators, failing calls, lost replies and a crash; with liveness |
| `saga_crash`, `saga_transient` | violation | one crash; one transient failure |
| `api_retries` | passes | 3 requests, every mix of 3 keys and 4 commands, 2 faults, 1 crash |
| `outbox_relay` | passes | 2 publishers, 2 streams with 3 events, batches of 2, 2 failing calls, 1 crash; with liveness |
| `account_projection` | passes | 1 account with 3 events, 3 messages in any order, 2 consumers, 1 rebuilder, 2 disruptions; with liveness |
| `transfer_projection` | passes | the same for a transfer, under two assignments of clocks; with liveness |
| `projection_coordination` | passes | 3 consumers, 3 rebuilds; with liveness |
| `coordination_overlap` | violation | the same, fewer tasks |

Account properties.  `NoOverdraft`: no prefix of a stream replays to a negative
balance.  `LoadIsReplay`: snapshot plus tail is the replay of the whole stream.
`NoSelfConflict`: a version conflict always comes from another process.
`ConflictNeedsProgress`: a 409 means that other commands were committed for
every attempt.  `RejectionJustified`: a domain error was true of a state the
account had while the command held its lock.  `LocksBounded`: the lock map holds
no entry of a finished request.  `EveryRequestAnswered`: no waiter is stranded.
`ImplementsLedger`: the write path refines `AccountLedger`.  Both account runs check
the refinement; the lock map and liveness are left to `account_faults`, the others
to `account_concurrency`.

Saga properties.  `LegAtMostOnce`, `OutcomeMatchesMoney`, `SettledIsFinal`,
`ImplementsMoneyTransfer` (refinement of `MoneyTransfer`, in particular money is
conserved), `EveryTransferSettles` and, with faults, `SettlesUnlessPoisoned`: a
transfer settles unless the registry blocks the leg it needs next (`Poisoned`) or it
stays without a row (`Unlisted`: its `TransferInitiated` was lost, or a rebuild was
aborted before it came to it, and no further rebuild followed).  The loss of any later
event, a rebuild that runs through, and failures everywhere else are made up for by the next poll.
The first four are proved for any number of transfers; TLC checks the first three in
`saga_faults` and the refinement in both runs.  Type invariants that are proved for every
instance are not all checked again by TLC.

Command path properties.  `MovementAtMostOnce`: no two requests with one
transaction id are both committed.  `AcceptedIsDone`: who is told "accepted", by
the handler or from a record, asked for something that was done.
`RejectionIsFinal`: after a domain error, no request with that transaction id
moves money.  `RetryGetsOriginal`: once the request that ran the command was told
"accepted", so is every retry, unless a call fails.  `InProgressIsTrue`: "in progress" is said only
while another request with that key or transaction id runs, or after it ended in
a crash or an error.  The exception is real: nothing ever closes the record of a
crashed request, so its retries are told "in progress" for good.

Outbox properties.  `ClaimExclusive`: no row is in two publishers' batches.
`NothingLost`: a committed event is in the topic or its row is still to be
published.  `SentOnceWithoutFaults`: until a call fails every event is sent once,
crashes included.  `PublishedUnlessAbandoned`: every event is published in the
end, except rows a publisher had claimed when it died or lost track of them.
`ImplementsTopic`: the relay refines `Topic`.

Projection properties.  `SummaryIsReplay`: a summary row is what the aggregate
replays to at the row's version.  `VersionNeverBack`: only a reset takes a row
away.  `EntryMissingOnlyIfTorn`: an entry is missing only if a call failed between
the two writes, or the tables were reset while a worker held an older summary.
`RebuildMeetsNoGap`: the rebuild of one account never fails on the order of
events, whatever the consumers do meanwhile, as long as no second rebuild resets
the row under it and the account was created before anything else happened to it.
`CatchesUp`: once messages, failures, rebalances and rebuilds have stopped coming, the
summaries show all the topic holds and go on doing so, provided that the messages of a
stream come in order and no rebuild was aborted; without either, the partition stops at
a gap until the next rebuild, and nothing in the code prevents that.

Of a transfer row less is certain, which is what the missing version check costs.
`HandledShows`: what a consumer has handled shows, as itself or as an event of a later
time, or a rebuild under way is about to bring it back; it needs only that no rebuild is
aborted.  `StatusNeverBack`: only the reset that begins a rebuild takes a shown status
away, and any other step leaves it or goes on to a later one; it needs clocks that
increase along a stream.  After a reset the statuses are shown once more from INITIATED
on.  `RowIsReplay`: a row is what the aggregate replays to at the version whose time it
bears, with the transaction ids of all legs started by then; it needs in-order messages,
increasing clocks and rebuilds that ran to their end, alone and not overtaken.
`CatchesUp` needs only that `TransferInitiated` comes first and no rebuild is aborted,
but with clocks that do not increase it promises no more than a row of the event's time
or a later one: in the run's second assignment of clocks the last event of the stream
bears an earlier time than the one before it, and its status may never be shown.

Coordination properties.  `RebuildsAreSerial`: no two rebuilds at work together.
`FirstRebuildAlone`: a rebuild that found no other one before it runs with no live
projection.  `EveryoneGetsToWork`: no wake-up is lost.

The violations are disagreements between the code and what it says of itself:

- a crash in a leg leaves its record PENDING, and the registry refuses the retry
  that `docs/spec/spec-004.md` describes;
- a transient failure in a leg is recorded as FAILED_TERMINAL, which that
  document says must not happen;
- when a rebuild ends with a projection waiting and another rebuild queued, both
  tests pass before either enters, and the second rebuild runs beside the
  projection although the log says "Live projections paused".

Other disagreements the models show, without a run of their own:

- `freeze` does not test that the account exists, so `AccountFrozen` can be the
  first event, and the projector, which expects `AccountCreated` at version 1,
  never gets past it;
- a failing snapshot INSERT fails a command that was committed, although
  "snapshots are a performance optimization only";
- a compensation into an account frozen meanwhile never ends
  (`SettlesUnlessPoisoned` excepts it);
- when the reply of `markCompleted` is lost the catch block overwrites COMPLETED
  with FAILED, so after one retry was told "accepted" the next one is refused;
- rows a publisher had claimed when it died are never published, and no restart
  claims them again (`PublishedUnlessAbandoned` excepts them); a transfer whose
  `TransferInitiated` is among them never gets a row, so no coordinator ever polls it
  (`SettlesUnlessPoisoned` excepts it);
- coordinators see a transfer only through its row, and a rebuild that is aborted after
  its reset leaves none until the next rebuild;
- the transfer table drops an event whose `occurredAt` is before the row's, so when the
  clocks of two instances disagree a status can be missing for good
  (the status part of `CatchesUp` excepts it);
- a rebuild run by the script is not coordinated with the consumers of running
  instances; the account tables survive that (`SummaryIsReplay`), the transfer
  table may not (`RowIsReplay` excepts it);
- `readAll` pages by position, and a commit may get a position behind the last page: a
  rebuild of everything then projects the later events of that transfer over a row
  that lacks the earlier one, so the transaction id of a leg is missing until the next
  rebuild (`RowIsReplay` excepts it; account rows are not affected, because a gap
  makes their projector throw).

### Bounds

Four commands on one account are enough for a waiter behind a holder in one
process while another process writes, for both attempts of a command to lose,
and for a snapshot to be taken while another load is between its two reads.
Accounts do not interact in the write path, so one is enough.  Two transfers and
two coordinators are enough for two stale readers of one leg, for one transfer
to take the other's funds, and for a batch of more than one.  Three requests on
the command path are enough for a rejected withdrawal, a deposit that would make
it possible and the retry, each under its own key; the four commands hold one
transaction id used for two different movements, and one command without any.
Requests and keys are symmetric (safety properties only).  Three events of two
streams and batches of two are enough for two publishers to hold consecutive
events of one stream, for a batch that is cut short in the middle, and for a row
that is sent again after its successor.  Three events and three messages are
enough for a redelivery, a gap and a reordering, with a former owner of the
partition, the present one and a rebuild each holding a different summary; one
stream, because projections of different streams share nothing but the partition
and the pages of `readAll` (the proofs cover any number).  `MaxDisruptions` counts
failing calls, rebalances and rebuilds together, `MaxFaults` of the saga failing calls,
lost replies, lost events and rebuilds; the transfer of `saga_faults` is `Unreliable`.
Three rebuilds are enough for
one to be queued behind a queued one.  `MaxFaults`, `MaxCrashes`
and `MaxDisruptions` bound only how often the environment misbehaves; the proofs
hold for any value.  The numbers of commands and transfers bound the executions; no
counter of the code is cut off.

Deadlock checking is on in every run: publishers, consumers and coordinators can
always poll, tasks can always be called, and the account and command path runs
end in a self-loop.

### Fairness

Weak fairness on each command's or coordinator's own next step: the event loop runs
every continuation whose promise is resolved, and database calls return (a call
that fails is a fault step, never owed).  Weak fairness on `ProjectTransfer` in the
saga: every committed event that is not lost is eventually projected, if the projector
accepts it; `PublishedUnlessAbandoned` and `CatchesUp` say under which conditions the
pipeline delivers that, and `LoseEvent` is where they fail.  Weak
fairness on each publisher's loop: `runLoop` ends only with the process.  A process that died need
not come back: with one crash the other publisher goes on, and
`PublishedUnlessAbandoned` needs no more than that.  Weak fairness on each consumer:
kafkajs polls, and hands a message whose handler threw out again; on a rebuild
that was begun.  In the coordination: the event loop runs the microtask queue, and
projections and rebuilds end, by returning or throwing.  Commits, sends,
requests, rebuilds, freezes, faults and crashes are not fair.

## What is proved

All theorems hold for every value of the constants the `ASSUME`s allow: any
numbers of accounts, commands, processes, transfers, coordinators, publishers,
consumers, rebuilds, events, faults and crashes, any snapshot interval, retry
limit and batch size.

`AccountAggregateProofs`: `MoneyRoundTrip` (parsing undoes formatting), and the
lemmas that events and states are well typed and that an accepted operation
never makes a balance negative.

`AccountRepositoryProofs`: all safety properties of the write path and its
refinement.  First `Spec => []TypeOK`, `Spec => []NoOverdraft` and
`Spec => []LoadIsReplay`.  `NoOverdraft` is not inductive: a withdrawal is checked
on a loaded copy.  `IInv` adds that a history is one unbroken replay from the
new account (`HistoryOK`), that snapshots and loaded aggregates are points of it
(`SnapshotsOK`, `AggregateOK`), that a read never went beyond the stream
(`ReplayOK`), and that a command about to append was accepted by the aggregate
it appends from (`AppendOK`).  The version check then makes that aggregate the
end of the history, and `GuardedNonNegative` applies.  The mutex plays no part:
the safety of the money rests on the version check alone.

What callers see does need the mutex.  `LocksBounded` and mutual exclusion are not
inductive, because a lock is a chain of promises, each awaiting the one registered
before it.  `MutexOK` therefore says that there is a ranking of the requests in
which the last of the map ranks highest and whoever is not lowest awaits the one
right below (`Chain`); a new request gets the next rank, a release takes away the
lowest.  From it follows that two requests on one lock are never both free
(`OneFree`).  `FreshOK` then says what a holder knows: every failed attempt saw the
stream grow, a load is never older than the last failed attempt, and whatever was
written after a load was written by another process.  `NoSelfConflict`,
`ConflictNeedsProgress` and `RejectionJustified` are read off it.  `ToldOK` says that
an answer is true of the stream (`AnswersAreTrue`); with it and `IInv` each step of the
write path is a step or a stutter of `AccountLedger`
(`WritePathImplementsLedger`): a command takes effect at its commit.

`TransferSagaProofs`: `Spec => []TypeOK`, `Spec => []LegAtMostOnce`,
`Spec => []OutcomeMatchesMoney`, `Spec => SettledIsFinal`.  `IInv` says who may
move a leg's money (`LegOwned`: a commit without a decided record belongs to one
coordinator that holds the PENDING record), what a transfer's status implies
about the records of its legs (`StatusKnows`), and how far the transfer must
have come for a coordinator to be at each point of a leg (`JobReached`).  The
last part is what makes the proof go through for stale readers: statuses only
move forward, so what a coordinator once read stays reached.  The same invariant
proves the refinement `Spec => ImplementsMoneyTransfer`: a commit of a leg is the
abstract movement of its money, which `LegOwned` makes the only one, a failure of
the debit is the abstract rejection, and all that follows a movement stutters.

`CommandApiProofs`: all properties of the command path but liveness:
`Spec => []TypeOK`, `Spec => []MovementAtMostOnce`, `Spec => []RejectionIsFinal`,
`Spec => []AcceptedIsDone` and the action properties `RetryGetsOriginal` and
`InProgressIsTrue`.  A request claims a transaction while it is between
reserving and marking the record, for good once its command is committed, and
for good once it was rejected.  `IInv` says that a claimed transaction has a record
(`ClaimReserved`), that no two requests claim one transaction (`ClaimUnique`), and
which errors a request can hold at which point (`ErrorKnown`).  Only
`ReserveTransaction` makes a claim, when the record was not there; no step
deletes a record.  What the records say plays no part, so the argument survives
the lost replies that make a status wrong.

The answers read the records, so three more invariants say what a record is worth.
A COMPLETED one, of a key or of a transaction, means that a request with that body
was committed (`DoneOK`); a request that got past its key owns it, alone
(`KeyOwned`), so a retry of an accepted request meets a COMPLETED record; an open
record has a request that has not told its client how it ended (`OpenOK`).  The
actions are first sorted into eight kinds of steps by what they do to the records,
and each invariant is shown for the kinds.  That a COMPLETED transaction is done for
the request that reads it needs `ParseInjective`: a positive amount is written in one
way only, so equal amounts mean equal bodies.

`OutboxRelayProofs`: `TypeOK`, `ClaimExclusive`, `NothingLost`,
`SentOnceWithoutFaults` and the refinement `Spec => ImplementsTopic`.  `IInv` says
that the outbox has rows for exactly the committed events (`StoreOK`), that a row of
a batch is in no other batch and is claimed or already published (`ClaimsOK`), so
the next claim cannot select it, that whatever is published or about to be marked
so was sent (`SentOK`), and that until a call fails whatever was sent is claimed or
published, and in a batch only while it is about to be marked (`OnceOK`).

`ProjectionFeedProofs`: lemmas only, one per action of the feed.  `FeedInv` says
that whatever a worker holds, has read or will be handed is a committed event, and
that the store holds every one of them, without which a page of `readAll` after
the last event projected would not be defined.  What a former owner has fetched lies
within the topic, so all it goes on to handle is committed as well.

`AccountProjectionProofs`: `TypeOK`, `SummaryIsReplay`, `EntryMissingOnlyIfTorn`,
`RebuildMeetsNoGap` and the action property `VersionNeverBack`.  `SummaryIsReplay` is not inductive: a
row is computed from a summary read earlier, which may be gone.  `SeenOK` adds that
what a worker holds between its read and its write is itself a replay, which its
event continues; it stays one whatever happens to the table.
`ProjectedIsReplay` shows that the four cases of the projector and of the
aggregate agree.  Neither the order of messages nor any exclusion plays a part.

`RebuildRunsThrough` (`RebuildMeetsNoGap`) is the exception and has two hypotheses.
`OneRebuild`: at most one rebuild runs; two rebuilds of one process do not overlap
(`RebuildsNeverOverlap`), but with two rebuilders TLC finds the second one resetting
the row under the first.  `CreatedFirst`: a stream has its `AccountCreated` first and
only there; the aggregate also accepts a freeze before the creation, and the
projector throws at such a stream.  The invariant (`RebuildsOK`) is that the events
still to come are consecutive and that the row has reached the version before the
one at hand; consumers only take it further.

The last part of `AccountProjectionProofs` is about `ProjectionCoordination`:
`CoordinationTypeOK` (in particular the counter is never negative),
`RebuildsAreSerial` and `FirstRebuildAlone`.  `CoordinationInv` ties the counter to
the projections at work (`ActiveOK`), the waiters and the microtask queue to the
places of the tasks (`WaitersOK`, `MicroOK`), and gives the turn to the first
rebuild of the queue alone (`QueueOK`).  `FirstOK` is the point: when a rebuild that
found an empty queue gets its turn, its own microtask is the only one, so no
projection is between its test and its entry.  A queued rebuild shares the queue
with the waiters woken before it, which is how `RebuildAlone` fails.

`TransferProjectionProofs`: `TypeOK`, `StatusNeverBack`, `HandledShows` and `RowIsReplay`,
in three invariants.  `Base` holds whatever the clocks and the messages do: the feed's
invariant, the events of a stream lie in the store in the order of their versions
(`StoreOrder`), and a row bears the time and the status of one event of its stream
(`ShowsOK`).  An upsert that changes the status therefore goes to a later event, and no step but a
reset removes a row (`OnlyResetsTakeAway`).
That no event of an earlier version has the new status is a fact about the
aggregate: along a replay the `Rank` of the status never falls (`NeverFalls`).  It is
an induction over the versions, done with the least counterexample, which exists
because the order of the naturals is well founded.  Without the aggregate's guards
(`CanRaise` in the assumption on histories) it would be false, and a status may
repeat, as every retried start of a leg does.

`RowIsReplay` is not inductive by far.  `IInv` is `Base` and, while its conditions
hold (`Good`), `Live`: every row is the replay of some version (`RowsOK`); what the
group has handled shows in the table, unless a rebuild is about to bring it back
(`CoveredOK`); an event at hand meets a row that has reached the event before it, and
so was the row its worker has read, which the table has not fallen behind since
(`WorkerOK`); and what a rebuild has still to read continues what it has projected
(`RebuildOK`, with `StreamPage` and `AllPage` for its two kinds).  `CoveredOK` is what a
redelivery needs: its event may be old, but the one before it has been handled.
`StoreOrder` is what a page of `readAll` needs: the predecessor of an event has a lower
position, so it was on an earlier page or stands before it on this one.  The two ways
in which this fails, a worker beside a rebuild and a commit behind its page, are the
two that `disturbed` records; TLC finds a wrong row for each when it is left out.

`HandledShows` is not inductive either: a worker that read before a reset may write
after it, and a rebuild may be past the event.  The third invariant (`CarriedOK`) says
what "about to bring it back" means: for every event handled, the row has reached its
time or some rebuild has it still to come (`ToCome`: it has not read its events yet, or
the event is the one at hand, is among those read, or lies behind the last one read in
the store, where the next page begins).  A rebuild that projects the event leaves a row
of its time or a later one, a write by anybody else never takes the time of a row back,
and `StoreOrder` plays no part; only an aborted rebuild breaks its promise.

Only model-checked: the liveness properties (`EveryRequestAnswered`,
`EveryTransferSettles`, `SettlesUnlessPoisoned`, `PublishedUnlessAbandoned`, both
`CatchesUp`, `EveryoneGetsToWork`), since fairness and ENABLED are outside the prover.
Every safety property that a passing run checks is proved.

## What is not modelled, and the plan

1. Initiating a transfer over HTTP, which has an idempotency record and no
   registry record: the same wrapper as in `CommandApi`, without its second half.
2. The limit of 50 pending transfers and the starvation it allows: a statement
   about the fifty-first, which a bounded batch would only imitate.
3. The labels of statement entries, which depend on how far the transfer
   projection is when the account event is projected.

Left out for good: observability, migrations and wiring (no state the rest
reads), request validation (declarative; its result is the set of commands), the
load script, the in-memory stores with their polling loop (test doubles), and the
conversion of amounts to JavaScript numbers for display.
