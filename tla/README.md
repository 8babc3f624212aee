# ChronoBook verification project

TLA+ models of ChronoBook (`src/`), a C++17 limit order book and matching
engine; the TLC runs that check them; and TLAPS proofs of the central
properties. Paths below are relative to `src/`, the root of the repository.

1. [The system](#1-the-system): parts, state, operations, hard behaviours
2. [The modules](#2-the-modules): how state and actions correspond to the code
3. [The runs](#3-the-runs): what is checked, within which bounds
4. [Fairness](#4-fairness)
5. [The proofs](#5-the-proofs)
6. [Where code and documents disagree](#6-where-code-and-documents-disagree)
7. [What is not modelled](#7-what-is-not-modelled)
8. [Plan](#8-plan)

To repeat a run: `tlc -config X.cfg M` with the module and configuration of the
table in section 3. To repeat the proofs: `tlapm M.tla` for the eight `*Proofs`
modules (each takes up to twenty minutes).

## 1. The system

ChronoBook has three lanes (`docs/DESIGN.md`). In the *hot lane* a feed message
goes through `ReplayEngine` (or, for several symbols, `ShardedEngine`) into a
`MatchingEngine`, which changes an `OrderBook` and emits fills. In the
*persistence lane* fills go through an `SPSCRingBuffer` to the worker thread of
`DurabilityPipeline`, which writes each batch to the `FillJournal` and then to
the `TradeStore`; `RecoveryReconciler` compares both with a replay and rebuilds
the store. In the *read lane* readers take `ConnectionLease`s from a
`ConnectionPool` that blocks on a `FutexSemaphore`.

| Part | State | Operations | What is hard about it | What must hold |
| --- | --- | --- | --- | --- |
| `Order`, `PriceLevel`, `OrderBook` | orders in slots, FIFO levels with cached totals, sorted maps of levels, id map | add, remove, cancel, best prices | three structures and two caches describe the same orders and are updated one by one | an order is in exactly one level and one map entry; totals are sums; the book is not crossed |
| `SlabPool` | slots, free list | allocate, deallocate | exhaustion; slots re-used while something points to them | no leak, no double use |
| `MatchingEngine` | book, pool, fills of the message | process, cancel, modify, drain | unbounded match loop; modify re-uses a traded slot | price-time priority, fills add up, the loop ends |
| `ReferenceMatcher` | vector of resting orders | add, cancel, modify | it is the oracle of the tests | same fills as the engine |
| `ReplayEngine`, analytics | counters, last samples, fill-rate ring | applyMessage, sampling | invalid and dropped messages; wrap of the fill-rate window | a dropped message changes nothing; counters are those of a reference run |
| `ShardedEngine` | rings, engines and pools of the shards, flags | start, route, stop, collect | shards run at different speeds; stop and restart at any time | results of a one-threaded run; nothing lost at stop |
| `SPSCRingBuffer` | two indices, slots | tryPush, tryPop | stale indices, wrap-around | FIFO, no slot read while written |
| `DurabilityPipeline` | ring, flags, batch | start, stop, tryPublish, worker | stop against publish against error; crashes anywhere | nothing accepted is lost silently |
| `FillJournal` | mapped file | open, append, flush, close, replay | power loss between stores and msync; capacity | what was acknowledged stays |
| `TradeStore` (flat file) | trades, file | load, insertBatch, replaceAll | rewrite in place | never ahead of the journal |
| `RecoveryReconciler` | none | reconcile, rebuild | works on whatever a crash left | an ok report is true |
| `FutexSemaphore` | count, waiters, flag | acquire, tryAcquireFor, release, shutdown | lost wake-ups, deadlines against wakes | no sleeper beside a free unit |
| `ConnectionPool`, `ConnectionLease` | queue of connections, leases | acquire, tryAcquireFor, moves, reset | unit and connection move in separate steps | each connection in one place |
| `CvSemaphore`, `Eventcount`, `ThreadSafeQueue` | counter, epoch or queue, mutex, condition variable | wait and notify | notification against test; closing with items queued | no lost wake-up, no lost item |
| SQLite backend, `StatementCache`, `Transaction` | database versions, write lock, LRU cache | insertBatch, replaceAll, queries | stores beside each other; signed binding of unsigned values; eviction | whole batches, no open transaction, one version per report |
| Feed protocol, `FeedParser`, `FeedGenerator` | none | validate, frame, generate | partial frames | whole messages only |
| `RunningStats`, `LatencyHistogram` | floating-point sums, samples | add | none | not modelled |

`PROJECT.json` lists the parts with their status, and the hazards of the code
with the line at which each bites and the properties that cover it.

## 2. The modules

A definition carries the name of the function or field it stands for wherever
TLA+ allows it; `map` in `PROJECT.json` gives the source lines of each one. A
definition named `X_mut...` is a wrong version of `X`, a bug the properties
must notice; no specification uses it.

**`OrderBook`** (operators): `PriceLevel` and `OrderBook` as functions of the
slab, the levels and the id map. A pointer to an order is its slot. A level is
a record of a FIFO sequence of slots with the cached `totalQty` and
`orderCount`. A level that becomes empty is erased, as in the code.

**`MatchingEngine`**: `MatchingEngine` over its book and pool, driven as
`ReplayEngine::applyMessage` does. Variables: the slab, the levels, the id map,
the fills of the message (`m_fills`), the order in the match loop (`incoming`)
and the last drained batch. `AddOrder`, `CancelOrder`, `ModifyOrder` are the
messages, restricted to what `isValidFeedMessage` lets through; `DropAdd` is an
ADD that finds the pool exhausted; one `MatchStep` is one turn of the loop of
`matchOneSide` with `executeTrade`, `decreaseTotalQty` and the removal of a
filled maker; `FinishMatch` is the exit of the loop, the tail of
`matchLimit`, `matchMarket` or `matchIOC`, and the drain.

**`LinkedBook`**: the same steps with the pointers under them, the `prev` and
`next` of an order, the two ends of a level and the free list that `SlabPool`
threads through its free slots. `LinksMirrorQueues` and `FreeListExact` tie
them to the sequences and the set of free slots that `MatchingEngine` uses.

**`ReferenceMatcher`** (operators): the vector-based matcher of the tests. Its
loop is a fold of `matchTurn` over as many turns as there are resting orders;
a turn after the loop has ended changes nothing. **`Differential`** composes it with `MatchingEngine`: both take every
message, and their fills and books are compared whenever the engine is idle.
**`Replay`** adds `ReplayEngine`: messages that `isValidFeedMessage` refuses,
the counters of `ReplayStats`, and the trackers sampled after each message,
with the ring of `FillRateTracker`.

**`SPSCRing`**: one step per access to shared memory. A thread knows its own
index; a load of the other one returns any value stored since the last one it
saw (`LoadRange`), which is what acquire/release atomics allow.
**`BoundedFifo`** is the abstract queue that the ring is shown to implement,
under the mapping of the ring to the values between tail and head.

**`FillJournal`**, **`TradeStore`** (operators on file images; the queries of
the flat file are in **`TradeQueries`**),
**`DurabilityPipeline`** (owner thread and worker thread) and **`Recovery`**
(the pipeline with crashes, power failures and the reconciler). A fill is the
number of its publication. `jmap` is the mapped journal as every process sees
it, `jdisk` the image of the last msync; a power failure keeps any mix of pages
from between the two (`WrittenBack`), so also a count without its record. The
store file is a count and a prefix of the trades; a rewrite truncates it and
grows it in any number of steps. Any system call may fail (`ioError`), the
implicit flush of the stream too (`storeCloseFails`). The ring is the bounded
FIFO of `BoundedFifo`, except that a pop may miss a value that was just pushed.

**`FutexSemaphore`**: the Linux build, one step per atomic access or system
call; `asleep` is inside `FUTEX_WAIT`, from which a thread returns by a wake, a
signal or its deadline. **`CondVar`** is a mutex with a condition variable: a
waiter keeps the mutex between its test and its sleep, and may wake without
reason. On it stand **`CvSemaphore`** (the class of that name and the build of
`FutexSemaphore` for other systems), **`ThreadSafeQueue`** and
**`Eventcount`**. **`SemaphoreClients`** has threads that call everything of a
semaphore at any time; **`BlockingPrimitives`** puts all of them over one set
of variables, with `build` saying which one a behaviour is about.

**`ConnectionPool`** composes the semaphore with the queue of connections and
with lease objects that are moved, assigned over, reset and destroyed; a
critical section of `m_mutex` is one step. **`SQLiteStore`** is the SQLite
backend: several `TradeStore`s on one database, each with its transaction
guard and its statement cache; `insertBatch` and `replaceAll` go row by row and
may fail at every call. The library, in WAL mode, is external and modelled
by what the backend relies on: one writer, committed versions (`tables`), and a
reader that stays on the version its active statements began with.
**`SQLiteQueries`** has the queries: operators that compute what the SQL text
computes after `bindInt64` and `bindInt`, beside those of `TradeQueries`.
**`ReadSide`** puts pool and stores together, with `part` saying which one a
behaviour is about, and **`ReadAnswers`** adds the properties of the queries.

**`ShardedEngine`**: gateway and workers. Taking a message out of a ring and
applying it is one step, because only the worker sees what is between. The
books are those of `ReferenceMatcher` (equal to the engine's by the `replay`
run), the rings are bounded FIFOs (by the ring refinement). `serial` and
`serialFills` record what one thread would compute that applies every message
to the book of its order's symbol. With `AssignSymbols` a CANCEL or MODIFY
carries the symbol of its ADD, as `assignSymbols` of the sharded benchmark
arranges, and the one-threaded run is the loop of `runBaseline`, but for its
pool: the ADDs it refuses are those of a pool per shard. Without `AssignSymbols`
the symbol is the 0 that `makeCancel` and `makeModify` leave; `runBaseline`,
which picks the book by the symbol of the message, would then miss the order as
the shards do, and `serial` is the run that the feed means. `applyMessage`
returns early for an invalid message, here one of quantity 0, and for an ADD
that finds no slot.

The `MC...` modules give constants their values for TLC. The `...Proofs`
modules hold lemmas and theorems: `MatchingEngineProofs` (the operators of the
book; the engine; totals, fills and priority), `PointerProofs` (linked lists and
free list), `LinkedBookProofs`, `SPSCRingProofs`, `RecoveryProofs`,
`PrimitivesProofs` (semaphores, queue and event count), `ReadSideProofs` (pool
and SQLite stores) and `ShardedProofs`.

Data is abstracted as follows. Prices and quantities are small integers (their
32-bit width matters nowhere in matching: `RestingOrdersOpen` bounds
`filledQty` by `qty`, and totals are 64-bit sums of 32-bit values). In
`SQLiteQueries`, where unsigned values are bound as signed ones, the word widths
are the constants `TsWord` (timestamps), `IntWord` (prices and quantities) and
`SumWord` (what `SUM` adds up in), so that values with the sign bit set and sums
that overflow occur. `vwap` is modelled by the two sums it divides, not by the
rounding of the quotient. Symbols, timestamps and sequence numbers appear only in
`ShardedEngine`, `Differential` and `SQLiteQueries`, where they decide something.
Time is a flag per waiting thread: its deadline has passed or not.

## 3. The runs

| Run | Configuration (module) | Properties | Bounds |
| --- | --- | --- | --- |
| `engine` | `MatchingEngine.cfg` (`MCMatchingEngine`) | `EveryOrderOwnedOnce`, `LevelTotals`, `NeverCrossed`, `RestingOrdersOpen`, `FillsAccountForIncoming`, `PointersMirrorBook`, `TradesAtBestPrice`, `TimePriorityKept`, `LoopProgress` | 4 ids, 4 slots, 2 prices, quantities up to 2, messages without end |
| `replay` | `Replay.cfg` (`MCReplay`) | `SameAsReference`, `ReportIsReference` | 3 ids, 3 slots, 2 prices, 5 messages, a fill-rate window of 2 |
| `ring` | `SPSCRing.cfg` (`MCSPSCRing`) | `SlotExclusive`, `IsBoundedFifo`, `PublishedIsTaken` | 4 slots, 2 values |
| `recovery` | `Recovery.cfg` (`Recovery`) | `TypeOK`, `JournalFirst`, `JournalOrdered`, `Projection`, `StopLosesNothing`, `ReconcileSound` | 4 fills, ring and batch of 2, journal of 3, 2 crashes |
| `recovery_power` | `RecoveryPower.cfg` (`Recovery`) | `AckedDurable`, `StopReturns`, `AcceptedIsPersisted` | 2 fills, ring and batch of 2, journal of 2, 1 crash or power failure |
| `primitives` | `BlockingPrimitives.cfg` (`MCBlockingPrimitives`) | `TypeOK`, `NoLostWakeup`, `NoLostMessages`, `MissedOnlyInWindow`, `TimedReturns`, `WaitersWake` | 3 threads (2 of them use the semaphores), up to 2 units, releases of 1 and 2, 3 items from one producer |
| `read_side` | `ReadSide.cfg` (`MCReadSide`) | `PopFindsConnection`, `LeasedOnce`, `NotStuck`, `NoTransactionLeaks`, `BatchesWhole`, `ReportOfOneVersion`, `BackendsAgree` | 3 readers, 1 connection, 2 leases each; 2 stores, 3 batches, 3 versions, a cache of 2 statements |
| `sharded` | `ShardedEngine.cfg` (`MCShardedEngine`) | `BooksAreSerial`, `CollectIsSerial`, `RingsAreServed`, `StopDrains` | 2 shards, 3 symbols, rings and pools of 2, 4 messages, ADDs of quantity 1, MODIFYs to 0 and 1 |

Some properties are conjunctions whose parts have a name and a comment of their
own: `PointersMirrorBook` is `LinksMirrorQueues` and `FreeListExact`,
`SameAsReference` is `SameFills` and `SameBook`, `ReportIsReference` is
`StatsMatchReference`, `FillRateIsRecent` and `TrackersMatchReference`, and
`WaitersWake` is `ShutdownWakes` and `ConsumersWake`. `TypeOK` of the engine and
of the ring is not checked by a run, because section 5 proves it.

Four more runs show a disagreement (section 6): `rebuild_refused`,
`store_batch_torn`, `sqlite_timeline`, `sharded_cancel`.

What they show, and why the bounds are enough to meet the hard cases:

- *Matching.* Three kinds of order, partial and full fills, modifies that trade
  and a full pool all meet: four orders can form two levels with two orders on
  one of them, or a queue of three with one incoming order that sweeps it, and
  an order is unlinked from the front, the middle and the end of a level. Two
  prices tell crossing, locked and separate books apart; quantities of 1 and 2
  give a maker larger than, equal to and smaller than the taker. The number of
  messages is not bounded. `LoopProgress` is the termination argument of the
  match loop: what the order has left goes down in every turn.
- *Replay.* Five messages build a queue of two, modify or cancel in it and
  trade through it. The reference scans by price and sequence number, the
  engine keeps sorted maps and queues: equal fills mean that the order of the
  queues is the order of the sequence numbers, also after modifies. Unlike the
  tests, the feeds hold invalid messages, ADDs of an id that still rests and
  ADDs that find the pool exhausted; the reference is not given what the engine
  refuses, so that equality says that a refused message leaves no trace. The
  window of two outcomes wraps in every longer feed.
- *Ring.* Four slots wrap in every run, and both indices may be seen late by as
  much as the other thread has moved. The ring is a FIFO of at most three
  values.
- *Durability.* A journal smaller than the number of fills makes it overflow
  in the middle of a batch; two crashes make a crash during the work that
  follows a crash; a rebuild may be interrupted too. What holds: the store never
  has what the journal lacks (`JournalFirst`), nothing is recorded twice
  (`JournalOrdered`), a `stop()` without error loses nothing
  (`StopLosesNothing`), an ok report is right although it compares only counts
  and averages (`ReconcileSound`: every store file is written from fills of the
  journal in their order, and the journal is compared record by record).
- *Durability after a power failure.* `JournalFirst` is a property of process
  crashes only: a rebuild after a crash copies records of the mapped journal
  that no msync has covered yet, and a power failure may then keep the store
  and lose those records. `recovery_power` therefore asks only what a power
  failure may not undo, with two fills and one failure, since its liveness
  properties make more too large; section 5 proves `AckedDurable` for any
  number of both.
- *Blocking primitives.* Two users of a semaphore are a sleeper and a releaser,
  with deadlines, signals and spurious wake-ups between them. Three threads at
  the queue are a producer and two consumers, so that a notification can go to
  a consumer that finds its value taken. `NoLostWakeup` holds of all three
  semaphores. An `Eventcount` can miss a notification, because `notifyAll`
  advances the epoch without the mutex; `MissedOnlyInWindow` says that the
  window between the test and the sleep of a waiter is the only way.
- *Pool.* Three readers are a sleeper, one that gives its lease back and one
  that takes the unit first or gives up at its deadline, the smallest instance
  in which a wake-up can go to the wrong thread. A timed-out lease assigned
  over one that holds the connection gives the connection back.
- *SQLite stores.* Two stores are two writers, or a writer and a reader that is
  in the middle of a report. Three statements compete for a cache of two.
  The batches hold two symbols, a price, a quantity and a timestamp with the
  sign bit set, smaller fills whose sum overflows when they are stored twice,
  and fills out of the order of time, so that every condition of `BackendsAgree`
  (time order; prices and quantities below 2^31 and sums below 2^63 between the
  bounds; bounds below 2^63) is met and missed. Without any one of the
  conditions on prices, quantities and sums the run fails.
- *Sharding.* Two of the three symbols share a shard, rings and pools of two
  fill up, and the engine is stopped and restarted with messages in the rings.
  With ADDs of one unit a message makes at most one fill, so that the order of
  the fills of one message in `collectAllFills` is not put to the test.

Symmetry is used in `engine`, `replay`, `read_side` and `sqlite_timeline`, for
slots, ids and readers, which the modules only compare for equality; none of
these runs has a liveness property.

## 4. Fairness

- `SPSCRing`: the consumer polls, as both worker loops do, and reads the
  current head after finitely many polls: C++ asks that an atomic store becomes
  visible in finite time. The producer has no fairness.
- `Recovery`: weak fairness of the worker and of `join`; strong fairness of a
  successful pop, since a pop may miss a value again and again in the model and
  not on the machine. Publishing, stopping, errors and crashes have none.
- `SemaphoreClients` and `BlockingPrimitives`: weak fairness of each thread's
  steps inside the futex semaphore and of the passing of its deadline; strong
  fairness of the steps that need a mutex, which stands for a mutex that is in
  the end given to every thread that asks for it. Nobody is obliged to release
  a unit, push or close, so blocking acquires and pops promise nothing by
  themselves; timed acquires must return, and after `shutdown` or `close` all.

The other specifications have no fairness: `LoopProgress`, `RingsAreServed`,
`NotStuck` and `StopDrains` state as safety properties what must not stop.

## 5. The proofs

TLAPS proves the following for every value of the constants; TLC checks the
same formulas, but for `TypeOK` of the engine and of the ring, on the instances
above.

| Theorem | Statement | Module |
| --- | --- | --- |
| `TypeCorrect` | `Spec => []TypeOK` | `MatchingEngineProofs` |
| `OwnedOnce` | `Spec => []EveryOrderOwnedOnce` | `MatchingEngineProofs` |
| `Uncrossed` | `Spec => []NeverCrossed` | `MatchingEngineProofs` |
| `OpenOrdersOnly` | `Spec => []RestingOrdersOpen` | `MatchingEngineProofs` |
| `MatchingEnds` | `Spec => LoopProgress` | `MatchingEngineProofs` |
| `TotalsExact` | `Spec => []LevelTotals` | `MatchingEngineProofs` |
| `FillsExact` | `Spec => []FillsAccountForIncoming` | `MatchingEngineProofs` |
| `PricePriority` | `Spec => TradesAtBestPrice` | `MatchingEngineProofs` |
| `TimePriority` | `Spec => TimePriorityKept` | `MatchingEngineProofs` |
| `LinkedRefines` | `LinkedSpec => Spec` | `LinkedBookProofs` |
| `PointersExact` | `LinkedSpec => []PointersMirrorBook` | `LinkedBookProofs` |
| `RingTypes` | `Spec => []TypeOK` | `SPSCRingProofs` |
| `RingExclusive` | `Spec => []SlotExclusive` | `SPSCRingProofs` |
| `RingIsFifo` | `Spec => IsBoundedFifo` | `SPSCRingProofs` |
| `AckedSurvive` | `Spec => []AckedDurable` | `RecoveryProofs` |
| `StopIsClean` | `Spec => []StopLosesNothing` | `RecoveryProofs` |
| `JournalInOrder` | `Spec => []JournalOrdered`, without power failures | `RecoveryProofs` |
| `StoreBehindJournal` | `Spec => []JournalFirst`, without power failures | `RecoveryProofs` |
| `StoreIsProjection` | `Spec => []Projection` | `RecoveryProofs` |
| `ReportIsSound` | `Spec => []ReconcileSound`, without power failures | `RecoveryProofs` |
| `PipelineTypes` | `Spec => []TypeOK`, without power failures | `RecoveryProofs` |
| `PrimitiveTypes` | `AllSpec => []TypeOK` | `PrimitivesProofs` |
| `WakeupsKept` | `AllSpec => []NoLostWakeup` | `PrimitivesProofs` |
| `MessagesKept` | `AllSpec => []NoLostMessages` | `PrimitivesProofs` |
| `WindowOnly` | `AllSpec => []MissedOnlyInWindow` | `PrimitivesProofs` |
| `LeasesExclusive` | `Spec => []LeasedOnce` | `ReadSideProofs` |
| `PopsSucceed` | `Spec => []PopFindsConnection` | `ReadSideProofs` |
| `PoolNeverStuck` | `Spec => []NotStuck` | `ReadSideProofs` |
| `TransactionsEnd` | `ReadSpec => []NoTransactionLeaks` | `ReadSideProofs` |
| `BatchesAreWhole` | `ReadSpec => []BatchesWhole` | `ReadSideProofs` |
| `ReportsOfOneVersion` | `ReadSpec => ReportOfOneVersion` | `ReadSideProofs` |
| `ShardsAreSerial` | `Spec => []BooksAreSerial`, with `AssignSymbols` | `ShardedProofs` |
| `ShardsServed` | `Spec => []RingsAreServed` | `ShardedProofs` |
| `StopsDrained` | `Spec => StopDrains` | `ShardedProofs` |

*Assumptions.* `BoundsAssumption` and `NullAssumption` in `OrderBook`: the
bounds on prices and quantities are natural numbers, and the null values are
not slots, orders or levels. The sets of ids and slots are arbitrary, even
infinite; only the theorems of `LinkedBookProofs` use `SlotsAssumption` in
`LinkedBook`, that the slots are finitely many: they are one block of memory,
and the free list is a list through all of them. `CapacityAssumption` in
`SPSCRing`: at least two slots, which is what `nextPowerOfTwo` returns at
least; that the number is a power of two is not needed, since `increment` is
modelled by what the mask does. `JournalAssumption` in `FillJournal`: the
capacity of the journal is a positive number. `PipelineAssumption` in
`DurabilityPipeline`: the number of fills and the capacity of the ring are
natural numbers. `PrimitivesAssumption` in `BlockingPrimitives`: threads are
finitely many, the null thread is none of them, and the bounds on units,
releases and items are natural numbers. `PoolAssumption` in `ConnectionPool`:
readers and connections are finitely many and not none, there is a unit for each
connection, and the null connection is none of them. `StoresAssumption` in
`ReadSide`: batches are sequences, the null store is no store, and a statement
cache has room for two statements (the code's has room for 16).
`ShardsAssumption` in `ShardedEngine`: every symbol, 0 among them, has a shard.
`JournalInOrder`, `StoreBehindJournal`, `ReportIsSound` and `PipelineTypes`
assume `~PowerFailures`: as section 3 says, a loss of power may keep a store that
is ahead of the journal, and a count whose record was lost. `ShardsAreSerial`
assumes `AssignSymbols`, without which section 6 refutes it.

*The matching engine.* The inductive invariant is

    IInv == TypeOK /\ EveryOrderOwnedOnce /\ NeverCrossed /\ OpenOrders /\ IncomingPriced

None of the conjuncts is inductive alone. That a cancel or a filled maker
leaves the book sound needs `EveryOrderOwnedOnce` as a whole: the id map finds
the slot, the slot's side and price find the level, and the queue of that level
has the slot exactly once, so that removing it removes the order. That the
incoming order may rest without crossing needs that the loop ended, which with
a LIMIT order that is not filled means that the other side is empty or its best
price does not cross; and it needs `IncomingPriced`, because a price of 0 would
rest below every level. `OpenOrders` says that no resting order is filled: a
turn of the loop then trades at least one unit and at most what both sides
have left, which bounds `filledQty` and gives `TypeOK` of the fills; it is also
why `LoopProgress` holds.
The first part of the module has the lemmas about the operators: what appending to and
removing from a queue without repetitions does to its elements, that the best
price is the least or greatest present one, what adding, removing and
decreasing do to every level of the book, and that linking and unlinking an
order keeps the id map and the levels sound. Then there is one lemma for each
action.

*Totals and fills.* `LevelTotals` and `FillsAccountForIncoming` compare a cached
number with a sum, written with the recursive function `SumTo`. The proofs use
`IsSum(w, n, x)` instead: there are partial sums that start at 0 and end at `x`.
It equals `SumTo` (lemma `SumOf`, the one induction, over the partial
sums), and what appending, removing or lowering one term does to it is seen by
giving the new partial sums. The inductive invariant is

    BookInv == IInv /\ Totals(levels, slab) /\ FillsSum

It needs `IInv`: that the clamp of `decreaseTotalQty` never acts follows from
the traded quantity being at most what the maker has left, which is one term of
the sum; that a trade changes one term of one level only follows from every
order being on one level.

*Price-time priority.* Both are action properties that follow from `IInv` in the
state before the step. A trade is at the best opposite price because
`bestOpposite` is the least or greatest key that is present, and every resting
order is on a level whose key is its price. For `TimePriorityKept` each action is
shown to leave a queue alone, append to it or remove one slot from it
(`QueueSteps`); a modified order is removed and comes back at the end, or, for
the length of the match loop, is on no queue at all.

*The pointers.* `LinkedRefines` shows that every step on the pointers is a step
of `MatchingEngine`, so that all theorems above hold of the linked engine. Then

    PointerInv == LinksOf(links, levels) /\ FreeChain(pool, FreeSlots)

is kept by every step, given `IInv`. `LinksOf`: the links of each level are its
queue, in both directions and at both ends, and an order on no level has none.
Removing an order changes its neighbours and at most one end; that these belong
to no other level is why `EveryOrderOwnedOnce` is needed. `FreeChain`: following
`stored` from `freeHead` goes through every free slot once, in some order, and
ends, and the counter is the number of the other slots. `PointersMirrorBook`
states the same with the walk that the code would take.

*The ring.* The inductive invariant is

    IInv == TypeOK /\ Ordered /\ InCall

`Ordered` says that around the ring the indices come in the order `tailSeen`,
`m_tail`, `headSeen`, `m_head`, within less than one turn: an old index is a
safe index. `InCall` is what a thread inside a call has established. With it,
`PushPublish` is a `Push` of the abstract queue, `PopAdvance` a `Pop`, and all
other steps leave the mapped queue unchanged (`PushWrite` writes a slot outside
the contents).

*The durability lane.* The inductive invariant of `AckedSurvive` is

    IInv == Types /\ Extends /\ Headers /\ Progress /\ Acked

`Extends` says that the mapping is the synced image and records appended to
it. It is why a power failure that writes back any mix of pages takes nothing
away that was synced, and it holds because `append` writes only behind the
counted records. `Headers` is needed for the one step that would break it: the
constructor initialises a file, with count 0, whose header is missing, and a
file with records always has one. `Progress` follows a batch through
`flushBatch`: what is appended before the msync is in the mapping, and what is
about to be acknowledged is in the synced image. It includes a record stored
and not yet counted, the state in which most crashes of `append` leave the
file.

`StopIsClean` adds two conjuncts to it. `NotLost`: an accepted fill is
acknowledged, in the ring or in the batch, unless an error took its batch.
`Drained`: once the worker has left its loop, `m_stop` is set, ring and batch
are empty and no `tryPublish` is under way.

`JournalInOrder` adds `Ordered`: journal, the rest of the batch and ring, one
after the other, are increasing, and nothing in them is newer than the last
fill published. `StoreBehindJournal` adds `Stored`: every trade in the store
file, in the worker's copy of it and in the replay of a rebuild is a counted
record; the lemma `HeldStays` says that no step short of a power failure takes a
counted record away.

`StoreIsProjection` adds `Projected`: as long as nothing failed, the worker's
copy and the store file are, at each place of `flushBatch`, a known prefix of
journal and batch, so that between batches they are the journal.
`ReportIsSound` adds `StoreOrder` to `Ordered` and `Stored`: what is in the store
file, in the worker's copy and in the replay of a rebuild is increasing, and
older than the rest of the batch. The report finds as many trades in the store
as in the feed; they are all counted records of the journal, which equals the
feed record by record; and an increasing sequence of `k` of the numbers
`1 .. k` is `1 .. k`. `PipelineTypes` adds `Control` and `Content`, what is in
the files being fills that were published.

*The blocking primitives.* The inductive invariant is

    PrimInv == SemInv /\ FlagTypes /\ QueueInv /\ EventInv /\ ...

Its core is `Covered`, the account of the sleepers for semaphores that release
several units at once. A thread *owes* as many wake-ups as its `release` still
has to give, and one when it is about to try for a unit itself; while anybody
sleeps, the units of the count are covered by what all threads owe together.
For the condition variables there is a second account, for the moment in which
a thread has seen no unit and not yet gone to sleep: it holds the mutex
(`Locked`), and the units that came since are all announced, that is, released
by threads that have yet to take the mutex. The sum over the threads is the
cardinality of a set of tickets, one for each wake-up owed, and the lemmas say
how it changes when one thread moves or when several sleepers are woken.
`MessagesKept` is inductive with its types. `WindowOnly` adds that the epoch can
have moved under a waiter that is between its test and its sleep only in the
window.

*The pool.* The inductive invariant is

    PoolInv == PoolType /\ PlacesOK /\ HeldOnce /\ Units /\ Wakes

`PlacesOK` ties the place of a reader in the pool to its place in the
semaphore. `HeldOnce` says where connections are: the queue repeats none, no two
leases or temporaries own the same one, none is both owned and queued, and none
is nowhere. `Units` is the account of the semaphore: the length of the queue is
the count, plus the readers that took a unit and have not popped yet, plus those
that pushed and have not posted yet. So a reader that took a unit finds a
connection, although unit and connection move in separate steps. `Wakes` is the
account of the sleepers: `m_waiters` is the number of readers that have enlisted,
and while one of them sleeps, every unit of the count has a reader that will wake
a sleeper for it or will try to take it. A release that finds no waiter is no
exception, because a reader that enlists tests the count again before it sleeps.
The number of readers at a set of places is a cardinality, and the lemma
`CountMove` says how it changes when one reader moves.

*The SQLite stores.* The inductive invariant is

    StoresInv == StoreMaps /\ Writers /\ (\A s \in Stores : ReadingOf(s))

`Writers` says of every store that it is outside a transaction, without the lock
and without rows, or that it holds the lock and what it has inserted followed by
what it has left to insert is the last committed table, or nothing, followed by
a whole batch. So the commit adds a whole batch. That the last table is still
the one the transaction began with is the lock: all other stores are outside
(`OtherIdle`). `ReadingOf` is about reports: the statement that `tradeCount` left
active is first in the cache, and the connection is on the version that the
count saw; the next `get` takes at most the last entry out of the cache, which
is another one when the cache has room for two (`CachedSecond`), so that `vwap`
finds the statement active and stays on its version.

*The shards.* The inductive invariant of `ShardsAreSerial` is `Ahead /\ Ids`.
`Ahead`: the one-threaded run is ahead of a shard by exactly the messages in the
shard's ring, that is, there are books that lead, message by message, from the
books of the shard to those that the one-threaded run has for the symbols of the
shard. A message routed lengthens the path at its end, a message taken from the
ring shortens it at its start, and a step of another shard, or a message for it,
changes no book of this one, because a symbol has one shard. It includes the
ADDs that a full pool refuses: whether an ADD is refused depends on all books of
the shard, and both runs ask it of the same books. An empty ring is an empty
path. What the matcher computes is never looked at. `ShardsServed` needs only
that `start()` clears the flags before the workers test them (`Served`).
`StopsDrained` adds two conjuncts. `AllTaken`: the messages that a shard has
applied or has in its ring, summed over the shards by partial sums, are as many
as were routed. `Exits`: a worker leaves its loops only inside `stop()`, when
nothing is routed any more, and only with an empty ring. When all workers have
left, the rings are empty and the sum is what the loop of `totalProcessed` gives.

*Only model-checked.* The liveness properties `PublishedIsTaken`, `StopReturns`,
`AcceptedIsPersisted`, `TimedReturns` and `WaitersWake`: the prover has no rules
for fairness and `ENABLED`. `SameAsReference` and `ReportIsReference`: they
compare the sorted books of the engine with a fold over a vector, whose value
for every input takes an induction over data. `CollectIsSerial` (a sort of the
fills of all shards) and `BackendsAgree` (filters and folds over tables) for the
same reason.

## 6. Where code and documents disagree

- `store_batch_torn`: `docs/DESIGN.md` says that store batches commit as a unit
  or do not appear. The flat-file store rewrites its file in place, so an error
  or a crash inside `writeAll` leaves neither the old trades nor the new ones.
  The SQLite backend keeps the promise (`BatchesWhole`).
- `rebuild_refused`: `README.md` says that the journal is the source of truth
  for rebuilding the store after a store failure. `rebuildStoreFromJournal`
  loads the old store before it replaces it, and a file that a crash left
  truncated makes the load throw. The rebuild works once the file is deleted.
- `sqlite_timeline`: a test of the store expects `timeline(symbol)` to return
  the trades of the symbol. In the SQLite backend the default upper bound,
  `UINT64_MAX`, is bound as -1, and the query selects nothing.
- `sharded_cancel`: `makeCancel` and `makeModify` leave the symbol 0, and the
  sharded engine routes by the symbol of the message. A CANCEL or MODIFY of an
  order of another symbol reaches the wrong engine, and the order trades on.
  The `sharded` run gives them the symbol of their ADD, as `assignSymbols` does,
  and there the engine agrees with a one-threaded run.

Observations made while modelling, which no run states:

- `FutexSemaphore::shutdown` on Linux wakes the sleepers but does not change the
  word they sleep on, so that a thread between its test of the flag and its
  sleep is not woken. The step is in the model; `ShutdownWakes` is stated for
  the other two semaphores. Nothing in the repository calls it.
- The loop of `tryAcquireFor` in the build for other systems has no test of the
  deadline of its own; `TimedReturns` leaves that build out.
- `ImbalanceTracker` says that without a two-sided book the imbalance is
  undefined, and skips a sample only when both sides are empty: a one-sided book
  is sampled as 1 or -1. `ReportIsReference` states the imbalance of two-sided
  books only.
- An ADD that is invalid or dropped counts as an unfilled order in the fill rate.
- In the SQLite backend a one-row query leaves its statement active. A store
  that alternates such queries stays on an old version, and its next
  `BEGIN IMMEDIATE` fails once another store has committed.
- Prices and quantities of 2^31 or more are stored as negative numbers by the
  SQLite backend, a `vwap` whose sums reach 2^63 fails there, and fills that are not stored in the order of time are returned in another
  order than by the flat file. `BackendsAgree` states its conditions
  accordingly.

## 7. What is not modelled

- Of the SQLite backend: loading the library, failures of the constructor, of
  `prepare` and of `init`, `explainPlan`, and a loss of power under
  `synchronous=NORMAL`. The library itself is external: what the module says of
  it is what the backend relies on.
- `RunningStats` (floating-point means and variances) and `LatencyHistogram`
  (sorted samples of a benchmark): no other part reads them. Trackers are
  modelled by their last sample.
- The MAX mode and the timing of `ReplayEngine`, and its counters of messages by
  type: the mode applies the same messages without sampling.
- `FeedParser` and the byte layout of messages: stateless cutting of a buffer
  into frames of fixed size. `FeedGenerator`: pseudo-random test input, where
  the models take every input; that its ids are distinct is what
  `ShardedEngine` assumes of a feed.
- The rounding of the capacity of the ring to a power of two (an assumption on
  the constant), the memory behind the slab, branch hints, thread pinning.
- Command-line tools and benchmarks, but for `assignSymbols` and `runBaseline`.
- Weaker memory orders than those of x86-64 in the semaphore
  (`FutexSemaphore.h:31` depends on a read-modify-write being a full barrier);
  the ring is modelled with stale loads. Windows branches.
- The feed behind `RecoveryReconciler`: it is the sequence of fills that a
  replay yields, which the engine modules are about.

## 8. Plan

Done, in this order: the matching core with its differential test and the
proofs about it; the ring, its abstract queue and the proof of the refinement;
the durability lane with failures and its proofs; semaphore, pool and leases;
sharding; the pointers of levels and slab; the primitives over condition
variables; the statistics of a replay; the SQLite backend; the proofs of totals,
fills and priority, of the pointers, and of the pool; the proofs of the
projection and the report, of the blocking primitives, of the SQLite stores and
of the shards.

What could follow:

1. `SameAsReference`, from an invariant that relates the vector of the reference
   to the queues of the engine turn by turn, once the reference matcher is a
   state machine with one step per turn.
2. `BackendsAgree`, after `vwap` and `timeline` are stated by what they select.
