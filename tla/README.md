# A verification of low-latency-data-structures

The crate has three lock-free data structures for handing values between
threads (`seqlock`, `spsc`, `spmc`), the allocators behind two of them (`mem`)
and a benchmark harness (`bench`).  What makes it hard is the same everywhere:
threads communicate through a handful of atomics with the weakest orderings
that work, so a bug is an interleaving, or a reordering, that no test on an x86
machine will show.  This directory models the structures one atomic access at a
time over a release/acquire memory, with the benchmarks and programs around
them, checks them with TLC, and proves their safety properties with TLAPS.

Paths below are relative to the crate's `src/`.

## Inventory

| Component | State | Operations | Hard part |
|---|---|---|---|
| `seqlock` | `seq`, `data` | `Writer::write`, `Reader::read`, `Reader::clone` | `data` is read while it is written; only the two loads of `seq` tell |
| `spsc` | `head`, `tail`, slots; each handle caches both counters | `push`, `pop`, dropping either handle, `Drop for Queue` | slots are plain memory; stale cached counters; counters wrap; panics in the middle |
| `spmc` | `write_cursor`, a `seq` and a value per slot; each consumer has `read_cursor`, `cached_write_cursor` | `publish`, `try_read`, `Consumer::clone` | the producer never waits: a slot may be overwritten, several times, under a reader |
| `mem` | an owned region | `allocate`, `drop` (global allocator, hugepages) | `mlock` fails after the memory was obtained; rounding; zero sizes |
| `bench/harness/spsc` | a queue, a barrier of three, a `done` flag, a schedule, counters and histograms | `run_spsc_handoff`, `measure_at_rate` of the throttled benchmark | the flag must not overtake the last item; a thread may panic before the barrier; rounded periods add up; a full queue seen through a stale counter |
| `bench/harness/spmc` | the same over `spmc` | handoff, lapped, capacity sweep | the same, values that are never observed, and a queue that refuses values |
| `bench/harness/adapters` | another crate's queue | `try_push`, `try_pop`, `try_publish`, `try_read` | capacities that are rounded, errors mapped to full and empty |
| `examples/seqlock/bench_handoff.rs` | a lock, a barrier of two, a `done` flag | its two threads and `main` | the reader looks at the flag only when a read returned |
| `bench/preflight.rs` | a report of warnings and failures | one function per check, `finish` | files that are not there |
| `bench/harness/mod.rs` (`TwoCoreCtx`), `bench/loc.rs`, `examples/spsc/bench_drain.rs` | the cores, the counters before and after; hugepages | discover, preflight, lock, read the counters, measure | the machine changes meanwhile |
| `bench/tsc.rs`, `bench/report.rs`, options, other examples | - | reading the clock, printing, builders, mains | none |

The handles of a structure share it through an `Arc`; they interact only
through its atomics and slots.  The harness adds a `Barrier`, an `AtomicBool`
and thread joins.  What each component must guarantee:

* seqlock: a read returns one completed write, never a mixture, never one older
  than the reader already knows of; it returns when the writer pauses.
* spsc: no data race on a slot; a bounded FIFO; each item is popped or dropped
  exactly once whatever the order of the drops, also across the wrap of the
  counters and after a panic; retrying makes progress.
* spmc: a value is delivered at the position it was published at, or the
  consumer is told how many it lost; a consumer catches up.
* mem: a region holds what was asked for, stays locked while it is alive if it
  was to be locked, and can be released.
* harness: every item is sampled, the schedule is kept, backpressure is counted
  only where there is some, a sample is a new value, and the run ends.
* programs: no misleading run goes ahead unnoticed, the resources that were
  checked suffice, and what is printed of a CPU is about that CPU.

## Modules

| Module | What it is |
|---|---|
| `WeakMemory` | The memory: per location the sequence of messages written to it, per thread three views (`cur`, `acq`, `rel`).  `Load` and `Store` take the ordering and the fence the code uses.  External: it is Rust's memory model, restricted to what the crate needs (one writer per location at a time, no read-modify-write, no SeqCst). |
| `SeqLock` | `seqlock/lock.rs`, `reader.rs`, `writer.rs`.  A value is `NWords` words; `write_volatile` and `read_volatile` access them one by one in any order. |
| `SnapshotCell` | What a sequence lock promises: an atomic cell. |
| `Spsc` | `spsc/queue.rs`, `producer.rs`, `consumer.rs`, with the life cycle of the handles. |
| `BoundedFifo` | What the SPSC queue promises. |
| `Spmc` | `spmc/queue.rs`, `producer.rs`, `consumer.rs`. |
| `BroadcastLog` | What the SPMC queue promises. |
| `SpscBench` | `bench/harness/spsc/handoff.rs`, `throttled.rs` (`measure_at_rate`) and the SPSC adapters composed with `Spsc`: the same queue actions, driven by the benchmark's two threads, with the flag `done` as one more location of the memory.  The initial state chooses the program and the adapter; another crate's queue is a counter with a capacity. |
| `SpmcBench` | `bench/harness/spmc/handoff.rs`, `lapped.rs` (`measure`) and `capacity_sweep.rs` composed with `Spmc` in the same way.  The initial state chooses the program ("handoff" publishes N values and drains twice, "lapped" and "sweep" stop at any moment and drain once) and the queue (this crate's, or `bus`, which refuses values when it is full). |
| `SeqLockBench` | `examples/seqlock/bench_handoff.rs` composed with `SeqLock`. |
| `Preflight` | `bench/preflight.rs`: one action per check, over files that may be unreadable, and `finish`. |
| `BenchProgram` | Extends `Preflight` with what surrounds a measurement: `TwoCoreCtx`, the preflight of the sequence lock's example, `loc::read`, and the whole of `examples/spsc/bench_drain.rs`, while CPUs go on and off line, take interrupts, and other processes map hugepages. |
| `Allocator` | `mem.rs`: `allocate` and `drop` of `GlobalAllocator` and `HugepageAllocator`, one action per system call and outcome, with the set of locked pages.  The kernel and `malloc` are external: any free region may be returned, and any call may fail. |
| `MC*` | The modules TLC starts from. |
| `ModLemmas`, `WeakMemoryProofs` | Lemmas about `%` and `\div`, and about what loads and stores do to views. |
| `SeqLockProofs`, `SpscProofs`, `SpmcProofs`, `AllocatorProofs`, `SpscBenchProofs`, `BenchProgramProofs` | The theorems about the modules they are named after; `SeqLockProofs` and `SpmcProofs` also those about `SeqLockBench` and `SpmcBench`. |

How a module corresponds to the code:

* Each action is one atomic access of the code together with the local
  computation up to the next one: `SeqLock!WriteOdd` is `seq.store(s + 1,
  Relaxed); fence(Release)`.  A load chooses among the messages the thread may
  still read, so stale values are explored.  The program counters (`wpc`,
  `rpc`, `ppc`, `cpc`) say where a thread is in a call; the other variables
  carry the names of the fields and locals they stand for.
* The benchmarks' threads have a program counter each (`main`, `producer`,
  `consumer`, ...); their counters have the names of the code's.  Time stamps are
  left out: waiting for the clock only delays a thread, which every interleaving
  includes, and whether the throttled run ended too late is an arbitrary Boolean.
* A check of `Preflight` takes what it reads as a parameter, or from the record
  `machine` if several checks look at it.  A warning is the name of its check.
* The orderings and fences are definitions (`OddStoreFence`, ...), so that each
  can be weakened on its own.
* The access to a slot of `Spsc` is not atomic in the code.  It is modelled as
  a message too, and `NoDataRace` states that the thread has seen every earlier
  access to the slot when it makes its own.  The volatile accesses of the
  sequence locks race by design; they are taken as relaxed accesses of single
  words, which is what the compilers generate.
* Definitions named `Bug...` are seeded bugs, each next to the definition it
  would replace.  They are used by nothing; substituting one shows that the
  property listed for it in `PROJECT.json` notices.
* Ghost variables (marked so where they are declared) count what happened; no
  guard depends on them, apart from the bounds `MAX_WRITES`, `MAX_PUBLISH`,
  `MAX_PUSH`.

## Runs

| Run | What it asks | Bounds |
|---|---|---|
| `seqlock` | `NoTornRead`; refinement of `SnapshotCell` | 2 readers (one cloned at any time), 2 words, 3 writes |
| `seqlock_bench` | no torn read while `seq` wraps, samples are new values, every read returns, the benchmark ends | `seq` modulo 4, 5 writes, 2 words, pinning may fail |
| `seqlock_stalled_writer` | is `read` lock-free?  No | 1 reader, 2 writes |
| `spmc` | values at their positions, laps are real, refinement of `BroadcastLog` | 2 consumers, ring of 2, 2 words, 4 publishes |
| `spmc_wrap` | the same while cursors wrap; a consumer catches up | words modulo 8, 9 publishes |
| `spmc_capacity_one` | does `Lapped` always advance?  Not with one slot | `CAPACITY` 1, 3 publishes |
| `spsc` | races, slot discipline, accounting, refinement of `BoundedFifo`, progress | ring of 2, counters modulo 4, 6 pushes, drops at any time, destructors may panic, with and without overflow checks |
| `spsc_bench` | every item is sampled, the schedule stays within a tick, backpressure is real, the benchmark ends | ring of 2, 5 items (handoff) and 6 (throttled), 8/3 ticks per item in eighths of a tick, pinning may fail, every adapter |
| `spsc_bench_pin_failure` | does a failed pin panic?  No, it hangs | 2 items |
| `spmc_bench` | the handoff accounts for every publish, reports add up, the benchmarks end | ring of 2, 6 publishes (three laps), pinning may fail, this crate's queue and `bus` |
| `allocator` | regions are big enough, stay locked while alive, can be unmapped | 2 allocations at a time, heap of 3 pages, two sizes of hugepages, a word of 5 bits |
| `bench_program` | preflight is sound, the hugepages it asks for suffice, a delta of interrupts is of the right CPU | 3 CPUs in four topologies, any of them isolated, two of them hot-pluggable; queues of 1, 2 and 8 items of 3 bytes, hugepages of 16 bytes, at most 3 and one more that others have reserved; 2 trials; one interrupt per CPU |

The bounds are chosen for the cases that matter.  Two words are enough for a
torn value.  A ring of two with four publishes laps a consumer that stands
still twice.  The counters are given a small modulus so that they wrap, and
pass the point where they repeat, within the run: 64-bit counters never do in a
test.  Eighths of a tick cannot express the period of 8/3 ticks, so the rounding
of the schedule shows within six items.  `MAX_CAP_ITEMS` is
the largest of the capacities, as in the code; that queue needs two hugepages and
does not fill them.  Three CPUs are two to use and one that is a sibling of
either, or a column of `/proc/interrupts` that may vanish.  `NoTornRead` and `ValueAtItsPosition` exclude a read during which the
numbers go through a whole cycle, which the code does not detect (2^63 writes
during one read; with a 32-bit `usize`, 2^31 publishes during one `try_read` or
while a consumer does not poll).

Fairness.  A thread that is inside a call keeps being scheduled (weak
fairness), and in the liveness runs the two sides keep polling, as the
benchmarks do.  A load that is repeated for ever eventually returns the newest
message (strong fairness of the load of that message): caches are coherent, and
Rust requires stores to become visible in finite time.  Nothing is assumed
about how threads interleave, and nobody has to start a new write, publish or
push.

What the runs show beyond "it holds":

* `seqlock_stalled_writer`: the documentation of `Reader` calls `read`
  lock-free in the presence of a writer.  A writer that is descheduled between
  its two stores of `seq` stops every reader, so it is blocking.  The same is
  true of `Consumer::try_read` on a slot that is being written.
* `spmc_capacity_one`: `spmc::new` accepts `CAPACITY` = 1.  `publish` stores
  the even `seq` before `write_cursor`; a consumer between the two sees that it
  was lapped, reloads the old `write_cursor`, and returns
  `Lapped { skipped: 0 }` without moving.  The next call may do the same until
  the cursor is stored.
* `spsc_bench_pin_failure`: the pinning assertions run before
  `barrier.wait()` in the spawned threads, and the main thread waits at the
  barrier of three before it joins.  A failed pin therefore hangs
  `run_spsc_handoff`, whose documentation says that it panics.  The SPMC
  benchmarks are built in the same way (`spmc/handoff.rs:59` makes the same
  promise).
* In `Spmc` the Release of the even store of `seq` and the Release of the store
  of `write_cursor` each follow from the other as far as the properties here
  go: weakening one alone breaks none of them (a consumer reads a slot only
  after acquiring a later `write_cursor`).  Dropping the release fence, the
  acquire fence or the Acquire load of `write_cursor` does.
* The lapped and sweep SPMC benchmarks return on an `Empty` followed by a raised
  flag, with no second drain: values published between the two loads are in `published` but
  in no other count.  Nothing in the repository promises otherwise, so
  `NothingUnobserved` is stated for the handoff alone.  `ReportAddsUp` needs
  `CAPACITY` > 1, because of the lap that skips nothing;
  `examples/spmc/bench_handoff_under_coherency_contention.rs` measures a queue of
  one slot, where such laps are counted.
* `run_spmc_lapped` ignores the result of `try_publish` and counts the value.
  That is right because it asserts that the queue never refuses one: without the
  assertion `ReportAddsUp` fails for `bus`.
* `push` tests for a full queue with a cached `head`, but reports full only after
  it reloaded it.  `RetrySucceeds` and `BenchTerminates` depend on that: a refusal
  from the stale copy alone would repeat for ever.  `BackpressureIsReal` does not;
  the copy starts at zero, so even a stale one lets the first `CAPACITY` items in.
  It is about the counting: an item that was refused several times counts once, and
  none counts that the queue had room for from the start.
* The harness discards the result of `hist.record()`, and its comments say that
  zero and wraparound samples are rejected silently (`bench/harness/spsc/handoff.rs:82`,
  `bench/harness/spmc/handoff.rs:105`, `examples/seqlock/bench_handoff.rs:107`).  So
  the counters `offered`, `sys_offered` and `values` count the calls of `record()`,
  and the properties say which items are sampled and offered to a histogram.  They do
  not say how many entries it has, which may be fewer.
* `HugePages_Free`, which preflight reads, includes pages that other processes have
  reserved and not touched, which `mmap` cannot give out.  Preflight may pass and the
  drain benchmark then panic for want of pages; `HugepagesSuffice` claims nothing of
  that case (`assured` is false), nor of pages taken after the check.
* `cores_online` cannot fail in the model: the cores are chosen among the CPUs that are
  online, and none is unplugged between that and `finish()`.  The check is an action
  like the others and no property is about it.
* A sequence lock benchmark whose reader cannot be pinned hangs: `main` joins the
  writer, which waits at the barrier.  If it is the writer, `main` panics.
* The topology checks of preflight pass when their file is unreadable, and
  `core_id` is compared without the package: two cores of different packages
  with the same number fail the check, so it errs on the side of refusing.
  `PreflightIsSound` excuses an unreadable file explicitly, by the ghost `blind`.
* Dropping a locked allocation of the global allocator does not `munlock` it.
  `StaysResident` depends on that: locks do not nest, a page of the heap may
  hold two allocations, and unlocking with one would unlock the other.
* When `mlock` fails, the panic of `allocate` leaves the region without an owner
  (the state "leaked"); it is never reused and disturbs no other allocation.
* A debug build loses the item whose `push` panics at the end of `usize`, and
  nothing else: the producer always gets there before the consumer, so no slot
  is read twice.

## Proofs

`SeqLockProofs` proves, for every set of readers, number of words, even modulus
and number of writes:

* `TypeCorrect`: `Spec => []TypeOK`;
* `ReadsAreConsistent`: `Spec => []NoTornRead`;
* `SeqLockImplementsCell`: `Spec => ImplementsCell`, the refinement of
  `SnapshotCell`, if `2 * MAX_WRITES < SEQ_MOD`;
* `SeqLockSamplesAreFresh`, `BenchReadsAreConsistent`: `BenchSpec =>
  []SamplesAreFresh` and `BenchSpec => []NoTornRead`, for the benchmark around the
  lock, if `BenchConstants`.

`NoTornRead` speaks of the last returned value only, so it is far from
inductive.  `IInv` adds: `Shape`, what has been written so far (the n-th message
of `seq` has value n - 1 modulo `SEQ_MOD`; a word's n-th message is the value of
write n - 1), and that the views carried by messages never point past the end;
`Progress`, how far the writer is; `Carried`, that the even message of write k
carries a view in which every word has message k + 1 (the Release store); and
`Fenced`, that a message of write k of a word carries the odd `seq` of write k
(the Release fence).  `Reading` is the heart: a reader whose first load returned
message t has seen the words of write (t - 1) / 2, and if any word it has loaded
since is newer, then what it will know after its acquire fence includes a later
message of `seq`.  So the second load cannot return a message with the same
number unless the numbers went through a whole cycle.  `IInv` was found with TLC,
as an invariant of the runs' instances, before it was proved.

For the refinement `Coherent` is added: nobody has observed a message of `seq`
that does not exist.  The cell's value is the last completed write.  A step of
`write` other than the last store of `seq` is a stutter; a read that returns the
value of write k has seen `seq` as far as write k completed, and the reader's
earlier reads bound k from below, since views only grow.  The hypothesis says
that `seq` does not repeat: a read during which it does may return a torn value,
which is no step of the cell.

`BenchConstants` says what the benchmark makes of the lock's constants: one
reader, one more location for the flag, and as many writes as the benchmark has
time stamps.  It is a hypothesis rather than an assumption of `SeqLockBench`, so
that the theorems about the lock alone do not depend on it; `MCSeqLockBench`
assumes it, so TLC evaluates it on the run.  `BenchInv` is `IInv`, which the flag's
store and load keep (`StoreFlag`, `LoadFlag`), with two parts.  `InOrder`: what the
reader has observed, and a read in progress, is no older than the value it
returned last.  `Sampled`: the last sampled time stamp is that of one write, no
newer than the value read last and no smaller than the number of samples.
`SamplesAreFresh` alone is not inductive, as it says nothing of how the next
value read compares with the last sample.  A value that differs from the last one
is a later write's (`SampleStep`), by `NoTornRead`: with a torn value "differs"
would not mean "is later".

The lemmas about the memory (`WeakMemoryProofs`) say what a load, a store and a
hand-over do to views and to the typing of messages, for any set of locations;
the proofs about all three structures use them.  `ModLemmas` has the arithmetic of
`%` and `\div` that the SMT solver does not find by itself.

`SpscProofs` proves, for every capacity, every modulus `WORD` of the counters
that is a multiple of it, any number of pushes, with and without overflow checks,
and with destructors that panic:

* `SpscTypeOK`, `SpscNoDataRace`, `SpscSlotDiscipline`, `SpscAccountedFor`: the
  four invariants of the run `spsc`;
* `SpscImplementsFifo`: `Spec => ImplementsFifo`, the refinement of `BoundedFifo`.

None of these is inductive.  The counters wrap, so the argument is about the
number of messages in the modification orders of `tail` and `head`, which never
do: `Counts` says that the counters are these numbers modulo `WORD`; `Cached`,
that the producer's copy of `head` and the consumer's copy of `tail` are old
values of the counters whose messages the thread has seen; `ViewsCoherent`, that
whoever knows a message of `tail` (`head`) knows all accesses to the slots that
were filled (emptied) before it, which is where the Release stores and the Acquire
loads enter; `Contents`, that a slot between the counters holds its item and one
outside none; `Accounts`, where each item is; `Handles`, what a handle that is
dropped leaves behind, and how far the destructor is.  Old copies of counters
only make a thread refuse too often, never access a slot too early.

`SpmcProofs` proves, for every capacity, number of consumers, words and publishes,
and every even `WORD` that is a multiple of the capacity and more than twice as
large:

* `SpmcTypeOK`, `SpmcValueAtItsPosition`, `SpmcOddMeansLapped`: `Spec => []...`;
* `SpmcLappedAdvances`: `Spec => []LappedAdvances`, if `CAPACITY > 1` and
  `MAX_PUBLISH <= WORD`;
* `SpmcImplementsLog`: `Spec => ImplementsLog`, the refinement of `BroadcastLog`,
  if `MAX_PUBLISH <= WORD \div 2`;
* `SpmcNothingUnobserved`: `BenchSpec => []NothingUnobserved`, for the benchmarks
  around the queue, if `BenchConstants`;
* `SpmcReportAddsUp`: `BenchSpec => []ReportAddsUp`, if `BenchConstants` and
  `CAPACITY > 1`.

`IInv` is that of the sequence lock once per slot, tied together by the cursor.
`Producing` says how far `publish` is; `History`, what each turn's messages of a
slot's `seq` and words say and carry (a word its odd `seq`, the even `seq` the
words, the cursor the even `seq` of all positions before it); `Fences`, what the
release fence has announced; and `Readers`, for each consumer, that its cursor is its
position modulo `WORD`, what it has seen since it loaded the cursor (`Reader`),
and what it has returned (`Returned`).  The hypotheses are about counters that
wrap.  The value at position q has the sequence numbers 2q + 1 and 2q + 2 modulo
`WORD`, so they repeat after `WORD / 2` publishes, and after `WORD` publishes a
consumer that never polled has the same cursor as the producer.
`spmc_capacity_one` shows that `LappedAdvances` needs the first hypothesis.
`WORD` is 2^64 on the machines the benchmarks are for.

For the benchmarks `BenchConstants` (assumed by `MCSpmcBench`) fixes one consumer,
the flag's location, and `MAX_PUBLISH = N < WORD`: `N` is a `u64`, and a benchmark
that runs for a time does not come to 2^64 publishes.  With `N = WORD` a consumer
that never polled would find its cursor equal to the producer's and return with
nothing seen.  `BenchInv` adds to `IInv`: `Protocol`, where the threads are
relative to each other and to their calls; `Accepted`, that `bus` has received no
more than it was sent; `Flag`, that `done` is stored once, after the last
publish, with a view of the newest cursor, which a consumer that acquired it has;
and `Counted`, that each result counted has moved the consumer on.  So an `Empty`
in the drain after the flag was compared with the newest cursor, and the consumer
is at position `N`.  `CAPACITY > 1` is needed for the reason that
`spmc_capacity_one` shows: a `Lapped` that skips nothing is counted and moves
nothing.

`AllocatorProofs` proves, for every set of allocations, layout sizes, word size
and page sizes that divide the word:

* `AllocationsFit`: `Spec => []BigEnough`;
* `LockedWhileAlive`: `Spec => []StaysResident`;
* `DropsSucceed`: `Spec => []DropSucceeds`.

`RoundUpCovers` shows that rounding a size up to isize::MAX to a page of at most
half the address space cannot wrap, and gives the least multiple that holds it.
`StaysResident` is not inductive: a hugepage `munmap` unlocks pages.  `Exclusive`
adds that a hugepage in use belongs to one region, so that only the dropped one
loses its lock; pages of the heap are shared, and rely on `GlobalDrop` unlocking
nothing.

`SpscBenchProofs` proves, for every capacity that is a power of two (which
`spsc::new` asserts), every queue behind the adapters, every rate, clock frequency,
precision `ONE` of the period and configured number of items up to `ONE`, with and
without threads that cannot be pinned:

* `ScheduleStaysClose`: `BenchSpec => []ScheduleDrift`;
* `SpscAllItemsSampled`: `BenchSpec => []AllItemsSampled`;
* `SpscBackpressureIsReal`: `BenchSpec => []BackpressureIsReal`.

The inductive invariant `OnSchedule` says that the schedule is the number of
items times the rounded period, and that this number is at most `ONE`, which the
clamp to `max_n` guarantees (`ItemsBounded`).  The arithmetic is
`RoundedPeriods`: a period is short of less than 1/`ONE` of a tick, so `ONE` of
them are short of less than a tick.  `SpscBenchAssumption` has `MAX_N <= ONE`; in
the code `ONE` is 2^32 and `max_n` is far below it.

The other two rest on `BenchInv` (`BenchInvariance`), the invariant `IInv` of the
queue inside the benchmark with four parts about the threads around it.
`Protocol` says where the threads are relative to each other and to their calls;
`Flow` that the items sent are in the queue or have been seen; `Flag` that `done`
is stored once, after the last push, in a message whose view has the newest tail,
and that a consumer that acquired it has that view; `Samples` how many
items have been offered to the histograms.  `IInv` is proved for a memory with any client locations, so the steps of
the queue keep it as in `SpscProofs`; `StoreFlag` and `LoadFlag` show that the two
accesses to `done` keep it as well, `QueueKeeps` that only `tail.store` and
`head.store` change what the benchmark looks at.  The heart is `PopEmptyStep`: a
draining consumer can load no tail but the newest, so an empty queue means that
as many items were popped as sent.  `BackpressureIsReal` adds `Counted`: a queue
that says full held `CAPACITY` items by the producer's own, possibly old, copy of
head (`FullExact`), so that many were sent before; and a report with system
latencies is made after the last of them was offered.

`BenchProgramProofs` proves, for every set of CPUs, topology, list of capacities
up to `MAX_CAP_ITEMS`, item size, page size and pool of hugepages:

* `PreflightSound`: `Spec => []PreflightIsSound`;
* `HugepagesAreEnough`: `Spec => []HugepagesSuffice`;
* `LocDeltasAreOwn`: `Spec => []LocDeltaIsOwn`.

`PreflightIsSound` is about the last moment of preflight.  `Checked` remembers,
for each check that is no longer in `todo`, what it found or which of `warnings`,
`failures` and `blind` it is in; nothing a check looks at changes before
`finish()`, and `ListsAreComplete` shows that each program's list has the checks
it needs.  `Pages` says that the free pages and those of the queue that is alive
are together what preflight asked for, if none of those it counted was reserved and
until another process takes one;
`PagesEnough` that no queue takes more (`div_ceil` is monotone).  `Interrupts`
says what each snapshot of `loc::read` holds; where a CPU's column is does not
matter, only that its header names the CPU.

Only model-checked:

* all liveness properties, since the prover does not handle fairness:
  `ReadTerminates`, `CatchesUp`, `EachItemDelivered`, `RetrySucceeds`,
  `BenchTerminates`.

Every invariant that a passing run checks is stated by a theorem.

## Not modelled

* The values of time stamps, percentiles and histograms, calibrating the TSC, and
  everything that is printed: there is nothing to check without real time.  Which
  samples `hist.record()` keeps depends on their values, so the histograms' contents
  are not modelled either, only what is offered to them.
* The loops of `run_spsc_throttled` over its rates and of `run_spmc_lapped` over
  its delays, each turn of which starts from nothing.  A rate of zero, which
  divides by zero before a thread is spawned.
* The insides of other crates' queues: atomic bounded queues here.
* The derived option builders, `shim` (which only chooses between `std` and
  `loom`), the loom and smoke tests, and the mains that parse the environment and
  call one of the modelled benchmarks.

## Plan

1. Done: `WeakMemory`, `SeqLock`, `Spsc`, `Spmc`, their abstract specifications,
   the benchmarks and programs around them, `Allocator`; the proofs of their
   safety properties and of the three refinements.
2. Left: a property for the values that the capacity sweep's and the lapped
   benchmark's single drain may leave behind would need the code to say whether it
   wants them; the outer loops of the benchmarks over rates and delays.
