# Specifications of benchmark_fun

TLA+ specifications, TLC configurations and TLAPS proofs for the C++ program in
this repository: a runner of micro-benchmarks, with the queues, containers,
allocators and generators it measures. The repository is checked out beside this
directory as `src/`, where the paths here and in `PROJECT.json` begin; a short
name such as `MPMC/vyukov.hpp` is a file under `src/src/benchmarks/` (`main.cpp` and
`one_and_dones/` are directly under `src/`; `utils/`, `stats/` and `timer.hpp` under
`src/src/`).

## 1. The system

`main` calls one function per topic, which
makes *benchables* and hands them to `executeBench`. That takes samples: for
each, every benchable is timed while it runs, is reset, and its time goes into a
collection by name; at the end the collection is printed. What is worth
specifying is what the benchables contain.

| Component | State | Operations | Interacts with | Hard | Correct when |
|---|---|---|---|---|---|
| Vyukov MPMC queue (`MPMC/vyukov.hpp`) | per slot a sequence number and an int; `write_idx`, `read_idx` | `push`, `pop`, empty `reset` | tester's threads, by shared memory | interleavings of many threads; relaxed loads; races on the plain int; a thread stopped between claim and publication | slots are used by one thread at a time, no data race, a FIFO queue, every call returns |
| Reservation MPMC queue (`MPMC/atomics.hpp`) | data, two indices per side | `push`, `pop`, `reset` | same | ABA of wrapping indices; threads wait for each other's publication | only written slots are read, no data race, waits are not circular, a FIFO queue |
| Mutex MPMC queue (`MPMC/locked.hpp`) | `std::mutex`, `std::queue` | `push`, `pop`, empty `reset` | same | consumers spinning on the mutex | calls do not interleave; empty at reset |
| MPMC tester (`MPMC/MPMC_bencher.hpp`) | `ready`, `start`, threads | `runBenchmark`, `resetBenchmark` | runner; queue | start gate, join, second sample on the same queue | threads start together; all are joined; nothing left over |
| SPSC rings (`ring_buffers/{classic,cachy,condensed_cachy,slot}.hpp`) | data, two atomics or a flag per slot, cached indices | `push`, `pop`, `reset` | tester's two threads | stale caches; data ordered only by one release store | no race, values in order, nobody spins for ever |
| SPSC tester (`ring_buffers/ring_buffer_tester.hpp`) | two threads, `ready`, `start` | as above | runner; ring | as above | as above |
| Sparse set (`utils/sparse_set.hpp`) | three vectors, validity ids; handles outside | insert, three erasures, `clear`, `remove_if`, handles | its clients | any sequence of operations; an exception in an insertion; reused slots | ids keep naming their objects; handles tell the truth |
| Runner (`bench_runner.hpp`, `timer.hpp`, `main.cpp`) | collection, timer singleton | `executeBench`, `addTime`, `print` | every benchable, virtual calls | same benchable run again; exceptions; times put together by name | each run starts clean; a time is that of one run of one benchable; the report is whole or absent |
| Allocation bench (`allocation/allocation.hpp`, `new.hpp`) | pointers, sizes, arena pointer | `runBenchmark`, `resetBenchmark` | runner, heap | who frees what; the end of the arena | nothing freed twice or left; allocations disjoint and inside |
| Arena (`allocation/arena.hpp`) | next free byte | `allocate`, `emplace`, `reset` | allocation bench | the branchless padding | objects aligned, apart, little wasted |
| Vector and string benches (`weird_vector/`, `SSO/`) | a vector's capacity; a string | `runBenchmark`, `resetBenchmark` | runner | what a run leaves for the next | every sample uses the heap alike, and as the name of the benchable says |
| Branch benches (`branch_prediction/`, `attributes/`) | random numbers | same | runner | a reset that must draw and sort again; four ways to write one comparison | rivals count alike; the sorted one turns the branch once a pass |
| Layout benches (`SOA_AOS/`, `alignment/`, `vector_access/`) | entities, bytes, indices and their generator | same | runner | two layouts of one thing; generators that must keep in step | rivals do the same work; a write crosses a cache line as its name says |
| Execution policies (`execution_policies/`) | coordinates, a transformation | same | runner, the library's threads | five ways of one loop | all reach the same coordinates |
| Array fills (`rng/arrayfill.hpp`, `rng/mersenne_twister.hpp`) | generators; one static array for all | same | runner, each other through the array | numbers of the benchable before lie there | a fill leaves no number of another |
| Xoroshiro64* (`utils/xoroshiro_64_star.hpp`, `rng/arrayfill.hpp`; `one_and_dones/no_unique_address.cpp`) | lanes of state, up to two buffers | `advance`, fills, `get_uint32`, `get_float` | benchables | alignment of head and tail; refills; four instruction sets | exactly the array is written; each number used once; lanes are the scalar generator, no two states go on to the same |
| Xoroshiro128plus (`rng/xoroshiro128+.hpp`) | two words | a number, `jump` | runner: `jump` is its reset | constants and an order no run can test | a jump skips 2^64 numbers |
| Compile-time CSV reader (`one_and_dones/compile_time_csv/example.cpp`) | the members of `Row`, the rows | `split`, `sanitize`, `parse_field` | the compiler | spaces, empty lines, damaged files | what was written is read, what is damaged is refused |
| Statistics (`stats/*.hpp`), the rest of `one_and_dones/` | none over steps | | | | not modelled, see section 8 |

The full list, with the source files, is under `components` in `PROJECT.json`;
what is hard to test, line by line, under `hazards`.

## 2. The modules

| Module | Models | Extends / instantiates |
|---|---|---|
| `AbstractQueue` | what every queue promises: a bounded FIFO queue with try-operations, which nothing but a pop takes a value out of (`reset` comes when it is empty) | |
| `VyukovQueue` | `vyukov.hpp`, one action per shared access, with memory orders | `Queue == INSTANCE AbstractQueue` |
| `SlotArithmetic` | lemmas about remainders and positions, and about loops | |
| `VyukovQueueProofs` | theorems about `VyukovQueue` | extends both above |
| `AtomicMPMCQueue` | `atomics.hpp` over several samples, with `reset` | `Queue` |
| `AtomicMPMCQueueProofs` | theorems about `AtomicMPMCQueue` | extends it and `SlotArithmetic` |
| `MutexQueue` | steps of `locked.hpp` | |
| `MPMCQueueTester` | `MPMC_bencher.hpp` driving `MutexQueue` | extends it; `Queue` |
| `MPMCQueueTesterProofs` | theorems about the tester and the queue in it | |
| `SPSCThreads` | two threads, the modification order of an atomic, acquire and release | |
| `RingBuffer` | `classic.hpp`, `cachy.hpp`, `condensed_cachy.hpp` | extends `SPSCThreads` |
| `SlotRingBuffer` | `slot.hpp` | extends `SPSCThreads` |
| `BufferTester` | `ring_buffer_tester.hpp` with each of the rings | extends both; `Queue` |
| `BufferTesterProofs` | theorems about the tester with each of the rings | extends `SlotArithmetic` |
| `AbstractSlotMap` | what a sparse set promises: a map from ids to objects | |
| `SparseSet` | `sparse_set.hpp` | `SlotMap == INSTANCE AbstractSlotMap` |
| `SparseSetProofs` | theorems about `SparseSet` | |
| `BenchRunner` | `executeBench`, `BenchmarkCollection`, `Timer`, what `main` does between calls | |
| `AllocationBench` | `allocation.hpp`, `new.hpp`, and `arena.hpp` as it uses it | extends `BenchRunner` |
| `Workloads` | the other benchables: constructors, runs, resets | extends `BenchRunner` |
| `Main` | `main.cpp`: each function with its benchables | extends `AllocationBench`, `Workloads` |
| `MainProofs` | theorems about the runner and all of its benchables: what is timed, the heap, what the runs do | extends `SlotArithmetic` |
| `Arena` | `arena.hpp` with objects of any size and alignment | |
| `CsvFiles` | no code: tables, how they are laid out and damaged, and the text that makes | |
| `CompileTimeCsv` | `compile_time_csv/example.cpp` | extends `CsvFiles` |
| `BitWords` | words and SIMD registers as sets of one-bits: shifts, rotation | |
| `XoroshiroRNG` | fills, and the three buffered generators | |
| `XoroshiroAdvance` | `advance()` on the bits, for every instruction set, with the scalar generator beside it | extends `BitWords` |
| `AlgorithmProofs` | theorems about `XoroshiroRNG`, `XoroshiroAdvance`, `Xoroshiro128plus`, `Arena` and `CompileTimeCsv` | extends them; `OneBit == INSTANCE Xoroshiro128plus` and `SlotArithmetic` |
| `Xoroshiro128plus` | `getRandomUint()` and `jump()` with words of 64 bits | extends `BitWords` |
| `MCMain` | what `main` may call, and small sets for random input | extends `Main` |
| `MCAlgorithms` | generators, arena and CSV reader side by side, and the tables of the reader's files | extends them |
| `MC...` | the other instances for TLC, with their symmetry | |

Definitions keep the names of the source (`write_idx`, `reserved`, `m_indexes`,
`isTiming`); an action is named for the call and what it comes to (`PushFull` is
the `return false` of `push`). The `map` of `PROJECT.json` gives the lines of
each. A definition whose comment starts with *Mutant* is a plausible bug in the
definition it stands before; nothing uses it. Putting it in place of that
definition makes the property named in `mutants` fail.

### How state and actions correspond to the code

**Vyukov queue.** `pc[t]` is the access to shared memory thread `t` makes next,
`pos[t]` its local. An action is one load, compare-and-swap or plain access,
with the local computation after it: `PushReady`, `PushFull` and `PushLostRace`
are the three outcomes of `diff`. `pos & mask` is `pos % Size`, as the power of
two asserted by the constructor makes it. The indices are unbounded: 64 bits do
not wrap while the program runs. A failed compare-and-swap leaves what it read in
`pos`, and with `SpuriousCAS` it may fail although the values match, as
`compare_exchange_weak` may.

*Memory model.* With `Stale`, a load of an index may return any value not older
than what the thread saw last, and a load of a slot's sequence any value of its
history. `order[t]` is the set of slots whose last plain access happens before
`t`'s next step; it grows only when an acquire load reads the latest release
store of a sequence, and every access by another thread takes the slot out
again. Reading an older sequence than the latest orders nothing in the model,
which is less than C++ grants. `RaceFree` then says that acquire and release of
the sequence alone are enough. In this way no order of the loads of the two
indices is relied on.

**Reservation queue.** The same style, with wrapping indices, four of them. Its
loads see the latest value, as they do on the x86 processors the program is built
for (`timer.hpp` includes `x86intrin.h`), and where a `compare_exchange_weak` with
equal values does not fail. What orders the plain accesses to `data` is not taken
from x86: `write_order` and `read_order` say which accesses a release swap of a public
index publishes, its own and those of the swaps before it, whose release sequences
it continues; `order[t]` is what an acquire load took over for the slot `t` is to use,
and `RaceFree` asks that it is enough. A swap of a public index that fails changes
nothing, so the spinning is stuttering.

**Mutex queue and tester.** `std::mutex` is who holds it, `std::queue` a sequence
and each call on it a step. The tester's main thread creates threads in pairs, a
consumer first, opens the gate when all are ready, joins, resets and goes on
to the next sample.

**SPSC rings.** An atomic is the sequence of stores to it; a load returns any
store from the one the thread saw last on. A store carries the number of
releases its thread has made, an acquire load takes that number over, and a
plain access compares it with the releases that followed the other thread's
last access: if it is behind, `racy` becomes true. The classic and the caching
ring are one module: `ClassicPush` always loads the other index, `CachingPush`
only when the cached one does not suffice (`RingPushHit` is when it does), and
likewise the pops. `condensed_cachy.hpp` is the caching ring with other members
next to each other.

**Sparse set.** A vector is a function on all positions it could have and its
length. One action is one public operation, whole: `EraseID` is the increment
of the validity id, the three swaps and the `pop_back`. `PushBackThrows` is the
insertion whose object's constructor throws after the slot was taken. Only
`remove_if`, which runs a predicate of the client, is one step per object. A
handle carries a ghost field, `gone`: whether its object was erased since.

**Runner.** `pc` walks through the lambda `bench` of `executeBench`; where it calls
a benchable (`run`, `reset`) the steps are those of `AllocationBench` or
`Workloads`. A benchable is a record of its class, template arguments and name;
its data members are in `members`, and `Construct` gives them what its constructor
leaves. The number of cycles is modelled by `work`: whose work it was, how often
the heap was asked and given back while the timer was going, and `did`, the input
a run found, the outcome it left and the quantity the benchmark is there to show
(`shows`). An exception may come out of a constructor (`ConstructThrows`), out of the
allocations, parallel algorithms and threads of a run (`AllocateThrows`, `RunThrows`),
out of the reservation or the `random_device` of a reset (`ResetThrows`), out of
`addTime` (`AddTimeThrows`), and out of `print` if there are too few times
(`PrintThrows`), and ends in `main`'s handler. (A thread that cannot be created
while others of its tester are there ends the program at once; nothing more is
printed then either.) No allocation fails in the copies `print` itself makes: after
the first entry that would leave half a report. A loop that asks the heap is one step per iteration, any
other loop over members is one step.

**Allocation bench and arena.** In `AllocationBench` the arena counts bytes from its
beginning, as `std::byte` needs no padding; `new` gives any block that is free, and
one heap is shared by all benchables. `Arena` is the same arena with types of any
alignment: `Allocate` is both `allocate` functions, `Emplace` the third.

**Workloads.** A random number is any member of a small set, an index of
`VectorAccess` its place in the sequence of its generator, a float coordinate the
history of what was done to it, a number of an array fill whose it is and which.
`std::vector` grows as in libstdc++ and `std::string` keeps 15 characters inside, the
two numbers of that library `src/README.md` builds on. `std::for_each` applies its
function to every element, in no order that could matter. The queue testers stand
among the benchables with what `CleanAtReset` and the liveness properties of their
own modules show: every run ends (of the `MutexQueue`, if its consumers leave the
producers the mutex), and the queue is empty after it.

**CSV reader.** A file is a sequence of characters (a name or a type is one); `Split`
and `Sanitize` are the functions, `DefineRow` the consteval block, `ReadRow` a turn of
the loop over the lines. What the compiler refuses, an exception or an index out of
bounds in a constant expression, is `Refuse`. The loops of `split` and `parse_size_t`
are recursive functions of the number of characters they have passed. What is *given*
to the reader is in `CsvFiles`: a table, the numbers of spaces and empty lines around
its parts, perhaps one damage, and the text a writer makes of them (`Text`).

**Xoroshiro64\*.** In `XoroshiroRNG` a number is its batch and its lane; the bits
are left out. A fill is called with any start address and length; `FillShort`,
`FillHead` and `FillAligned` are its three beginnings, `StoreBatch` a turn of its
loop, `FillRemainder` its end. `version` says which buffered generator is asked for
numbers: `Sequential` and `Heavy` fill their buffers when they are made, `Buffered`
does not, and has only the buffers for the types it is told. `XoroshiroAdvance` has the bits: a register is the
set of its ones, an xor the symmetric difference, and a step of `advance()` goes
with a step of a `ScalarXoroshiro64Star` per lane that was given the same words.
The number itself is, in both, the first word times a constant; the product is
left out. `splitmix64` of the constructors may give any words.

**Xoroshiro128plus.** `JumpBit` is a turn of `jump`'s inner loop, `JumpEnd` its
last two assignments. The xors it does do not depend on the state, so the
variables are functions of the state it started from and one behaviour follows
all of them. Beside it `leap` holds where 2^k numbers lead, by repeated squaring
of the linear map that one number is (`Double`, not in the code). The run starts
from `SingleBits`, the states with one bit.

## 3. The runs

All bounds are constants in the `.cfg`. Every passing run finishes the whole
state space.

| Run | Question | Bounds |
|---|---|---|
| `vyukov_safety` | Is the ring exclusive, free of races and a FIFO queue in every interleaving, with stale loads and spurious failures? | 2 producers, 2 consumers, 2 slots, 2 calls each |
| `vyukov_stall` | When one thread of each kind stops anywhere, do the others' calls return, and what does `false` mean? | the same, `Stalled = {p1, c1}`, with fairness |
| `vyukov_one_slot` | (violation) Is a ring of one slot, which the constructor accepts, exclusive? | 1 slot |
| `atomic_mpmc` | Is the reservation queue a FIFO queue without data races, are its waits acyclic, does every sample end and reset? | 2 + 2 threads, 3 slots, 2 calls each, 2 samples |
| `atomic_lap` | (violation) Does a pop reserve only what was written, when a thread can be a lap late? | the same with 2 slots |
| `atomic_stall` | (violation) Does it stay lock free when a producer stops? | 3 slots, 1 call each, `Stalled = {p1}` |
| `mpmc_tester` | Do the threads start together, is the queue clean at its empty reset, does the mutex make it a FIFO queue, what can keep a sample from ending? | 2 + 2 threads, 2 calls each, 2 samples |
| `buffer_tester` | The same questions and data races, for the three kinds of SPSC ring | 4 slots, 10 values, 2 samples |
| `sparse_set` | Do ids, handles and the implemented map survive every sequence of operations? | 3 slots, 2 kinds of object, validity ids to 3, 2 handles |
| `main` | Does every function of `main.cpp` start its runs clean, measure one run at a time of what it is named for, do the same work with rivals, and report all or nothing, also with exceptions? | every function alone, two sequences of them; 1 or 2 samples with 2 needed, 2 iterations, 2 elements, 2 sizes, 2 lists of 3 numbers |
| `arena_overrun` | (violation) Does the arena stay inside its memory? | the capacity per element of `main.cpp` |
| `algorithms` | Do fills write exactly the array, and is every number used once? Are the lanes the scalar generator, and is `advance()` reversible, for every instruction set? Does `jump()` skip 2^64 numbers? Do the arena's objects lie apart? Does the CSV reader read what was written and refuse what is damaged? | registers of 4, starts to 7, lengths to 11, 4 batches; registers and constants as in the code, states with one bit, 3 steps; 3 objects of 4 types; tables of up to 2 columns and 2 rows, 24 layouts, 7 damages |

Why these bounds are enough for the interesting cases:

- *Queues.* Two threads of each kind are the least in which a race is lost to one
  of the same kind while the other side moves. Four values through two (or, in
  `atomic_mpmc`, two usable) slots let both full and empty happen and each slot
  be used in two laps. In `atomic_mpmc` four values through three slots are too
  few for a thread to be a whole lap late; `atomic_lap`, with two slots, shows
  what happens then. The passing run therefore holds under the condition that
  between the check and the swap of one thread the others do not go round the
  ring once. Section 5 makes it exact (`NoLap`: the calls of the *other* threads of
  a side in a sample are fewer than the slots; 2 < 3 in `atomic_mpmc`, 2 < 2 fails
  in `atomic_lap`). The numbers of `MPMCQueueBench` (`main.cpp:276-284`: 2^24 slots,
  10 pairs, 10,000 calls each) meet it, and so the queue commented out there would
  work; nothing in the constructor of the queue asks for it.
- *SPSC rings.* Ten values go round four slots two and a half times in each of two
  samples, with stale loads over all of them. Ten is no multiple of four, so the
  indices and their cached copies do not stand at zero by chance when `reset` comes.
- *Sparse set.* Three slots give an erasure of the first, of a middle one and of
  the last; validity ids up to 3 let a slot be used, freed and used again.
  Two handles can name one slot in different uses. Operations that would exceed
  a bound are disabled, so the model may come to rest: the set is passive and
  its client may simply stop, hence `CHECK_DEADLOCK FALSE` in this run only.
- *Runner.* `Needed = 2` stands for the 30 samples `print` asks for, with sample
  counts on both sides of it; two samples are what a comparison of samples needs.
  Two iterations over two elements tell the inner loop from the outer. Capacity
  40 is never reached: 4 allocations of at most 6 bytes. The three allocation
  functions come in a row because they share a heap, and one sequence puts a
  function that fills the shared array between two that do not.
- *Workloads.* The lists hold a number below, at and above each of the two
  thresholds, which are those of the code; the array writes are all twelve offsets
  of `main.cpp`. A `uint8_t` coordinate does not come round in so few iterations.
- *Arena.* The types are what alignments 1, 2, 4 and 8 look like, one of them larger
  than its alignment; three objects put each after each. The theorem has no bound.
- *CSV.* Spaces before and after a cell, empty lines before and after the table, each
  present or not, and every damage in every column or line it can be done to.
  Numbers have two digits or three, and `size_t` 8 bits, which one of them exceeds.
  The theorems have no bounds.
- *Generator.* Every start offset in a register and lengths up to almost three
  registers: head, whole registers and tail, each present or absent. Four
  batches refill both buffers in either order.
- *Bits.* Rotations, shifts and xors commute with xor, and so do `advance()`,
  the scalar generator and `jump()`: equal on the states with a single bit, two
  of them are equal on all. That is why the runs need no other start states, and
  widths need not be reduced; section 5 proves it of `jump()` (`SingleBitsSuffice`)
  and what the run checks of `advance()` from any seeds. Three steps carry a bit through every operation,
  across the lanes where they are woven.

## 4. Fairness

Threads are kernel threads that the operating system schedules preemptively on
processors of their own or not; each is given weak fairness of its steps, except
those in `Stalled`, of which nothing is assumed. A step that only reads an old
value again changes no variable, so weak fairness implies that a store becomes
visible in the end, as C++ asks of implementations. Nothing more is assumed of the
mutex of `MutexQueue`, as `std::mutex` promises no order: consumers that spin on an
empty queue (`MPMC_bencher.hpp:49`) free it again and again, and weak fairness of a
producer that waits does not give it the mutex in between. That every sample ends
would need strong fairness of taking the mutex and is not so in this code.
`OnlyStarvationDelays` says what is: a sample ends, or from some point on a producer waits for the
mutex beside an empty queue while consumers take it for pops that fail. No
thread is left at the gate, at a mutex nobody gives back, or spinning for a value
that was pushed. The sparse set, the runner and what it
runs, the generators and the reader are sequential: only safety is stated.

## 5. What the proofs show

`tlapm` checks all of the following from nothing; TLC found each formula to hold
on the small instances first.

**Vyukov queue** (`VyukovQueueProofs`), for any number of producers, consumers and
calls, any size and both memory models, from `ThreadsAssumption` and
`SizeAssumption` (the constructor's assertion). `RingCorrect` and those after it
need two slots or more as well; with one they are false, see section 7.

- `TypeCorrect`: the type invariant, together with "a thread inside a call has
  calls left to make" (`InCall`), without which a pushed value has no type.
- `RingCorrect`: the inductive invariant `RingInv`. That slots are exclusive is
  not inductive: that nobody else is inside depends on what the slot's sequence
  says, what it says on the position of the two indices (`QueuedInv`, `FreeInv`,
  the two arcs of the ring), on who owns the position (`WriterInv`, `ReaderInv`),
  and on what a thread about to swap has seen (`LoadedInv`): a swap succeeds only
  if the index did not move, and then the slot is still as it was seen.
  `OrderInv` adds that the thread that will win is ordered after the last access.
- `SlotsExclusive`, `NoDataRace`, `CapacityKept` (never more than `Size` values,
  a theorem only: `RingInv` is what the run checks) follow from it.
- `FalseReliable`, with loads that see the latest value (`~Stale`): `false` from
  `push` or `pop` means that the queue is full or empty, or that the one thread that
  has the very slot is not done with it. A thread that sees
  older values may be told `false` too late, so `vyukov_stall` has `Stale` off as well.
- `QueueImplemented`: every behaviour is one of `AbstractQueue`, under both memory
  models. The mapping takes for the queue the values between the two indices, those
  still being written included, so the invariant needs `WrittenInv` (what a claimed
  slot will hold, its producer is holding) beside `RingInv`: `FifoInv`. The swap of an
  index is the abstract push or pop; every other step is a stutter.
- The arithmetic it rests on (`SlotArithmetic`): positions one lap apart share a
  slot, positions closer do not.

**Reservation queue** (`AtomicMPMCQueueProofs`), for any number of pairs, calls, slots
and samples, from `AtomicAssumption` (as many producers as consumers, finitely many,
`MPMC_bencher.hpp:28-32`) and the hypothesis `NoLap`: (pairs - 1) × calls < slots. It is
a hypothesis and no assumption, as the code does not enforce it; `atomic_lap` shows that
with one slot less the theorems are false.

- `ReservationsStaySound`, `AccessesNeverRace`, `TurnsNeverBlock`, `QueueImplemented`:
  what the runs check, by one inductive invariant, `TypeInv /\ RingInv`.
- The indices alone say nothing, as they wrap. `IndexInv` says that each is a *count* of
  calls modulo the capacity: `Popped`, `Popping`, `Pushed`, `Pushing`, sums over what
  each thread has done, with or without the call under way. `WindowInv` orders
  the counts: Popped ≤ Popping ≤ Pushed ≤ Pushing ≤ Popped + slots - 1. That is what
  `ReservationsSound` says and what no single load can know.
- `WithinLap` is where `NoLap` enters: of the calls of a side, a thread between its
  check and its swap can have slept only through those of the others, so the count
  has moved by less than a lap, and an index that looks the same is the same
  (`LoadedInv`, what the thread saw is still so).
- `OwnInv`: the threads that hold a reservation hold exactly the calls between the two
  counts of their side, one each; the holder of the first can publish
  (`TurnsNeverBlock`). `OrderInv`: what a public index orders. `WrittenInv`: what a
  reserved slot will hold, for the refinement.
- `JoinedCounts`: when all threads of a sample have been joined, the four counts are
  equal, because the sides are equally many: `reset` drops nothing.

**Sparse set** (`SparseSetProofs`), for any number of ids, handles and objects,
from `SparseSetAssumption`.

- `TypeCorrect`, `IndexesCorrect`, `HandlesCorrect`, from the inductive invariant
  `Inv == TypeInv /\ IndexesInvertRids /\ HandleInv`. `HandlesTellTheTruth` alone
  says nothing about how far the validity id of a slot is from those of its old
  handles, so it would not survive the next reuse of the slot: `HandleInv` says
  that a handle whose object is gone has a *smaller* validity id. The parts
  cannot be proved one after the other, as erasing through a handle is sound
  only if a valid handle has an object.
- `RemoveIfCorrect`: `remove_if` leaves exactly the objects that do not match. Its
  loop invariant says that what lies before the position looked at is to stay, and that
  nothing that is to stay has gone; that an erasure brings the last object to that very
  position is why the loop does not go on after one.
- `MapImplemented`: every operation is one of `AbstractSlotMap` or a stutter. That
  swaps of positions change no object under its id is `IndexesInvertRids` again.
- `MaxValidity` bounds the validity ids in the theorem as in the runs: the code's
  ids are 64 bits wide and what holds after they wrap is not claimed.

**Mutex queue and its tester** (`MPMCQueueTesterProofs`), for any number of pairs,
iterations and samples, from `TesterAssumption`: as many producers as consumers, and
finitely many (`numPairs`, `MPMC_bencher.hpp:28-32`).

- `StartsTogether`: by `GateInv`, `ready` is the *number* of threads that have
  reported, and a finite set as large as all threads is all of them.
- `ResetIsClean`: the queue is empty at its empty `reset` by `CountInv`, its length is
  the successful pushes less the successful pops, counted where the effect comes,
  inside the lock; when all threads have ended, both are iterations times pairs.
- `QueueImplemented`: the mutex makes each call one step of `AbstractQueue`, and the
  reset drops nothing. Who is inside holds the mutex (`MutexInv`), and the consumer
  between `empty` and `pop` still has the front before it (`CallInv`).

**SPSC rings and their tester** (`BufferTesterProofs`), for any capacity,
iterations and samples, from `BufferAssumption` (the assertion of `slot.hpp:29`), for
all three kinds at once.

- `NoDataRace`. What the two kinds share (`Common`) is that the number of releases a
  thread has acquired bounds what it may touch. For an index (`RingInv`) the
  modification order of the atomic is every position it went through, so a value seen,
  however old, tells how far the other thread was when it stored it, and how many
  of its releases were acquired with it; a cached index is such a value seen
  earlier. For flags (`SlotInv`) each slot's flag alternates, and its last store says
  which of the two threads the slot waits for.
- `QueueImplemented`: the elements from the first not yet popped to the last written
  are, in order, the numbers pushed and not popped (`ShowsHeld`).

**Xoroshiro64\*** (`AlgorithmProofs`). The fills and buffers for any width of a
register, any address and length, from `XoroshiroAssumption`; `advance()` from
`AdvanceAssumption` (the four specialisations, and registers of their widths), for
any seeds and any number of steps, where the run has three.

- `FillsAreExact`: by `FillInv`, before each step of a fill exactly the elements below
  the current one are written, with numbers none of which is used twice (`Covers`): the
  beginning of one batch for the head and of another for the tail, whole ones between.
- `NumbersReturnedOnce`: by `BufferInv`, the batches made are what was returned and
  what the two buffers still hold, with no number in two of them; a refill takes a new
  batch. The exception of `ConstructEmpty` (section 7) is in the property.
- `LanesAreScalar`: an advance of the registers is, lane by lane, the scalar step on
  the words of that lane. The lemmas are about `BitWords`: what bit a shift or a
  rotation puts where, that both stay in the lane, and that xor commutes with
  taking a lane; the vector code's rotation, two shifts put together, is the scalar's.
- `NoStateLost`: `AdvancedBack` takes an advance back for every width above 26, as
  `x ^ (x << 9)` and the rotations can be undone; two different states never go on to
  the same, so no two sequences run together.

**Xoroshiro128plus** (`AlgorithmProofs`), with `Start` the set of all states, 2^128 of
them, where the run has the 128 with one bit.

- `SingleBitsSuffice`: a behaviour of `jump()` from all states is, restricted to the
  states with one bit, the behaviour the run checks (`OneBit`, an instance of the same
  module), and if `JumpIsLongRun` holds of that one it holds of all states. The
  inductive invariant `JumpInv` says that `state` and `local` are linear maps at every
  turn of the loops, from `RandomOfXor`; `Image` is linear whatever its columns are,
  as the parity of a symmetric difference is the sum of the parities (`XorParity`).
  Two linear maps that agree on single bits agree: by induction over the highest bit a
  state has (`LeapsEverywhere`). Together with the run, whose constants are those of
  the code, it makes "equivalent to 2^64 calls" true of every state; alone it says
  nothing of the constants of `JUMP`.

**Runner and benchables** (`MainProofs`), for any calls `main` may make, any number of
samples, iterations, elements, sizes and blocks, and exceptions at every place the
model has them. From `RunnerAssumption` and `AllocationAssumption` (counts are
positive), `TemplateAssumption` (an allocation bench is an instance of its template)
and `ProgramAssumption`: each call makes a benchable, and those of one call have
different names, which is what `addTime` tells times apart by and what all functions
of `main.cpp` keep to. A function that broke it would have its times mixed up.

- `StartsClean`, `AllocationsApart`, `OneRunMeasured`, `AllOrNonePrinted` from one
  inductive invariant, `Inv`. `RunnerInv` says how many entries and times the
  collection has at each point of the loops, and that each is of its benchable;
  `WorkInv` what was counted since the timer started; `OthersInv` that a benchable
  whose turn it is not holds no memory; `TurnInv` what the one whose turn it is holds,
  by where its loops are: for `new` the heap *is* that set of blocks, for the arena
  the pointers lie in order below `current`. None of the four properties is inductive:
  that the next run starts clean is known only by counting what this one frees.
- `SamplesApart`, `SubjectsShown` and `RivalsDoAlike` from `UsesInv` on top of `Inv`:
  each time says what its benchable used and did as a function of its template
  arguments, of its input and of *which sample* it is (`TimesInv`, `Use`, `Does`); its
  members are left as a constructor or a reset leaves them, and those no reset takes
  back, the coordinates of `AOS` and `SOA`, are where so many runs move them
  (`MembersInv`, `Left`); in the loop of a run the heap was used as often as so many
  pushes ask (`RunInv`). None of the three properties is inductive: they speak
  about times, and what a time is follows from members which they do not mention.
  They rest on assumptions the code justifies. `WorkloadAssumption`: positive counts.
  `ListsAssumption`: lists hold numbers of the distribution, 0 to 100000
  (`branch_prediction_unsorted.hpp:56-57`). `ArgumentsAssumption`: `AccessIndex < 64`
  (`alignment.hpp:13`), and a string has room for its null character
  (`small_string_optimisation.hpp:33`). `RivalsAssumption`: a function of `main.cpp`
  compares benchables of one family, with the same type of entity and the same number
  of pairs; TLC checks it of all the functions in `Main`.
- What a run computes is a recursion over its iterations, which no prover unfolds for
  every number of them. `Loop` is a recursive *function*; that it is the only one with
  its rounds, for every number of rounds, is proved with `Induction` (a set of numbers
  with 0 and the successors of its members is all of them, from the
  well-foundedness of finite sets, `Least`). So are how often a vector grows
  (`IsGrown`, `GrownOnce`, `GrownCounts`), that the indexed loop of the execution
  policies does what `for_each` does (`LoopIsForEach`, `PoliciesAlike`), that the
  branchless sums are those of the branches (`AttributesAlike`), that two layouts
  move the same entities alike, `uint8_t` coming round included (`EntitiesMoved`,
  `LocationsMoved`), and whose numbers are in the array in the end (`FillsWhole`).
- That the sorted version counts what the unsorted one counts needs that sorting
  permutes: a sorted order exists for every list (`CanOrder`: the
  place of a number is how many are not behind it) and an order changes no count
  (`SuccessesOrdered`). That it turns the branch at most 2 × iterations - 1 times is `TurnsBound`: within a pass at
  most at one place, and between two passes once more.

**Arena** (`AlgorithmProofs`), for any types, counts and beginning, from
`ArenaAssumption`: sizes and alignments are positive.

- `ObjectsLieApart`: every object lies aligned, after the one before it, with less
  than one alignment wasted. The inductive invariant `ArenaInv` adds to it only
  that addresses are numbers; what carries it is that `current` is the end of the last
  object, a part of the property itself.
- `NextMultiple` is the branchless increment: `(a - x % a) % a` is less than `a` and
  leads from `x` to a multiple of `a`, from the uniqueness of remainders in
  `SlotArithmetic`.

**CSV reader** (`AlgorithmProofs`), for any tables, numbers of spaces and empty lines,
lengths of numbers and width of `size_t`, from `NamesAssumption` (names have no space,
comma, point or end of line in them), `FileAssumption` (a file is the text of a table)
and `CsvAssumption`.

- `WellFormedReadsBack`, `DamagedRefused`: what the run checks. The inductive invariant
  `CsvInv` (`CsvInvHolds`) says that the members are those of the header, that some
  number of lines below it, each long enough, was read into as many rows, and that a
  file without damage is never refused. What the properties need beside it is what the
  text is split into, which is a matter of the functions alone.
- `SplitJoin`: what was joined with a delimiter that no part contains, `split` takes
  apart again. The joined line is *spread* over its parts (`Spread`: part `k` lies from
  `starts[k]` on, and a delimiter before `starts[k + 1]`), by induction over the parts
  (`JoinSpread`); and the loop of `split`, by induction over the characters, is always
  inside one part with those before it put out (`SplitSpread`). `SanitizePadded`:
  what was put around a text, `sanitize` takes away.
- `NumberRead`: what `parse_size_t` makes of the digits is the number modulo 2^w, as a
  remainder may be taken before the next digit is added or after (`ModTimes`).
- `HeaderRead`, `LinesRead`, `RowsRead` put these together, lines within a text, cells
  within a line, a name and a type within a cell; also of the damaged files, of which
  they show the one pair, type, name or line that the reader then stumbles over.

Most type invariants are part of the inductive invariants of the proof modules
(`TypeInv`, `TesterTypes`, `FlagTypes`, ...) and no properties of their own; where no
proof needs one, the bounds that could fail are in the properties (`EveryNumberOnce`).

## 6. What is only model-checked

- Liveness (`EveryCallReturns`, `Termination`, `OnlyStarvationDelays`): TLAPS does no fairness.
- `AtomicMPMCQueue` without `NoLap`: its properties are false then (`atomic_lap`).
- `JumpIsLongRun` for the states with one bit: a computation with the constants of
  `jump()`, which has no parameter to generalise. TLC does it, all of it; for a prover it
  is 128 turns with 64-bit words. From there to every state leads `SingleBitsSuffice`.

## 7. Findings

Each is a `violation` run with a counterexample.

1. *A Vyukov ring of one slot is not a queue* (`vyukov_one_slot`). The sequence
   `pos + 1` of a full slot is what a producer of position `pos + 1` waits for. The
   assertion at `vyukov.hpp:20` accepts the size 1. `main.cpp` does not use it.
2. *A late consumer of the reservation queue reads a slot nobody wrote*
   (`atomic_lap`): indices wrap, so its compare-and-swap succeeds although the
   ring went round since it looked at `write_idx`; `atomics.hpp:62` says "Know this
   has already been written to".
3. *The reservation queue is not lock free* (`atomic_stall`), which
   `src/README.md:417` and `:456` call it: a producer stopped after its reservation
   stops the next one inside `push`.
4. *The arena hands out memory beyond its end* (`arena_overrun`):
   `allocationAndDeletionAndVariableAllocBench` asks 1,000,000 bytes for about 6.4
   million, and `allocate` compares nothing with `end`.

Smaller observations, which no run is about:

- `src/README.md:93` says that an iteration of the SoA/AoS benchmark moves `x`, `y` and
  `z`; in `SOA_AOS/structures.hpp` both layouts move `x` only, and the model does.
- `attributes/likely_attributes.hpp:45` and `:102` speak of a chance of 95 %; the
  threshold of 30,000 in 100,000 gives 70 %.
- `BufferedXoroshiroRNG` returns a buffer of uninitialised memory first:
  its constructor fills none, while `src/README.md:1144` speaks of buffers of elements
  that are refilled once used. `EveryNumberOnce` speaks of the numbers after those.
- The CSV reader ignores cells beyond the header's, reads an empty line inside a
  table of one column as a row with 0, and takes any character for a digit, `\r` at
  the end of a line included.
- `AllocationBench` does not delete its blocks when an exception ends a run.
- `allocation.hpp:78` and `:90` give back with `delete` what `new.hpp:21` got from
  `new T[N]`, which C++ leaves undefined. `Delete` is what it does to bytes in practice:
  the block is free again.

## 8. Not modelled, and why

Floating-point statistics (`stats/`, `Evaluation`, `hasEqualVariances`): pure
formulas TLC has no numbers for; nothing instantiates `anovas.hpp`, which takes the
size of a `join_view`, so there is no behaviour of it. Of the generators: the products
and `splitmix64` (multiplications that only mix bits), the subtraction of one after
the bits of a `float` are put together, and the Mersenne twister's engine, which is
the library's. What caches, prefetchers and branch predictors do, though that is what
several benches are about: the model shows the accesses and turns that cause it.
`localities/data_localities.hpp` and `software_prefetching/prefetch.hpp` break off in
the middle of a declaration, `container/containers.hpp` declares a class without
members, nothing instantiates `binary_search.hpp`: none of them has behaviour.
`utils/aligned_allocator.hpp` is stateless. The rest of `one_and_dones/`:
demonstrations of the language. Wording and layout of the report. CPU
pinning, which changes only how likely an interleaving is. Code after an
exception inside `getFreeID` of the sparse set, which leaves its vectors of unequal
length and has no defined behaviour. `eraseViaData` and `remove_if` count positions
in 32 bits where the ids have 64; a set of 2^32 objects is not modelled.

## 9. Plan

Order of work, the most important first; 10 is left.

1. Vyukov queue: module, runs, type and ring invariants proved.
2. Reservation queue.
3. Mutex queue and MPMC tester.
4. SPSC rings and their tester.
5. Sparse set: module, run, invariants proved.
6. Runner with the allocation bench; generators, with their bits.
7. The rest of the arena, with the lemma about the branchless increment.
8. The other benchables behind the runner, and all functions of `main.cpp`.
9. The compile-time CSV reader.
10. Loads of the reservation queue that are reordered: its relaxed load of a reserved
    index may come after the acquire load of the public one, so that an empty
    queue looks filled to a consumer whom another consumer overtakes. x86 does not
    do that; C++ allows it.
11. Proofs about all queues, the sparse set, the testers, the generators, the arena,
    the runner and the reader: done, as far as section 5 goes.

## 10. Running it

In this directory: `tlc -workers 2 -config MCVyukovQueue.cfg MCVyukovQueue`
checks one run (the pairs are under `runs` in `PROJECT.json`), and
`tlapm VyukovQueueProofs.tla` the proofs of a module.
