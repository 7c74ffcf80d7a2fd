-------------------------- MODULE AtomicMPMCQueue --------------------------
(***************************************************************************)
(* AtomicMPMCQueue (src/src/benchmarks/MPMC/atomics.hpp): a ring of slots   *)
(* with two indices per side.  A thread first reserves a slot by moving the *)
(* reserved index with a compare-and-swap, then uses the slot, then moves   *)
(* the public index from its reservation to the next: reservations are made *)
(* public in the order they were taken, each thread spinning until its turn.*)
(* All four indices wrap around at Capacity, so the same index value comes  *)
(* back after a lap.                                                        *)
(*                                                                         *)
(* One action per access to shared memory, with its memory order as far as  *)
(* data is concerned: loads see the latest value, but only an acquire load  *)
(* of a release swap orders accesses.  A compare-and-swap of a public       *)
(* index that fails changes nothing and is tried again: that spinning is a  *)
(* stuttering step and no action of its own.                                *)
(*                                                                         *)
(* The environment is MPMCQueueTester's, over several samples: each thread  *)
(* makes Iterations successful calls and repeats a call that returned false;*)
(* when all have been joined the queue is reset for the next sample.        *)
(***************************************************************************)
EXTENDS Naturals, Sequences, FiniteSets

CONSTANTS
  Producers,    \* threads running pushFn
  Consumers,    \* threads running popFn
  Capacity,     \* data.size()
  Iterations,   \* successful calls each thread makes in a sample
  Samples,      \* samples taken (bounds the model)
  Stalled,      \* threads the scheduler may stop running at any point
  None          \* what data and the out-parameters hold at first

Threads == Producers \cup Consumers

ASSUME AtomicAssumption ==
  /\ Producers \cap Consumers = {}
  /\ IsFiniteSet(Producers) /\ IsFiniteSet(Consumers)
  /\ Cardinality(Producers) = Cardinality(Consumers)   \* numPairs of each
  /\ Stalled \subseteq Threads
  /\ Capacity \in Nat \ {0}
  /\ Iterations \in Nat
  /\ Samples \in Nat \ {0}

VARIABLES
  data,
  read_idx,
  reserved_read_idx,
  write_idx,
  reserved_write_idx,
  pc,         \* pc[t]: the shared access thread t makes next
  reserved,   \* reserved[t]: the local of push and pop
  done,       \* done[t]: calls of t that returned true in this sample
  val,        \* val[c]: the out-parameter of consumer c's pop
  sample,     \* the sample being taken
  write_order,\* the slots whose last access an acquire load of write_idx is ordered after,
  read_order, \* the same for read_idx,
  order       \* order[t]: and for the next step of t, of the slot it is to use

indices == <<read_idx, reserved_read_idx, write_idx, reserved_write_idx>>
orders == <<write_order, read_order, order>>
vars == <<data, indices, pc, reserved, done, val, sample, orders>>

Slots == 0 .. Capacity - 1
NextSlot(i) == (i + 1) % Capacity

(* Every call pushes a value of its own, so that a lost, repeated or          *)
(* reordered value shows.                                                    *)
Value == Producers \X (0 .. Iterations - 1)
Arg(p) == <<p, done[p]>>

Init ==
  /\ data = [i \in Slots |-> None]
  /\ read_idx = 0 /\ reserved_read_idx = 0
  /\ write_idx = 0 /\ reserved_write_idx = 0
  /\ pc = [t \in Threads |-> "idle"]
  /\ reserved = [t \in Threads |-> 0]
  /\ done = [t \in Threads |-> 0]
  /\ val = [c \in Consumers |-> None]
  /\ sample = 1
  /\ write_order = Slots /\ read_order = Slots
  /\ order = [t \in Threads |-> {}]

Goto(t, from, to) ==
  /\ pc[t] = from
  /\ pc' = [pc EXCEPT ![t] = to]

(* reserved = idx.load(), at the start of a call or after a failed swap. *)
LoadReserved(t, from, to, idx) ==
  /\ Goto(t, from, to)
  /\ reserved' = [reserved EXCEPT ![t] = idx]
  /\ UNCHANGED <<data, indices, done, val, sample, orders>>

Finish(t) == done' = [done EXCEPT ![t] = @ + 1]

(***************************************************************************)
(* The acquire load orders t after the last access to the slot it is about   *)
(* to reserve, if the index says so; a plain access is behind every access   *)
(* to the slot that others are ordered after; and a release swap adds its    *)
(* own access to what the index says of those before it, whose releases it    *)
(* continues.  What a thread knows from its earlier calls is not counted.    *)
(***************************************************************************)
Acquire(t, idx_order) ==
  /\ order' = [order EXCEPT ![t] = {reserved[t]} \cap idx_order]
  /\ UNCHANGED <<write_order, read_order>>

Access(t) ==
  /\ order' = [u \in Threads |-> IF u = t THEN {reserved[t]} ELSE order[u] \ {reserved[t]}]
  /\ write_order' = write_order \ {reserved[t]}
  /\ read_order' = read_order \ {reserved[t]}

Forget(t) == order' = [order EXCEPT ![t] = {}]

(***************************************************************************)
(* push(val)                                                               *)
(***************************************************************************)
PushCall(p) ==
  /\ done[p] < Iterations
  /\ LoadReserved(p, "idle", "push_check", reserved_write_idx)

PushReload(p) == LoadReserved(p, "push_reload", "push_check", reserved_write_idx)

(* return false *)
PushFull(p) ==
  /\ Goto(p, "push_check", "idle")
  /\ NextSlot(reserved[p]) = read_idx
  /\ UNCHANGED <<data, indices, reserved, done, val, sample, orders>>

PushRoom(p) ==
  /\ Goto(p, "push_check", "push_reserve")
  /\ NextSlot(reserved[p]) # read_idx
  /\ Acquire(p, read_order)
  /\ UNCHANGED <<data, indices, reserved, done, val, sample>>

PushReserve(p) ==
  /\ Goto(p, "push_reserve", "push_write")
  /\ reserved_write_idx = reserved[p]
  /\ reserved_write_idx' = NextSlot(reserved[p])
  /\ UNCHANGED <<data, read_idx, reserved_read_idx, write_idx, reserved, done, val, sample, orders>>

(* The index left in reserved by the failed swap is loaded again at once. *)
PushReserveFails(p) ==
  /\ Goto(p, "push_reserve", "push_reload")
  /\ reserved_write_idx # reserved[p]
  /\ Forget(p)
  /\ UNCHANGED <<data, indices, reserved, done, val, sample, write_order, read_order>>

PushWrite(p) ==
  /\ Goto(p, "push_write", "push_publish")
  /\ data' = [data EXCEPT ![reserved[p]] = Arg(p)]
  /\ Access(p)
  /\ UNCHANGED <<indices, reserved, done, val, sample>>

(* Mutant: a push does not wait for the reservations before its own. *)
PushPublishOutOfTurn(p) ==
  /\ Goto(p, "push_publish", "idle")
  /\ write_idx' = NextSlot(reserved[p])
  /\ write_order' = write_order \cup order[p]
  /\ Forget(p) /\ Finish(p)
  /\ UNCHANGED <<data, read_idx, reserved_read_idx, reserved_write_idx, reserved, val, sample,
                 read_order>>

(* Mutant: the swap is relaxed when it succeeds, too. *)
PushPublishRelaxed(p) ==
  /\ Goto(p, "push_publish", "idle")
  /\ write_idx = reserved[p]
  /\ write_idx' = NextSlot(reserved[p])
  /\ Forget(p) /\ Finish(p)
  /\ UNCHANGED <<data, read_idx, reserved_read_idx, reserved_write_idx, reserved, val, sample,
                 write_order, read_order>>

(* return true *)
PushPublish(p) ==
  /\ Goto(p, "push_publish", "idle")
  /\ write_idx = reserved[p]
  /\ write_idx' = NextSlot(reserved[p])
  /\ write_order' = write_order \cup order[p]
  /\ Forget(p) /\ Finish(p)
  /\ UNCHANGED <<data, read_idx, reserved_read_idx, reserved_write_idx, reserved, val, sample,
                 read_order>>

(***************************************************************************)
(* pop(val)                                                                *)
(***************************************************************************)
PopCall(c) ==
  /\ done[c] < Iterations
  /\ LoadReserved(c, "idle", "pop_check", reserved_read_idx)

PopReload(c) == LoadReserved(c, "pop_reload", "pop_check", reserved_read_idx)

(* return false *)
PopEmpty(c) ==
  /\ Goto(c, "pop_check", "idle")
  /\ reserved[c] = write_idx
  /\ UNCHANGED <<data, indices, reserved, done, val, sample, orders>>

PopWritten(c) ==
  /\ Goto(c, "pop_check", "pop_reserve")
  /\ reserved[c] # write_idx
  /\ Acquire(c, write_order)
  /\ UNCHANGED <<data, indices, reserved, done, val, sample>>

(* Mutant: the reserved index is stored, not compared and swapped. *)
PopReserveByStore(c) ==
  /\ Goto(c, "pop_reserve", "pop_read")
  /\ reserved_read_idx' = NextSlot(reserved[c])
  /\ UNCHANGED <<data, read_idx, write_idx, reserved_write_idx, reserved, done, val, sample, orders>>

PopReserve(c) ==
  /\ Goto(c, "pop_reserve", "pop_read")
  /\ reserved_read_idx = reserved[c]
  /\ reserved_read_idx' = NextSlot(reserved[c])
  /\ UNCHANGED <<data, read_idx, write_idx, reserved_write_idx, reserved, done, val, sample, orders>>

PopReserveFails(c) ==
  /\ Goto(c, "pop_reserve", "pop_reload")
  /\ reserved_read_idx # reserved[c]
  /\ Forget(c)
  /\ UNCHANGED <<data, indices, reserved, done, val, sample, write_order, read_order>>

PopRead(c) ==
  /\ Goto(c, "pop_read", "pop_publish")
  /\ val' = [val EXCEPT ![c] = data[reserved[c]]]
  /\ Access(c)
  /\ UNCHANGED <<data, indices, reserved, done, sample>>

(* return true *)
PopPublish(c) ==
  /\ Goto(c, "pop_publish", "idle")
  /\ read_idx = reserved[c]
  /\ read_idx' = NextSlot(reserved[c])
  /\ read_order' = read_order \cup order[c]
  /\ Forget(c) /\ Finish(c)
  /\ UNCHANGED <<data, reserved_read_idx, write_idx, reserved_write_idx, reserved, val, sample,
                 write_order>>

-----------------------------------------------------------------------------
AllDone == \A t \in Threads : pc[t] = "idle" /\ done[t] = Iterations

(* Mutant: reset() forgets the reserved write index. *)
ResetForgetsReserved ==
  /\ AllDone
  /\ sample < Samples
  /\ read_idx' = 0 /\ reserved_read_idx' = 0 /\ write_idx' = 0
  /\ sample' = sample + 1
  /\ done' = [t \in Threads |-> 0]
  /\ reserved' = [t \in Threads |-> 0]
  /\ write_order' = Slots /\ read_order' = Slots
  /\ UNCHANGED <<data, reserved_write_idx, pc, val, order>>

(* reset(): resetBenchmark() after the threads of a sample were joined.  The   *)
(* next sample starts threads of its own.                                    *)
Reset ==
  /\ AllDone
  /\ sample < Samples
  /\ read_idx' = 0 /\ reserved_read_idx' = 0
  /\ write_idx' = 0 /\ reserved_write_idx' = 0
  /\ sample' = sample + 1
  /\ done' = [t \in Threads |-> 0]
  /\ reserved' = [t \in Threads |-> 0]
  /\ write_order' = Slots /\ read_order' = Slots
  /\ UNCHANGED <<data, pc, val, order>>

Finished == AllDone /\ sample = Samples /\ UNCHANGED vars

Push(p) ==
  \/ PushCall(p) \/ PushReload(p) \/ PushFull(p) \/ PushRoom(p)
  \/ PushReserve(p) \/ PushReserveFails(p) \/ PushWrite(p) \/ PushPublish(p)

Pop(c) ==
  \/ PopCall(c) \/ PopReload(c) \/ PopEmpty(c) \/ PopWritten(c)
  \/ PopReserve(c) \/ PopReserveFails(c) \/ PopRead(c) \/ PopPublish(c)

Step(t) == (t \in Producers /\ Push(t)) \/ (t \in Consumers /\ Pop(t))

Next ==
  \/ \E p \in Producers : Push(p)
  \/ \E c \in Consumers : Pop(c)
  \/ Reset
  \/ Finished

Spec == Init /\ [][Next]_vars

(* The scheduler keeps every thread running but the stalled ones. *)
FairSpec == Spec /\ WF_vars(Reset) /\ \A t \in Threads \ Stalled : WF_vars(Step(t))

-----------------------------------------------------------------------------
HasReserved(t) == pc[t] \in {"push_write", "push_publish", "pop_read", "pop_publish"}

(* How many calls the threads of T have made in the sample, if t made f[t]:    *)
(* those that have returned true, and those that have reserved their slot.   *)
CallsUpTo(f, T) == Cardinality({call \in T \X (0 .. Iterations - 1) : call[2] < f[call[1]]})
Begun == [t \in Threads |-> IF HasReserved(t) THEN done[t] + 1 ELSE done[t]]
Calls(T) == CallsUpTo(done, T)
Started(T) == CallsUpTo(Begun, T)

(***************************************************************************)
(* A pop reserves only a slot that a push has published: "Know this has     *)
(* already been written to" (atomics.hpp:62).  What the thread compared     *)
(* with write_idx is the reservation it read some time before its swap.     *)
(***************************************************************************)
ReservesWritten == Started(Consumers) <= Calls(Producers)

(* A push reserves only a slot that was never filled or whose value has been  *)
(* read: one slot always stays free (atomics.hpp:36-37).                     *)
ReservesFree == Started(Producers) <= Calls(Consumers) + Capacity - 1

(* Both checks hold at the swap although they were made before it. *)
ReservationsSound == ReservesWritten /\ ReservesFree

(***************************************************************************)
(* The plain accesses to data never race: whoever is about to use a slot is  *)
(* ordered after its last use, by the acquire loads and release swaps of the  *)
(* public indices alone, also when others published in between; so no two     *)
(* threads hold one slot and no value is read twice (src/README.md:494).      *)
(***************************************************************************)
RaceFree ==
  \A t \in Threads : pc[t] \in {"push_write", "pop_read"} => reserved[t] \in order[t]

(* At every moment some thread can take a step: the turns of the threads that *)
(* spin on a public index never wait for each other in a circle.             *)
SomebodysTurn ==
  /\ (\E p \in Producers : pc[p] = "push_publish") =>
        \E p \in Producers : HasReserved(p) /\ reserved[p] = write_idx
  /\ (\E c \in Consumers : pc[c] = "pop_publish") =>
        \E c \in Consumers : HasReserved(c) /\ reserved[c] = read_idx

(***************************************************************************)
(* The ring implements the abstract queue of one value less than it has     *)
(* slots: a push takes effect when it is published, a pop when it reserves. *)
(***************************************************************************)
Distance(i, j) == (j + Capacity - i) % Capacity

Queue == INSTANCE AbstractQueue WITH
  Capacity <- Capacity - 1,
  items <- [k \in 1 .. Distance(reserved_read_idx, write_idx) |->
              data[(reserved_read_idx + k - 1) % Capacity]],
  hand <- [c \in Consumers |-> IF pc[c] = "pop_read" THEN data[reserved[c]] ELSE val[c]]

ImplementsQueue == Queue!Spec

(* The threads of every sample can be joined: all values are pushed and       *)
(* popped (as many pops as pushes), and the last sample ends.                *)
Termination == <>(AllDone /\ sample = Samples)

(* A thread stopped anywhere keeps no other thread inside a call: what        *)
(* "lock free" (src/README.md:456) promises.                                     *)
EveryCallReturns == \A t \in Threads \ Stalled : []<>(pc[t] = "idle")
=============================================================================
