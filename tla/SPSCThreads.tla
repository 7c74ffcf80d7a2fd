---------------------------- MODULE SPSCThreads ----------------------------
(***************************************************************************)
(* The two threads of BufferTester, the pusher and the popper, and what the *)
(* C++ memory model lets one of them rely on about the other.               *)
(*                                                                         *)
(* An atomic is its modification order, the sequence of all stores to it.   *)
(* A load returns any of them that is not older than what the thread has    *)
(* already seen of the atomic.  To tell a data race, every thread counts    *)
(* its release stores: a store carries its number n (0 if it is relaxed),   *)
(* and a thread that reads it with an acquire load has acquired all that    *)
(* the other thread did before its n-th release.                            *)
(***************************************************************************)
EXTENDS Integers, Sequences

CONSTANTS
  Capacity,     \* what the queue is constructed with
  Iterations,   \* values passed in a sample
  None          \* data or an out-parameter never written

Pusher == "pusher"
Popper == "popper"
Threads == {Pusher, Popper}

VARIABLES
  pc,         \* pc[t]: "call", "access" or "publish": where t is in push or pop
  done,       \* done[t]: calls of t that returned true; the pusher's next value
  val,        \* the out-parameter of pop
  released,   \* released[t]: release stores made by t
  acquired,   \* acquired[t]: release stores of the other thread t is ordered after
  racy        \* has a plain access raced with one of the other thread?

threadVars == <<pc, done, val, released, acquired, racy>>

Slots == 0 .. Capacity - 1
Value == 0 .. Iterations - 1

ThreadInit ==
  /\ pc = [t \in Threads |-> "call"]
  /\ done = [t \in Threads |-> 0]
  /\ val = None
  /\ released = [t \in Threads |-> 0]
  /\ acquired = [t \in Threads |-> 0]
  /\ racy = FALSE

Goto(t, from, to) ==
  /\ pc[t] = from
  /\ pc' = [pc EXCEPT ![t] = to]

Store(v, n) == [v |-> v, n |-> n]
Initially(v) == <<Store(v, 0)>>
Latest(atomic) == atomic[Len(atomic)].v

(* The positions of the stores a load of t may read, which has seen one.      *)
Visible(atomic, seen) == seen .. Len(atomic)

(* load(acquire), of store s: what the store released is acquired. *)
AcquireFrom(t, s) ==
  acquired' = [acquired EXCEPT ![t] = IF s.n > @ THEN s.n ELSE @]

(* Mutant: store(v, relaxed). *)
RelaxedStore(t, atomic, v) == Append(atomic, Store(v, 0))

(* store(v, release): the atomic afterwards. *)
ReleaseStore(t, atomic, v) == Append(atomic, Store(v, released[t] + 1))

(* A plain object is a record of its content and of its last access: who made *)
(* it, and which of that thread's releases is the first to cover it.         *)
Plain(v) == [v |-> v, by |-> None, at |-> 0]

Touch(t, v) == [v |-> v, by |-> t, at |-> released[t] + 1]

Races(t, obj) == obj.by \notin {t, None} /\ acquired[t] < obj.at

(* return true *)
Return(t) ==
  /\ Goto(t, "publish", "call")
  /\ done' = [done EXCEPT ![t] = @ + 1]
  /\ released' = [released EXCEPT ![t] = @ + 1]
=============================================================================
