----------------------------- MODULE MutexQueue -----------------------------
(***************************************************************************)
(* MutexQueue (src/src/benchmarks/MPMC/locked.hpp): a std::queue whose push *)
(* and pop each hold one std::mutex.  The calls on the std::queue are steps *)
(* of their own: only the mutex keeps the calls of other threads from       *)
(* coming between them.                                                     *)
(*                                                                         *)
(* The module gives the steps of push and pop; MPMCQueueTester says who     *)
(* calls them.  std::mutex is modelled by its contract, who holds it, and   *)
(* std::queue by a sequence.                                                *)
(***************************************************************************)
EXTENDS Naturals, Sequences

CONSTANTS
  Producers,    \* threads running pushFn
  Consumers,    \* threads running popFn
  None          \* no thread, no value

Threads == Producers \cup Consumers

VARIABLES
  m,          \* the thread that holds the mutex, or None
  q,          \* the std::queue
  pc,         \* pc[t]: where thread t is in push or pop; "idle" outside
  arg,        \* arg[p]: the argument of producer p's push
  val         \* val[c]: the out-parameter of consumer c's pop

queueVars == <<m, q, pc, arg, val>>

QueueInit ==
  /\ m = None
  /\ q = <<>>
  /\ pc = [t \in Threads |-> "idle"]
  /\ arg = [p \in Producers |-> None]
  /\ val = [c \in Consumers |-> None]

Goto(t, from, to) ==
  /\ pc[t] = from
  /\ pc' = [pc EXCEPT ![t] = to]

(* Mutant: there is no lock_guard. *)
NoLock(t, from, to) ==
  /\ Goto(t, from, to)
  /\ UNCHANGED <<m, q, arg, val>>

(* std::lock_guard's constructor: the thread waits until the mutex is free. *)
Lock(t, from, to) ==
  /\ Goto(t, from, to)
  /\ m = None
  /\ m' = t
  /\ UNCHANGED <<q, arg, val>>

(* ... and its destructor, at the return. *)
Unlock(t, from) ==
  /\ Goto(t, from, "idle")
  /\ m' = None
  /\ UNCHANGED <<q, arg, val>>

(***************************************************************************)
(* push(val)                                                               *)
(***************************************************************************)
PushCall(p, v) ==
  /\ Goto(p, "idle", "push_lock")
  /\ arg' = [arg EXCEPT ![p] = v]
  /\ UNCHANGED <<m, q, val>>

PushLock(p) == Lock(p, "push_lock", "push")

PushBack(p) ==
  /\ Goto(p, "push", "push_unlock")
  /\ q' = Append(q, arg[p])
  /\ UNCHANGED <<m, arg, val>>

(* return true *)
PushReturn(p) == Unlock(p, "push_unlock")

(***************************************************************************)
(* pop(inp)                                                                *)
(***************************************************************************)
PopCall(c) ==
  /\ Goto(c, "idle", "pop_lock")
  /\ UNCHANGED <<m, q, arg, val>>

PopLock(c) == Lock(c, "pop_lock", "empty")

PopEmpty(c) ==
  /\ Goto(c, "empty", IF q = <<>> THEN "pop_fail" ELSE "front")
  /\ UNCHANGED <<m, q, arg, val>>

PopFront(c) ==
  /\ Goto(c, "front", "pop")
  /\ val' = [val EXCEPT ![c] = Head(q)]
  /\ UNCHANGED <<m, q, arg>>

PopPop(c) ==
  /\ Goto(c, "pop", "pop_unlock")
  /\ q' = Tail(q)
  /\ UNCHANGED <<m, arg, val>>

(* Mutant: the mutex is locked by hand, and the early return leaves it locked. *)
PopFailKeepsLock(c) ==
  /\ Goto(c, "pop_fail", "idle")
  /\ UNCHANGED <<m, q, arg, val>>

(* return true, return false *)
PopReturn(c) == Unlock(c, "pop_unlock")
PopFail(c) == Unlock(c, "pop_fail")

-----------------------------------------------------------------------------
(* The steps inside a call, which are the queue's own. *)
PushInside(p) == PushLock(p) \/ PushBack(p)
PopInside(c) == PopLock(c) \/ PopEmpty(c) \/ PopFront(c) \/ PopPop(c)

(* The abstract queue a MutexQueue shows to its callers: a push takes effect   *)
(* at q.push(), a pop when it has read the front.                            *)
Visible == IF \E c \in Consumers : pc[c] = "pop" THEN Tail(q) ELSE q
=============================================================================
