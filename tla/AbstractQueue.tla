--------------------------- MODULE AbstractQueue ---------------------------
(***************************************************************************)
(* What every queue of the repository promises to the threads that share   *)
(* it: a bounded first-in first-out queue.  A successful push puts its      *)
(* value at the back of the queue in one step; a successful pop takes the   *)
(* value at the front and hands it to exactly one consumer.                 *)
(*                                                                         *)
(* push and pop are try-operations (they return bool).  One that returns    *)
(* false leaves the queue as it was, so here it is a stuttering step: when  *)
(* a call may return false differs between the implementations, and each    *)
(* implementation states it as an action property of its own.               *)
(*                                                                         *)
(* reset() is called when all that was pushed in a sample has been popped,  *)
(* so here it changes nothing: no step may drop a value.                    *)
(*                                                                         *)
(* The queues are the types the two testers are instantiated with; this     *)
(* interface is the requires-clause of MPMCQueueTester and BufferTester.    *)
(***************************************************************************)
EXTENDS Naturals, Sequences

CONSTANTS
  Consumers,  \* the threads that call pop
  Value,      \* what can be pushed
  None,       \* the content of the out-parameter before the first pop
  Capacity    \* most values the queue holds

VARIABLES
  items,      \* the queue, oldest value first
  hand        \* hand[c]: the value consumer c was given last

vars == <<items, hand>>

Init ==
  /\ items = <<>>
  /\ hand = [c \in Consumers |-> None]

(* A push(v) that returns true. *)
Enqueue(v) ==
  /\ Len(items) < Capacity
  /\ items' = Append(items, v)
  /\ UNCHANGED hand

(* A pop that returns true, called by c. *)
Dequeue(c) ==
  /\ items # <<>>
  /\ hand' = [hand EXCEPT ![c] = Head(items)]
  /\ items' = Tail(items)

Next ==
  \/ \E v \in Value : Enqueue(v)
  \/ \E c \in Consumers : Dequeue(c)

Spec == Init /\ [][Next]_vars
=============================================================================
