---------------------------- MODULE VyukovQueue ----------------------------
(***************************************************************************)
(* VyukovAtomicQueue (src/src/benchmarks/MPMC/vyukov.hpp): a ring of slots  *)
(* shared by any number of producers and consumers.  write_idx and read_idx *)
(* only grow; a thread owns the slot of position pos after moving its index *)
(* from pos to pos + 1 with a compare-and-swap, and each slot's sequence    *)
(* number says whose turn the slot is: pos for the producer of position     *)
(* pos, pos + 1 for its consumer, pos + Size for the producer one lap on.   *)
(*                                                                         *)
(* One action per access to shared memory, so that TLC and the proofs range *)
(* over every interleaving of them.  The memory orders are modelled too:    *)
(*  - with Stale, an atomic load may return an older value than the latest  *)
(*    one, which is all a load may rely on in C++ (a read-modify-write      *)
(*    always acts on the latest).  Without it, loads see the latest value,  *)
(*    as they do on the machines the program is built for;                  *)
(*  - order[t] is the set of slots whose last access to the plain int       *)
(*    happens before t's next step.  Only the acquire load of a sequence    *)
(*    that reads a release store extends it; RaceFree says that every       *)
(*    access to the plain int is covered.                                   *)
(*                                                                         *)
(* The environment is MPMCQueueTester's: each thread makes Iterations       *)
(* successful calls and repeats a call that returned false.                 *)
(***************************************************************************)
EXTENDS Integers

CONSTANTS
  Producers,    \* threads running pushFn
  Consumers,    \* threads running popFn
  Size,         \* number of slots
  Iterations,   \* successful calls each thread makes (bounds the model)
  SpuriousCAS,  \* may compare_exchange_weak fail although the values match?
  Stale,        \* may an atomic load return an older value?
  Stalled,      \* threads the scheduler may stop running at any point
  None          \* the value of a slot or an out-parameter never written

Threads == Producers \cup Consumers

(* The constructor's assertion, and the identities it makes true:           *)
(* pos & mask is pos % Size.                                                *)
ASSUME SizeAssumption ==
  /\ Size \in Nat \ {0}
  /\ \E k \in 0 .. Size : Size = 2^k

ASSUME ThreadsAssumption ==
  /\ Producers \cap Consumers = {}
  /\ Stalled \subseteq Threads
  /\ Iterations \in Nat
  /\ SpuriousCAS \in BOOLEAN
  /\ Stale \in BOOLEAN

VARIABLES
  sequence,   \* sequence[i]: the atomic of slot i
  value,      \* value[i]: the plain int of slot i
  write_idx,
  read_idx,
  pc,         \* pc[t]: the shared access thread t makes next
  pos,        \* pos[t]: the local of push and pop
  done,       \* done[t]: calls of t that returned true
  val,        \* val[c]: the out-parameter of consumer c's pop
  order,      \* order[t]: slots whose last plain access t is ordered after
  carried     \* carried[i]: the order the last store to sequence[i] released

vars == <<sequence, value, write_idx, read_idx, pc, pos, done, val, order, carried>>
queue == <<sequence, value, write_idx, read_idx, carried>>

Slots == 0 .. Size - 1
Slot(n) == n % Size           \* pos & mask

PushPCs == {"push_seq", "push_cas", "push_reload", "push_write", "push_publish"}
PopPCs  == {"pop_seq", "pop_cas", "pop_reload", "pop_read", "pop_release"}

(* Every call pushes a value of its own, so that a lost, repeated or         *)
(* reordered value shows.                                                    *)
Value == Producers \X (0 .. Iterations - 1)
Arg(p) == <<p, done[p]>>

Init ==
  /\ sequence = [i \in Slots |-> i]
  /\ value = [i \in Slots |-> None]
  /\ write_idx = 0
  /\ read_idx = 0
  /\ pc = [t \in Threads |-> "idle"]
  /\ pos = [t \in Threads |-> 0]
  /\ done = [t \in Threads |-> 0]
  /\ val = [c \in Consumers |-> None]
  /\ order = [t \in Threads |-> Slots]     \* the constructor ran before them
  /\ carried = [i \in Slots |-> {}]        \* its stores are relaxed

Goto(t, from, to) ==
  /\ pc[t] = from
  /\ pc' = [pc EXCEPT ![t] = to]

(* What a relaxed load of an index may return to t: nothing older than what   *)
(* t has seen before.                                                        *)
Loads(t, idx) == IF Stale THEN pos[t] .. idx ELSE {idx}

(* pos = idx.load(), at the start of a call or after a lost race. *)
LoadPos(t, from, to, idx) ==
  /\ Goto(t, from, to)
  /\ \E n \in Loads(t, idx) : pos' = [pos EXCEPT ![t] = n]
  /\ UNCHANGED <<queue, done, val, order>>

(* The values sequence[i] has had: the first, then n + 1 and n + Size for    *)
(* every position n of the slot that was published and released.             *)
History(i) == {s \in i .. sequence[i] : Slot(s) = i \/ (s > i /\ Slot(s - 1) = i)}

(* seq = slot.sequence.load(acquire), with seq in S: reading the latest       *)
(* store orders t after all that its release carried.                        *)
Acquire(t, S) ==
  LET i == Slot(pos[t]) IN
  \E s \in S \cap (IF Stale THEN History(i) ELSE {sequence[i]}) :
     order' = IF s = sequence[i] THEN [order EXCEPT ![t] = @ \cup carried[i]]
                                 ELSE order

(* t reads or writes the plain int of its slot: whoever was ordered after     *)
(* the previous access is not ordered after this one.                        *)
Access(t) ==
  LET i == Slot(pos[t]) IN
  /\ order' = [u \in Threads |-> IF u = t THEN order[u] \cup {i} ELSE order[u] \ {i}]
  /\ carried' = [j \in Slots |-> carried[j] \ {i}]

(* slot.sequence.store(seq, release) *)
Release(t, seq) ==
  LET i == Slot(pos[t]) IN
  /\ sequence' = [sequence EXCEPT ![i] = seq]
  /\ carried' = [carried EXCEPT ![i] = order[t]]

(***************************************************************************)
(* push(val)                                                               *)
(***************************************************************************)
PushCall(p) ==
  /\ done[p] < Iterations
  /\ LoadPos(p, "idle", "push_seq", write_idx)

(* Mutant: a full slot is not told from a free one. *)
PushReadyIfFull(p) ==
  /\ Goto(p, "push_seq", "push_cas")
  /\ Acquire(p, 0 .. pos[p])
  /\ UNCHANGED <<queue, pos, done, val>>

(* diff == 0 *)
PushReady(p) ==
  /\ Goto(p, "push_seq", "push_cas")
  /\ Acquire(p, {pos[p]})
  /\ UNCHANGED <<queue, pos, done, val>>

(* Mutant: push waits for room instead of returning false. *)
PushFullWaits(p) ==
  /\ Goto(p, "push_seq", "push_reload")
  /\ Acquire(p, 0 .. pos[p] - 1)
  /\ UNCHANGED <<queue, pos, done, val>>

(* diff < 0: return false *)
PushFull(p) ==
  /\ Goto(p, "push_seq", "idle")
  /\ Acquire(p, 0 .. pos[p] - 1)
  /\ UNCHANGED <<queue, pos, done, val>>

(* diff > 0 *)
PushLostRace(p) ==
  /\ Goto(p, "push_seq", "push_reload")
  /\ Acquire(p, pos[p] + 1 .. sequence[Slot(pos[p])])
  /\ UNCHANGED <<queue, pos, done, val>>

PushReload(p) == LoadPos(p, "push_reload", "push_seq", write_idx)

(* Mutant: the index is stored, not compared and swapped. *)
PushClaimByStore(p) ==
  /\ Goto(p, "push_cas", "push_write")
  /\ write_idx' = pos[p] + 1
  /\ UNCHANGED <<sequence, value, read_idx, pos, done, val, order, carried>>

(* Mutant: the sequence is stored with the claim, before the value. *)
PushClaimPublishes(p) ==
  /\ Goto(p, "push_cas", "push_write")
  /\ write_idx = pos[p]
  /\ write_idx' = pos[p] + 1
  /\ Release(p, pos[p] + 1)
  /\ UNCHANGED <<value, read_idx, pos, done, val, order>>

PushClaim(p) ==
  /\ Goto(p, "push_cas", "push_write")
  /\ write_idx = pos[p]
  /\ write_idx' = pos[p] + 1
  /\ UNCHANGED <<sequence, value, read_idx, pos, done, val, order, carried>>

(* A failed compare_exchange leaves the index it has read in pos. *)
PushClaimFails(p) ==
  /\ LoadPos(p, "push_cas", "push_seq", write_idx)
  /\ pos'[p] # pos[p] \/ SpuriousCAS

PushWrite(p) ==
  /\ Goto(p, "push_write", "push_publish")
  /\ value' = [value EXCEPT ![Slot(pos[p])] = Arg(p)]
  /\ Access(p)
  /\ UNCHANGED <<sequence, write_idx, read_idx, pos, done, val>>

(* return true *)
PushPublish(p) ==
  /\ Goto(p, "push_publish", "idle")
  /\ Release(p, pos[p] + 1)
  /\ done' = [done EXCEPT ![p] = @ + 1]
  /\ UNCHANGED <<value, write_idx, read_idx, pos, val, order>>

(***************************************************************************)
(* pop(val)                                                                *)
(***************************************************************************)
PopCall(c) ==
  /\ done[c] < Iterations
  /\ LoadPos(c, "idle", "pop_seq", read_idx)

PopReady(c) ==
  /\ Goto(c, "pop_seq", "pop_cas")
  /\ Acquire(c, {pos[c] + 1})
  /\ UNCHANGED <<queue, pos, done, val>>

(* return false *)
PopEmpty(c) ==
  /\ Goto(c, "pop_seq", "idle")
  /\ Acquire(c, 0 .. pos[c])
  /\ UNCHANGED <<queue, pos, done, val>>

PopLostRace(c) ==
  /\ Goto(c, "pop_seq", "pop_reload")
  /\ Acquire(c, pos[c] + 2 .. sequence[Slot(pos[c])])
  /\ UNCHANGED <<queue, pos, done, val>>

PopReload(c) == LoadPos(c, "pop_reload", "pop_seq", read_idx)

PopClaim(c) ==
  /\ Goto(c, "pop_cas", "pop_read")
  /\ read_idx = pos[c]
  /\ read_idx' = pos[c] + 1
  /\ UNCHANGED <<sequence, value, write_idx, pos, done, val, order, carried>>

PopClaimFails(c) ==
  /\ LoadPos(c, "pop_cas", "pop_seq", read_idx)
  /\ pos'[c] # pos[c] \/ SpuriousCAS

PopRead(c) ==
  /\ Goto(c, "pop_read", "pop_release")
  /\ val' = [val EXCEPT ![c] = value[Slot(pos[c])]]
  /\ Access(c)
  /\ UNCHANGED <<sequence, value, write_idx, read_idx, pos, done>>

(* Mutant: pos - mask - 1. *)
PopReleaseBack(c) ==
  /\ Goto(c, "pop_release", "idle")
  /\ Release(c, pos[c] - Size)
  /\ done' = [done EXCEPT ![c] = @ + 1]
  /\ UNCHANGED <<value, write_idx, read_idx, pos, val, order>>

(* Mutant: pos + mask. *)
PopReleaseMask(c) ==
  /\ Goto(c, "pop_release", "idle")
  /\ Release(c, pos[c] + Size - 1)
  /\ done' = [done EXCEPT ![c] = @ + 1]
  /\ UNCHANGED <<value, write_idx, read_idx, pos, val, order>>

(* Mutant: the store is relaxed. *)
PopReleaseRelaxed(c) ==
  /\ Goto(c, "pop_release", "idle")
  /\ sequence' = [sequence EXCEPT ![Slot(pos[c])] = pos[c] + Size]
  /\ carried' = [carried EXCEPT ![Slot(pos[c])] = {}]
  /\ done' = [done EXCEPT ![c] = @ + 1]
  /\ UNCHANGED <<value, write_idx, read_idx, pos, val, order>>

(* return true; pos + mask + 1 is pos + Size. *)
PopRelease(c) ==
  /\ Goto(c, "pop_release", "idle")
  /\ Release(c, pos[c] + Size)
  /\ done' = [done EXCEPT ![c] = @ + 1]
  /\ UNCHANGED <<value, write_idx, read_idx, pos, val, order>>

-----------------------------------------------------------------------------
Push(p) ==
  \/ PushCall(p)   \/ PushReady(p)  \/ PushFull(p)       \/ PushLostRace(p)
  \/ PushReload(p) \/ PushClaim(p)  \/ PushClaimFails(p)
  \/ PushWrite(p)  \/ PushPublish(p)

Pop(c) ==
  \/ PopCall(c)   \/ PopReady(c)  \/ PopEmpty(c)       \/ PopLostRace(c)
  \/ PopReload(c) \/ PopClaim(c)  \/ PopClaimFails(c)
  \/ PopRead(c)   \/ PopRelease(c)

Step(t) == (t \in Producers /\ Push(t)) \/ (t \in Consumers /\ Pop(t))

AllDone == \A t \in Threads : pc[t] = "idle" /\ done[t] = Iterations

(* The threads have returned; the tester joins them. *)
Joined == AllDone /\ UNCHANGED vars

Next ==
  \/ \E p \in Producers : Push(p)
  \/ \E c \in Consumers : Pop(c)
  \/ Joined

Spec == Init /\ [][Next]_vars

(* Every thread is a kernel thread of its own that the scheduler keeps       *)
(* running, except the stalled ones, of which nothing is assumed.            *)
FairSpec == Spec /\ \A t \in Threads \ Stalled : WF_vars(Step(t))

-----------------------------------------------------------------------------
(* The types of the variables. *)
TypeOK ==
  /\ sequence \in [Slots -> Nat]
  /\ value \in [Slots -> Value \cup {None}]
  /\ write_idx \in Nat
  /\ read_idx \in Nat
  /\ pc \in [Threads -> {"idle"} \cup PushPCs \cup PopPCs]
  /\ \A p \in Producers : pc[p] \in {"idle"} \cup PushPCs
  /\ \A c \in Consumers : pc[c] \in {"idle"} \cup PopPCs
  /\ pos \in [Threads -> Nat]
  /\ done \in [Threads -> 0 .. Iterations]
  /\ val \in [Consumers -> Value \cup {None}]
  /\ order \in [Threads -> SUBSET Slots]
  /\ carried \in [Slots -> SUBSET Slots]

(* t has won its compare-and-swap and has not handed the slot on yet: from   *)
(* here until its store to the slot's sequence it uses the plain int.        *)
InSlot(t) == pc[t] \in {"push_write", "push_publish", "pop_read", "pop_release"}

(***************************************************************************)
(* No two threads are ever inside the same slot: "we are the only claimers  *)
(* to this slot" (vyukov.hpp:53), of producers and of consumers alike.      *)
(***************************************************************************)
SlotExclusive ==
  \A t, u \in Threads :
    t # u /\ InSlot(t) /\ InSlot(u) => Slot(pos[t]) # Slot(pos[u])

(* Every access to a slot's plain int is ordered after the one before it by   *)
(* the release and acquire of the slot's sequence alone: there is no data    *)
(* race, although all accesses to the two indices are relaxed.               *)
RaceFree ==
  \A t \in Threads : pc[t] \in {"push_write", "pop_read"} => Slot(pos[t]) \in order[t]

(* A queue of Size slots never holds more than Size values and never hands   *)
(* out more than were pushed, although push looks only at the sequence of    *)
(* one slot and never compares the two indices.                              *)
WithinCapacity == read_idx <= write_idx /\ write_idx <= read_idx + Size

(***************************************************************************)
(* Why the two hold: what the sequence of a slot says about its position.   *)
(* From the position of the oldest value to the next to be written, a slot  *)
(* is full or being written; for the rest of the lap it is free or being    *)
(* read.  (True for two slots or more: with one, the sequence of a full     *)
(* slot is also that of a slot free for the next position.)                 *)
(***************************************************************************)
Owns(t, n) == InSlot(t) /\ pos[t] = n

WriterInv ==
  \A p \in Producers : InSlot(p) =>
    /\ read_idx <= pos[p] /\ pos[p] < write_idx
    /\ sequence[Slot(pos[p])] = pos[p]

ReaderInv ==
  \A c \in Consumers : InSlot(c) =>
    /\ write_idx <= pos[c] + Size /\ pos[c] < read_idx
    /\ sequence[Slot(pos[c])] = pos[c] + 1

QueuedInv ==
  \A n \in read_idx .. write_idx - 1 :
    \/ sequence[Slot(n)] = n + 1
    \/ sequence[Slot(n)] = n /\ \E p \in Producers : Owns(p, n)

FreeInv ==
  \A n \in write_idx .. read_idx + Size - 1 :
    \/ sequence[Slot(n)] = n
    \/ sequence[Slot(n)] = n - Size + 1 /\ \E c \in Consumers : Owns(c, n - Size)

OwnersDiffer == \A t, u \in Threads : t # u /\ InSlot(t) /\ InSlot(u) => pos[t] # pos[u]

(* What a thread about to swap has seen: its slot was ready for its position. *)
LoadedInv ==
  /\ \A p \in Producers :
       pos[p] <= write_idx /\ (pc[p] = "push_cas" => sequence[Slot(pos[p])] >= pos[p])
  /\ \A c \in Consumers :
       pos[c] <= read_idx /\ (pc[c] = "pop_cas" => sequence[Slot(pos[c])] >= pos[c] + 1)

(* ... and, if its swap is going to succeed, it is ordered after the last     *)
(* access to the slot.  A slot nobody is inside of can be acquired.          *)
OrderInv ==
  /\ \A t \in Threads : InSlot(t) => Slot(pos[t]) \in order[t]
  /\ \A p \in Producers :
       pc[p] = "push_cas" /\ pos[p] = write_idx /\ sequence[Slot(pos[p])] = pos[p]
         => Slot(pos[p]) \in order[p]
  /\ \A c \in Consumers :
       pc[c] = "pop_cas" /\ pos[c] = read_idx /\ sequence[Slot(pos[c])] = pos[c] + 1
         => Slot(pos[c]) \in order[c]
  /\ \A i \in Slots :
       \/ \E t \in Threads : InSlot(t) /\ Slot(pos[t]) = i
       \/ i \in carried[i]
       \/ \A t \in Threads : i \in order[t]

RingInv ==
  /\ WithinCapacity /\ WriterInv /\ ReaderInv /\ QueuedInv /\ FreeInv
  /\ OwnersDiffer /\ LoadedInv /\ OrderInv

(***************************************************************************)
(* push returns false only when the queue is full, or would be but for a    *)
(* consumer that has claimed the value of this very slot and is still       *)
(* reading it ("the queue is completely fill[ed]", vyukov.hpp:44).  The     *)
(* position the verdict rests on may have been loaded long before.          *)
(***************************************************************************)
Refuses(t, at) == pc[t] = at /\ pc'[t] = "idle"

FalseMeansFull ==
  [][\A p \in Producers : Refuses(p, "push_seq") =>
       \/ write_idx = read_idx + Size
       \/ \E c \in Consumers : pc[c] \in {"pop_read", "pop_release"}
                               /\ pos[c] + Size = write_idx]_vars

(* pop returns false only when the queue is empty, or when the oldest value   *)
(* is still being written by the producer that claimed its slot              *)
(* (vyukov.hpp:70-71, 79).                                                   *)
FalseMeansEmpty ==
  [][\A c \in Consumers : Refuses(c, "pop_seq") =>
       \/ write_idx = read_idx
       \/ \E p \in Producers : pc[p] \in {"push_write", "push_publish"}
                               /\ pos[p] = read_idx]_vars

(* The result false of either call can be relied on that far. *)
FalseMeansFullOrEmpty == FalseMeansFull /\ FalseMeansEmpty

(***************************************************************************)
(* The ring implements the abstract queue.  A push takes effect when its    *)
(* compare-and-swap moves write_idx, before the value is in the slot: until *)
(* then the value of that position is the argument of the push that owns    *)
(* it.  A pop takes effect when it moves read_idx.                          *)
(***************************************************************************)
Writing(n) == {p \in Producers : pc[p] \in {"push_write", "push_publish"} /\ pos[p] = n}

ValueAt(n) == IF Writing(n) = {} THEN value[Slot(n)]
              ELSE Arg(CHOOSE p \in Writing(n) : TRUE)

Items == [i \in 1 .. write_idx - read_idx |-> ValueAt(read_idx + i - 1)]

(* What pop is going to return is known once it has the slot. *)
Hand == [c \in Consumers |-> IF pc[c] = "pop_read" THEN value[Slot(pos[c])] ELSE val[c]]

Queue == INSTANCE AbstractQueue WITH Capacity <- Size, items <- Items, hand <- Hand

(* Every run of the ring is a run of a first-in first-out queue of Size      *)
(* values: nothing is lost, handed out twice, reordered or overwritten.      *)
ImplementsQueue == Queue!Spec

(***************************************************************************)
(* A thread stopped anywhere, even between its claim and its store to the   *)
(* sequence, keeps no other thread inside a call: each call still returns.  *)
(* This is what "lock free" (src/README.md:417) buys over the mutex.        *)
(***************************************************************************)
EveryCallReturns == \A t \in Threads \ Stalled : []<>(pc[t] = "idle")

(* If the stalled threads do go on in the end, every value is pushed and      *)
(* popped and the tester's threads can be joined (as many pops as pushes).   *)
Termination == (\A t \in Stalled : WF_vars(Step(t))) => <>AllDone
=============================================================================
