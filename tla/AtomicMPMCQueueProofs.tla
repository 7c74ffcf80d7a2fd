----------------------- MODULE AtomicMPMCQueueProofs -----------------------
(***************************************************************************)
(* What holds of AtomicMPMCQueue for every number of threads, every number  *)
(* of slots, calls and samples, if the calls the other threads make in a    *)
(* sample cannot take the indices once around the ring (NoLap).             *)
(***************************************************************************)
EXTENDS AtomicMPMCQueue, SlotArithmetic, SequenceTheorems, FiniteSetTheorems

(* All that one thread can sleep through between its check and its swap are   *)
(* the calls of the other threads of its side.  Where they do not fill the   *)
(* ring, an index that looks the same is the same.                           *)
NoLap == (Cardinality(Producers) - 1) * Iterations < Capacity

-----------------------------------------------------------------------------
(* Counting calls.  Tally(f, T): f[t] calls of each t in T can be counted. *)
Tally(f, T) == IsFiniteSet(T) /\ \A t \in T : f[t] \in 0 .. Iterations

(* The calls to be counted are finitely many. *)
LEMMA AllCalls ==
  ASSUME NEW T, IsFiniteSet(T)
  PROVE  /\ IsFiniteSet(T \X (0 .. Iterations - 1))
         /\ Cardinality(T \X (0 .. Iterations - 1)) = Cardinality(T) * Iterations
         /\ Cardinality(T) \in Nat
<1>1. /\ IsFiniteSet(0 .. Iterations - 1)
      /\ Cardinality(0 .. Iterations - 1) = Iterations
  <2>1. Iterations - 1 \in Int /\ 0 \in Int
    BY AtomicAssumption
  <2>2. Cardinality(0 .. Iterations - 1) = IF 0 > Iterations - 1 THEN 0 ELSE Iterations - 1 - 0 + 1
    BY <2>1, FS_Interval
  <2>3. IsFiniteSet(0 .. Iterations - 1)
    BY <2>1, FS_Interval
  <2> QED
    BY <2>2, <2>3, AtomicAssumption
<1>2. Cardinality(T) \in Nat
  BY FS_CardinalityType
<1> QED
  BY <1>1, <1>2, FS_Product

(* A count of calls is a number. *)
LEMMA CountType ==
  ASSUME NEW f, NEW T, IsFiniteSet(T)
  PROVE  /\ CallsUpTo(f, T) \in Nat
         /\ IsFiniteSet({call \in T \X (0 .. Iterations - 1) : call[2] < f[call[1]]})
<1> DEFINE A == T \X (0 .. Iterations - 1)
<1> DEFINE S == {call \in A : call[2] < f[call[1]]}
<1>1. IsFiniteSet(A) /\ S \in SUBSET A
  BY AllCalls
<1> HIDE DEF A
<1>2. IsFiniteSet(S)
  BY <1>1, FS_Subset
<1>3. Cardinality(S) \in Nat
  BY <1>2, FS_CardinalityType
<1> QED
  BY <1>2, <1>3 DEF CallsUpTo, A

(* The count only looks at what the threads of T have called. *)
LEMMA CountSame ==
  ASSUME NEW f, NEW g, NEW T, \A t \in T : f[t] = g[t]
  PROVE  CallsUpTo(f, T) = CallsUpTo(g, T)
<1> DEFINE A == T \X (0 .. Iterations - 1)
<1>1. \A call \in A : call[1] \in T
  OBVIOUS
<1>2. \A call \in A : call[2] < f[call[1]] <=> call[2] < g[call[1]]
  BY <1>1
<1> HIDE DEF A
<1>3. {call \in A : call[2] < f[call[1]]} = {call \in A : call[2] < g[call[1]]}
  BY <1>2
<1> QED
  BY <1>3 DEF CallsUpTo, A

(* One more call of one thread. *)
LEMMA CountOneMore ==
  ASSUME NEW f, NEW g, NEW T, Tally(f, T), Tally(g, T), NEW u \in T,
         g[u] = f[u] + 1, \A t \in T : t # u => g[t] = f[t]
  PROVE  CallsUpTo(g, T) = CallsUpTo(f, T) + 1
<1> DEFINE A == T \X (0 .. Iterations - 1)
<1> DEFINE Before == {call \in A : call[2] < f[call[1]]}
<1> DEFINE After == {call \in A : call[2] < g[call[1]]}
<1> DEFINE new == <<u, f[u]>>
<1>0. f[u] \in 0 .. Iterations - 1 /\ new \in A /\ new[1] = u /\ new[2] = f[u]
  BY AtomicAssumption DEF Tally
<1>1. \A call \in A : call[1] \in T /\ call[2] \in 0 .. Iterations - 1 /\ call = <<call[1], call[2]>>
  OBVIOUS
<1>2. \A call \in A : call = new <=> call[1] = u /\ call[2] = f[u]
  BY <1>0, <1>1
<1>3. \A call \in A : call[2] < g[call[1]] <=> call[2] < f[call[1]] \/ call = new
  <2> SUFFICES ASSUME NEW call \in A
               PROVE  call[2] < g[call[1]] <=> call[2] < f[call[1]] \/ call = new
    OBVIOUS
  <2>1. CASE call[1] = u
    BY <2>1, <1>0, <1>1, <1>2
  <2>2. CASE call[1] # u
    BY <2>2, <1>0, <1>1, <1>2
  <2> QED
    BY <2>1, <2>2
<1> HIDE DEF A, new
<1>4. After = Before \cup {new} /\ new \notin Before
  <2>1. new \notin Before
    BY <1>0
  <2> QED
    BY <1>0, <1>3, <2>1
<1>5. IsFiniteSet(Before) /\ Cardinality(Before) \in Nat
  BY CountType DEF A, CallsUpTo, Tally
<1> HIDE DEF Before, After
<1>6. Cardinality(After) = Cardinality(Before) + 1
  BY <1>4, <1>5, FS_AddElement
<1> QED
  BY <1>6 DEF CallsUpTo, After, Before, A

(* No calls yet. *)
LEMMA CountNone ==
  ASSUME NEW f, NEW T, \A t \in T : f[t] = 0
  PROVE  CallsUpTo(f, T) = 0
<1>1. \A call \in T \X (0 .. Iterations - 1) : ~(call[2] < f[call[1]])
  BY AtomicAssumption
<1>2. {call \in T \X (0 .. Iterations - 1) : call[2] < f[call[1]]} = {}
  BY <1>1
<1> QED
  BY <1>2, FS_EmptySet DEF CallsUpTo

(* Every call of a sample. *)
LEMMA CountAll ==
  ASSUME NEW f, NEW T, IsFiniteSet(T), \A t \in T : f[t] = Iterations
  PROVE  CallsUpTo(f, T) = Cardinality(T) * Iterations
<1>1. \A call \in T \X (0 .. Iterations - 1) : call[2] < f[call[1]]
  BY AtomicAssumption
<1>2. {call \in T \X (0 .. Iterations - 1) : call[2] < f[call[1]]} = T \X (0 .. Iterations - 1)
  BY <1>1
<1> QED
  BY <1>2, AllCalls DEF CallsUpTo

(* The calls of one thread. *)
LEMMA OwnCalls ==
  ASSUME NEW t, NEW n \in 0 .. Iterations
  PROVE  IsFiniteSet({t} \X (0 .. n - 1)) /\ Cardinality({t} \X (0 .. n - 1)) = n
<1>1. IsFiniteSet({t}) /\ Cardinality({t}) = 1
  BY FS_Singleton
<1>2. IsFiniteSet(0 .. n - 1) /\ Cardinality(0 .. n - 1) = n
  <2>1. n - 1 \in Int /\ 0 \in Int
    BY AtomicAssumption
  <2>2. Cardinality(0 .. n - 1) = IF 0 > n - 1 THEN 0 ELSE n - 1 - 0 + 1
    BY <2>1, FS_Interval
  <2>3. IsFiniteSet(0 .. n - 1)
    BY <2>1, FS_Interval
  <2> QED
    BY <2>2, <2>3, AtomicAssumption
<1>3. 1 * n = n
  BY AtomicAssumption
<1> QED
  BY <1>1, <1>2, <1>3, FS_Product

(* A thread's own calls are among those counted, and the others make at most *)
(* Iterations each.                                                          *)
LEMMA CountBounds ==
  ASSUME NEW f, NEW T, Tally(f, T), NEW u \in T
  PROVE  /\ f[u] <= CallsUpTo(f, T)
         /\ CallsUpTo(f, T) <= f[u] + (Cardinality(T) - 1) * Iterations
<1> DEFINE A == T \X (0 .. Iterations - 1)
<1> DEFINE All == {call \in A : call[2] < f[call[1]]}
<1> DEFINE Own == {u} \X (0 .. f[u] - 1)
<1> DEFINE Other == (T \ {u}) \X (0 .. Iterations - 1)
<1>0. f[u] \in 0 .. Iterations /\ Iterations \in Nat /\ IsFiniteSet(T)
  BY AtomicAssumption DEF Tally
<1>1. IsFiniteSet(Own) /\ Cardinality(Own) = f[u]
  BY <1>0, OwnCalls
<1>2. /\ IsFiniteSet(T \ {u}) /\ Cardinality(T \ {u}) = Cardinality(T) - 1
      /\ Cardinality(T) \in Nat
  BY <1>0, FS_RemoveElement, FS_CardinalityType
<1>3. IsFiniteSet(Other) /\ Cardinality(Other) = (Cardinality(T) - 1) * Iterations
  BY <1>2, AllCalls
<1>4. IsFiniteSet(All) /\ Cardinality(All) \in Nat
  BY <1>0, CountType DEF CallsUpTo
<1>5. Own \subseteq All
  <2> SUFFICES ASSUME NEW x \in Own PROVE x \in All
    OBVIOUS
  <2>1. x[1] = u /\ x[2] \in 0 .. f[u] - 1 /\ x = <<x[1], x[2]>>
    OBVIOUS
  <2> QED
    BY <2>1, <1>0
<1>6. All \subseteq Own \cup Other
  <2> SUFFICES ASSUME NEW x \in All PROVE x \in Own \cup Other
    OBVIOUS
  <2>1. x[1] \in T /\ x[2] \in 0 .. Iterations - 1 /\ x = <<x[1], x[2]>> /\ x[2] < f[x[1]]
    OBVIOUS
  <2>2. CASE x[1] = u
    BY <2>1, <2>2, <1>0
  <2>3. CASE x[1] # u
    BY <2>1, <2>3
  <2> QED
    BY <2>2, <2>3
<1> HIDE DEF All, Own, Other
<1>7. Cardinality(Own) <= Cardinality(All)
  BY <1>4, <1>5, FS_Subset
<1>8. /\ IsFiniteSet(Own \cup Other)
      /\ Cardinality(Own \cup Other) = Cardinality(Own) + Cardinality(Other) - Cardinality(Own \cap Other)
  BY <1>1, <1>3, FS_Union
<1>9. Cardinality(Own \cap Other) \in Nat
  <2>1. IsFiniteSet(Own \cap Other)
    BY <1>1, FS_Intersection
  <2> QED
    BY <2>1, FS_CardinalityType
<1>10. Cardinality(All) <= Cardinality(Own \cup Other)
  BY <1>6, <1>8, FS_Subset
<1>11. (Cardinality(T) - 1) * Iterations \in Int
  BY <1>0, <1>2
<1>12. CallsUpTo(f, T) = Cardinality(All)
  BY DEF CallsUpTo, All
<1> HIDE DEF A
<1> QED
  BY <1>0, <1>1, <1>3, <1>4, <1>7, <1>8, <1>9, <1>10, <1>11, <1>12

-----------------------------------------------------------------------------
(* The four counts of calls the indices stand for, and the slot of a call. *)
Popped == Calls(Consumers)
Popping == Started(Consumers)
Pushed == Calls(Producers)
Pushing == Started(Producers)
At(n) == n % Capacity

(* The slot of a call is one of the slots. *)
LEMMA AtType == \A n \in Int : At(n) \in Slots
  BY AtomicAssumption, ModRange DEF At, Slots

(* The index after a call's is the next call's. *)
LEMMA AtNext == \A n \in Int : NextSlot(At(n)) = At(n + 1)
<1> SUFFICES ASSUME NEW n \in Int PROVE NextSlot(At(n)) = At(n + 1)
  OBVIOUS
<1>1. 1 \in Int /\ Capacity \in Nat \ {0}
  BY AtomicAssumption
<1>2. ((n % Capacity) + 1) % Capacity = (n + 1) % Capacity
  BY <1>1, ModPlus
<1> QED
  BY <1>2 DEF At, NextSlot

(* Calls less than a lap apart have different slots. *)
LEMMA AtApart ==
  ASSUME NEW n \in Int, NEW m \in Int, n < m, m < n + Capacity
  PROVE  At(n) # At(m)
  BY AtomicAssumption, ModInjective DEF At

(* A lap later it is the same slot. *)
LEMMA AtLap == \A n \in Int : At(n + Capacity) = At(n)
<1> SUFFICES ASSUME NEW n \in Int PROVE At(n + Capacity) = At(n)
  OBVIOUS
<1> QED
  BY AtomicAssumption, ModShift DEF At

PushPCs == {"push_check", "push_reserve", "push_reload", "push_write", "push_publish"}
PopPCs == {"pop_check", "pop_reserve", "pop_reload", "pop_read", "pop_publish"}

TypeOK ==
  /\ data \in [Slots -> Value \cup {None}]
  /\ pc \in [Threads -> {"idle"} \cup PushPCs \cup PopPCs]
  /\ \A p \in Producers : pc[p] \in {"idle"} \cup PushPCs
  /\ \A c \in Consumers : pc[c] \in {"idle"} \cup PopPCs
  /\ reserved \in [Threads -> Slots]
  /\ done \in [Threads -> 0 .. Iterations]
  /\ val \in [Consumers -> Value \cup {None}]
  /\ sample \in Nat
  /\ write_order \in SUBSET Slots /\ read_order \in SUBSET Slots
  /\ order \in [Threads -> SUBSET Slots]

(* A thread inside a call has calls left to make. *)
InCall == \A t \in Threads : pc[t] # "idle" => done[t] < Iterations

(* The indices are the counts, as far as a ring can tell. *)
IndexInv ==
  /\ read_idx = At(Popped) /\ reserved_read_idx = At(Popping)
  /\ write_idx = At(Pushed) /\ reserved_write_idx = At(Pushing)

TypeInv == TypeOK /\ InCall /\ IndexInv

(* What has been started can be counted, as what is done can. *)
LEMMA Tallies ==
  ASSUME TypeOK, InCall
  PROVE  /\ Tally(done, Producers) /\ Tally(done, Consumers)
         /\ Tally(Begun, Producers) /\ Tally(Begun, Consumers)
<1>1. \A t \in Threads : done[t] \in 0 .. Iterations /\ Begun[t] \in 0 .. Iterations
  BY AtomicAssumption DEF TypeOK, InCall, Begun, HasReserved
<1> QED
  BY <1>1, AtomicAssumption DEF Tally, Threads

(* The same of the state after a step. *)
LEMMA TalliesNext ==
  ASSUME TypeOK', InCall'
  PROVE  /\ Tally(done', Producers) /\ Tally(done', Consumers)
         /\ Tally(Begun', Producers) /\ Tally(Begun', Consumers)
<1>1. \A t \in Threads : done'[t] \in 0 .. Iterations /\ Begun'[t] \in 0 .. Iterations
  BY AtomicAssumption DEF TypeOK, InCall, Begun, HasReserved
<1> QED
  BY <1>1, AtomicAssumption DEF Tally, Threads

(* The counts are numbers. *)
LEMMA CountTypes == Popped \in Nat /\ Popping \in Nat /\ Pushed \in Nat /\ Pushing \in Nat
  BY CountType, AtomicAssumption DEF Popped, Popping, Pushed, Pushing, Calls, Started

(* A step that reserves and publishes nothing changes no count. *)
LEMMA QuietCounts ==
  ASSUME done' = done, \A t \in Threads : HasReserved(t)' <=> HasReserved(t)
  PROVE  Popped' = Popped /\ Popping' = Popping /\ Pushed' = Pushed /\ Pushing' = Pushing
<1>1. Begun' = Begun
  BY DEF Begun
<1> QED
  BY <1>1 DEF Popped, Popping, Pushed, Pushing, Calls, Started, CallsUpTo

(* A thread that reserves a slot is one more that has begun a call. *)
LEMMA ReserveCounts ==
  ASSUME TypeOK, InCall, TypeOK', InCall', NEW T \in {Producers, Consumers}, NEW t \in T,
         done' = done, ~HasReserved(t), HasReserved(t)',
         \A u \in Threads : u # t => (HasReserved(u)' <=> HasReserved(u))
  PROVE  /\ Started(T)' = Started(T) + 1
         /\ \A U \in {Producers, Consumers} : U # T => Started(U)' = Started(U)
         /\ Popped' = Popped /\ Pushed' = Pushed
<1>0. t \in Threads
  BY DEF Threads
<1>1. Begun'[t] = Begun[t] + 1 /\ \A u \in Threads : u # t => Begun'[u] = Begun[u]
  BY <1>0 DEF Begun, TypeOK
<1>2. Tally(Begun, T) /\ Tally(Begun', T)
  BY Tallies, TalliesNext
<1>3. CallsUpTo(Begun', T) = CallsUpTo(Begun, T) + 1
  BY <1>1, <1>2, CountOneMore DEF Threads
<1>4. ASSUME NEW U \in {Producers, Consumers}, U # T PROVE Started(U)' = Started(U)
  <2>1. \A u \in U : Begun'[u] = Begun[u]
    BY <1>1, <1>4, AtomicAssumption DEF Threads
  <2> QED
    BY <2>1, CountSame DEF Started
<1>5. Popped' = Popped /\ Pushed' = Pushed
  BY DEF Popped, Pushed, Calls, CallsUpTo
<1> QED
  BY <1>3, <1>4, <1>5 DEF Started

(* A thread that publishes its slot has one more call behind it. *)
LEMMA PublishCounts ==
  ASSUME TypeOK, InCall, TypeOK', InCall', NEW T \in {Producers, Consumers}, NEW t \in T,
         done'[t] = done[t] + 1, HasReserved(t), ~HasReserved(t)',
         \A u \in Threads : u # t => done'[u] = done[u] /\ (HasReserved(u)' <=> HasReserved(u))
  PROVE  /\ Calls(T)' = Calls(T) + 1
         /\ \A U \in {Producers, Consumers} : U # T => Calls(U)' = Calls(U)
         /\ Popping' = Popping /\ Pushing' = Pushing
<1>0. t \in Threads
  BY DEF Threads
<1>1. done'[t] = done[t] + 1 /\ \A u \in Threads : u # t => done'[u] = done[u]
  OBVIOUS
<1>2. Tally(done, T) /\ Tally(done', T)
  BY Tallies, TalliesNext
<1>3. CallsUpTo(done', T) = CallsUpTo(done, T) + 1
  BY <1>1, <1>2, CountOneMore DEF Threads
<1>4. ASSUME NEW U \in {Producers, Consumers}, U # T PROVE Calls(U)' = Calls(U)
  <2>1. \A u \in U : done'[u] = done[u]
    BY <1>1, <1>4, AtomicAssumption DEF Threads
  <2> QED
    BY <2>1, CountSame DEF Calls
<1>5. \A u \in Threads : Begun'[u] = Begun[u]
  BY <1>0, <1>1 DEF Begun, TypeOK
<1>6. Popping' = Popping /\ Pushing' = Pushing
  BY <1>5, CountSame DEF Popping, Pushing, Started, Threads
<1> QED
  BY <1>3, <1>4, <1>6 DEF Calls

(* A thread that holds no slot has slept through less than a lap. *)
LEMMA WithinLap ==
  ASSUME NoLap, TypeOK, InCall
  PROVE  /\ \A p \in Producers : ~HasReserved(p) =>
                done[p] <= Pushing /\ Pushing < done[p] + Capacity
         /\ \A c \in Consumers : ~HasReserved(c) =>
                done[c] <= Popping /\ Popping < done[c] + Capacity
<1>0. Cardinality(Producers) \in Nat /\ Cardinality(Consumers) = Cardinality(Producers)
      /\ (Cardinality(Producers) - 1) * Iterations \in Int /\ Capacity \in Nat
  BY FS_CardinalityType, AtomicAssumption
<1>1. \A p \in Producers : ~HasReserved(p) => Begun[p] = done[p]
  BY DEF Begun, Threads
<1>2. \A c \in Consumers : ~HasReserved(c) => Begun[c] = done[c]
  BY DEF Begun, Threads
<1>3. /\ \A p \in Producers : done[p] \in Nat
      /\ \A c \in Consumers : done[c] \in Nat
  BY AtomicAssumption DEF TypeOK, Threads
<1>4. ASSUME NEW p \in Producers, ~HasReserved(p)
      PROVE  done[p] <= Pushing /\ Pushing < done[p] + Capacity
  <2>1. /\ Begun[p] <= Pushing
        /\ Pushing <= Begun[p] + (Cardinality(Producers) - 1) * Iterations
    BY Tallies, CountBounds DEF Pushing, Started
  <2> QED
    BY <2>1, <1>0, <1>1, <1>3, <1>4, CountTypes DEF NoLap
<1>5. ASSUME NEW c \in Consumers, ~HasReserved(c)
      PROVE  done[c] <= Popping /\ Popping < done[c] + Capacity
  <2>1. /\ Begun[c] <= Popping
        /\ Popping <= Begun[c] + (Cardinality(Consumers) - 1) * Iterations
    BY Tallies, CountBounds DEF Popping, Started
  <2> QED
    BY <2>1, <1>0, <1>2, <1>3, <1>5, CountTypes DEF NoLap
<1> QED
  BY <1>4, <1>5

-----------------------------------------------------------------------------
(* The invariant.  Pops reserve behind what is published and pushes less than *)
(* a lap ahead of what is read.                                              *)
WindowInv ==
  /\ Popped <= Popping /\ Popping <= Pushed /\ Pushed <= Pushing
  /\ Pushing <= Popped + Capacity - 1

(* The threads of H hold the slots of the calls from .. to - 1, each one. *)
Owned(H, res, from, to) ==
  /\ \A n \in from .. to - 1 : \E t \in H : res[t] = At(n)
  /\ \A t \in H : \E n \in from .. to - 1 : res[t] = At(n)
  /\ \A t, u \in H : res[t] = res[u] => t = u

Holders(T) == {t \in T : HasReserved(t)}

OwnInv ==
  /\ Owned(Holders(Producers), reserved, Pushed, Pushing)
  /\ Owned(Holders(Consumers), reserved, Popped, Popping)

(* What the public indices order: the writes of the values not yet reserved   *)
(* by a pop, the reads of the values whose slots are not yet reserved by a    *)
(* push; and a holder is ordered after the last use of its slot.             *)
OrderInv ==
  /\ \A n \in Popping .. Pushed - 1 : At(n) \in write_order
  /\ \A n \in Pushing .. Popped + Capacity - 1 : At(n) \in read_order
  /\ \A t \in Threads : HasReserved(t) => reserved[t] \in order[t]

(* A thread about to check or to swap loaded the index of some call of this  *)
(* sample; if no other thread has reserved that one, what it checked holds.  *)
PushLoaded(p) ==
  pc[p] \in {"push_check", "push_reserve"} =>
    \E n \in done[p] .. Pushing :
      /\ reserved[p] = At(n)
      /\ pc[p] = "push_reserve" /\ n = Pushing =>
           Pushing + 1 < Popped + Capacity /\ reserved[p] \in order[p]

PopLoaded(c) ==
  pc[c] \in {"pop_check", "pop_reserve"} =>
    \E n \in done[c] .. Popping :
      /\ reserved[c] = At(n)
      /\ pc[c] = "pop_reserve" /\ n = Popping =>
           Popping < Pushed /\ reserved[c] \in order[c]

LoadedInv == (\A p \in Producers : PushLoaded(p)) /\ (\A c \in Consumers : PopLoaded(c))

RingInv == WindowInv /\ OwnInv /\ OrderInv /\ LoadedInv

(* A push that is about to publish has written its argument. *)
WrittenInv == \A p \in Producers : pc[p] = "push_publish" => data[reserved[p]] = Arg(p)

AtomicInv == TypeInv /\ RingInv /\ WrittenInv

(* One more slot is taken at the end. *)
LEMMA OwnedGrows ==
  ASSUME NEW H, NEW res, NEW from \in Int, NEW to \in Int, Owned(H, res, from, to),
         NEW t, res[t] = At(to), from <= to, to < from + Capacity
  PROVE  Owned(H \cup {t}, res, from, to + 1)
<1>1. \A n \in from .. to - 1 : At(n) # At(to)
  BY AtApart, AtomicAssumption
<1>2. \A n \in from .. to + 1 - 1 : n \in from .. to - 1 \/ n = to
  OBVIOUS
<1>3. to \in from .. to + 1 - 1 /\ \A n \in from .. to - 1 : n \in from .. to + 1 - 1
  OBVIOUS
<1>4. \A n \in from .. to + 1 - 1 : \E u \in H \cup {t} : res[u] = At(n)
  BY <1>2 DEF Owned
<1>5. \A u \in H \cup {t} : \E n \in from .. to + 1 - 1 : res[u] = At(n)
  BY <1>3 DEF Owned
<1>6. \A u \in H : res[u] # res[t]
  BY <1>1 DEF Owned
<1>7. \A u, v \in H \cup {t} : res[u] = res[v] => u = v
  BY <1>6 DEF Owned
<1> QED
  BY <1>4, <1>5, <1>7 DEF Owned

(* The first slot is given back. *)
LEMMA OwnedShrinks ==
  ASSUME NEW H, NEW res, NEW from \in Int, NEW to \in Int, Owned(H, res, from, to),
         NEW t \in H, res[t] = At(from), to <= from + Capacity
  PROVE  Owned(H \ {t}, res, from + 1, to)
<1>1. \A n \in from + 1 .. to - 1 : At(from) # At(n)
  BY AtApart, AtomicAssumption
<1>2. \A n \in from .. to - 1 : n \in from + 1 .. to - 1 \/ n = from
  OBVIOUS
<1>3. \A n \in from + 1 .. to - 1 : n \in from .. to - 1
  OBVIOUS
<1>4. \A n \in from + 1 .. to - 1 : \E u \in H \ {t} : res[u] = At(n)
  BY <1>1, <1>3 DEF Owned
<1>5. \A u \in H \ {t} : res[u] # At(from)
  BY DEF Owned
<1>6. \A u \in H \ {t} : \E n \in from + 1 .. to - 1 : res[u] = At(n)
  BY <1>2, <1>5 DEF Owned
<1> QED
  BY <1>4, <1>6 DEF Owned

(* Nobody takes or gives back a slot. *)
LEMMA OwnedSame ==
  ASSUME NEW H, NEW res, NEW new, NEW from, NEW to, Owned(H, res, from, to),
         \A t \in H : new[t] = res[t]
  PROVE  Owned(H, new, from, to)
<1>1. \A n \in from .. to - 1 : \E t \in H : new[t] = At(n)
  BY DEF Owned
<1>2. \A t \in H : \E n \in from .. to - 1 : new[t] = At(n)
  BY DEF Owned
<1> QED
  BY <1>1, <1>2 DEF Owned

(* Which call a holder's slot is for. *)
LEMMA HolderCall ==
  ASSUME OwnInv
  PROVE  /\ \A p \in Producers : HasReserved(p) => \E n \in Pushed .. Pushing - 1 : reserved[p] = At(n)
         /\ \A c \in Consumers : HasReserved(c) => \E n \in Popped .. Popping - 1 : reserved[c] = At(n)
  BY DEF OwnInv, Owned, Holders

(* Two threads never hold one slot. *)
LEMMA HoldersApart ==
  ASSUME WindowInv, OwnInv, NEW t \in Threads, NEW u \in Threads, t # u,
         HasReserved(t), HasReserved(u)
  PROVE  reserved[t] # reserved[u]
<1>1. CASE t \in Producers /\ u \in Producers
  BY <1>1 DEF OwnInv, Owned, Holders
<1>2. CASE t \in Consumers /\ u \in Consumers
  BY <1>2 DEF OwnInv, Owned, Holders
<1>3. ASSUME NEW p \in Producers, NEW c \in Consumers, HasReserved(p), HasReserved(c)
      PROVE  reserved[p] # reserved[c]
  <2>1. PICK n \in Pushed .. Pushing - 1 : reserved[p] = At(n)
    BY <1>3, HolderCall
  <2>2. PICK m \in Popped .. Popping - 1 : reserved[c] = At(m)
    BY <1>3, HolderCall
  <2>3. n \in Int /\ m \in Int /\ m < n /\ n < m + Capacity
    BY CountTypes, AtomicAssumption DEF WindowInv
  <2> QED
    BY <2>1, <2>2, <2>3, AtApart
<1> QED
  BY <1>1, <1>2, <1>3 DEF Threads

(* At the start nothing is begun, and every slot is free. *)
LEMMA InitInv == Init => AtomicInv
<1> SUFFICES ASSUME Init PROVE AtomicInv
  OBVIOUS
<1>1. TypeOK /\ InCall
  <2>1. 0 \in Slots /\ 0 \in 0 .. Iterations
    BY AtomicAssumption DEF Slots
  <2> QED
    BY <2>1 DEF Init, TypeOK, InCall, Threads
<1>2. Popped = 0 /\ Popping = 0 /\ Pushed = 0 /\ Pushing = 0
  <2>1. \A t \in Threads : done[t] = 0 /\ Begun[t] = 0
    BY DEF Init, Begun, HasReserved
  <2>2. \A f, T : (\A t \in T : f[t] = 0) => CallsUpTo(f, T) = 0
    BY CountNone
  <2>3. /\ CallsUpTo(done, Producers) = 0 /\ CallsUpTo(done, Consumers) = 0
        /\ CallsUpTo(Begun, Producers) = 0 /\ CallsUpTo(Begun, Consumers) = 0
    BY <2>1, <2>2 DEF Threads
  <2> QED
    BY <2>3 DEF Popped, Popping, Pushed, Pushing, Calls, Started
<1>3. At(0) = 0
  BY AtomicAssumption, ModSmall DEF At
<1>4. IndexInv
  BY <1>2, <1>3 DEF Init, IndexInv
<1>5. WindowInv
  BY <1>2, AtomicAssumption DEF WindowInv
<1>6. \A t \in Threads : ~HasReserved(t)
  BY DEF Init, HasReserved
<1>7. OwnInv
  <2>1. Holders(Producers) = {} /\ Holders(Consumers) = {}
    BY <1>6 DEF Holders, Threads
  <2>2. \A res : Owned({}, res, 0, 0)
    BY DEF Owned
  <2> QED
    BY <1>2, <2>1, <2>2 DEF OwnInv
<1>8. OrderInv
  <2>1. \A n \in Pushing .. Popped + Capacity - 1 : At(n) \in Slots
    BY <1>2, AtType, AtomicAssumption
  <2> QED
    BY <1>2, <1>6, <2>1 DEF Init, OrderInv
<1>9. LoadedInv /\ WrittenInv
  BY DEF Init, LoadedInv, PushLoaded, PopLoaded, WrittenInv, Threads
<1> QED
  BY <1>1, <1>4, <1>5, <1>7, <1>8, <1>9 DEF AtomicInv, TypeInv, RingInv

-----------------------------------------------------------------------------
(* The indices are slots. *)
LEMMA IndexTypes ==
  ASSUME IndexInv
  PROVE  /\ read_idx \in Slots /\ reserved_read_idx \in Slots
         /\ write_idx \in Slots /\ reserved_write_idx \in Slots
  BY CountTypes, AtType DEF IndexInv

(* An access leaves sets of slots in the three orders. *)
LEMMA AccessType ==
  ASSUME TypeOK, NEW t \in Threads, Access(t)
  PROVE  /\ write_order' \in SUBSET Slots /\ read_order' \in SUBSET Slots
         /\ order' \in [Threads -> SUBSET Slots]
  BY DEF TypeOK, Access

(* The steps of a push keep the types. *)
LEMMA PushType ==
  ASSUME TypeInv, NEW p \in Producers, Push(p)
  PROVE  TypeOK' /\ InCall'
<1> USE DEF TypeInv
<1>0. /\ p \in Threads /\ p \notin Consumers
      /\ reserved_write_idx \in Slots
      /\ reserved[p] \in Slots /\ done[p] \in 0 .. Iterations /\ done[p] \in Nat
  BY IndexTypes, AtomicAssumption DEF Threads, TypeOK
<1>1. CASE PushCall(p)
  BY <1>0, <1>1 DEF PushCall, LoadReserved, Goto, orders, TypeOK, InCall, PushPCs
<1>2. CASE PushReload(p)
  BY <1>0, <1>2 DEF PushReload, LoadReserved, Goto, orders, TypeOK, InCall, PushPCs
<1>3. CASE PushFull(p)
  BY <1>0, <1>3 DEF PushFull, Goto, orders, TypeOK, InCall, PushPCs
<1>4. CASE PushRoom(p)
  <2>1. /\ pc' \in [Threads -> {"idle"} \cup PushPCs \cup PopPCs]
        /\ \A q \in Producers : pc'[q] \in {"idle"} \cup PushPCs
        /\ \A c \in Consumers : pc'[c] \in {"idle"} \cup PopPCs
    BY <1>0, <1>4 DEF PushRoom, Goto, TypeOK, PushPCs
  <2>2. /\ order' \in [Threads -> SUBSET Slots]
        /\ write_order' = write_order /\ read_order' = read_order
    BY <1>0, <1>4 DEF PushRoom, Acquire, TypeOK
  <2>3. InCall'
    BY <1>0, <1>4 DEF PushRoom, Goto, TypeOK, InCall
  <2> QED
    BY <1>4, <2>1, <2>2, <2>3 DEF PushRoom, TypeOK
<1>5. CASE PushReserve(p)
  <2>1. /\ pc' \in [Threads -> {"idle"} \cup PushPCs \cup PopPCs]
        /\ \A q \in Producers : pc'[q] \in {"idle"} \cup PushPCs
        /\ \A c \in Consumers : pc'[c] \in {"idle"} \cup PopPCs
    BY <1>0, <1>5 DEF PushReserve, Goto, TypeOK, PushPCs
  <2>2. /\ order' \in [Threads -> SUBSET Slots]
        /\ write_order' = write_order /\ read_order' = read_order
    BY <1>0, <1>5 DEF PushReserve, orders, TypeOK
  <2>3. InCall'
    BY <1>0, <1>5 DEF PushReserve, Goto, TypeOK, InCall
  <2> QED
    BY <1>5, <2>1, <2>2, <2>3 DEF PushReserve, TypeOK
<1>6. CASE PushReserveFails(p)
  <2>1. /\ pc' \in [Threads -> {"idle"} \cup PushPCs \cup PopPCs]
        /\ \A q \in Producers : pc'[q] \in {"idle"} \cup PushPCs
        /\ \A c \in Consumers : pc'[c] \in {"idle"} \cup PopPCs
    BY <1>0, <1>6 DEF PushReserveFails, Goto, TypeOK, PushPCs
  <2>2. /\ order' \in [Threads -> SUBSET Slots]
        /\ write_order' = write_order /\ read_order' = read_order
    BY <1>0, <1>6 DEF PushReserveFails, Forget, TypeOK
  <2>3. InCall'
    BY <1>0, <1>6 DEF PushReserveFails, Goto, TypeOK, InCall
  <2> QED
    BY <1>6, <2>1, <2>2, <2>3 DEF PushReserveFails, TypeOK
<1>7. CASE PushWrite(p)
  <2>1. Arg(p) \in Value
    BY <1>0, <1>7, AtomicAssumption DEF PushWrite, Goto, InCall, Arg, Value
  <2>2. data' \in [Slots -> Value \cup {None}]
    BY <1>7, <2>1 DEF PushWrite, TypeOK
  <2>3. /\ pc' \in [Threads -> {"idle"} \cup PushPCs \cup PopPCs]
        /\ \A q \in Producers : pc'[q] \in {"idle"} \cup PushPCs
        /\ \A c \in Consumers : pc'[c] \in {"idle"} \cup PopPCs
    BY <1>0, <1>7 DEF PushWrite, Goto, TypeOK, PushPCs
  <2>4. InCall'
    BY <1>0, <1>7 DEF PushWrite, Goto, TypeOK, InCall
  <2> QED
    BY <1>0, <1>7, <2>2, <2>3, <2>4, AccessType DEF PushWrite, TypeOK
<1>8. CASE PushPublish(p)
  <2>1. /\ pc' \in [Threads -> {"idle"} \cup PushPCs \cup PopPCs]
        /\ \A q \in Producers : pc'[q] \in {"idle"} \cup PushPCs
        /\ \A c \in Consumers : pc'[c] \in {"idle"} \cup PopPCs
    BY <1>0, <1>8 DEF PushPublish, Goto, TypeOK, PushPCs
  <2>2. done[p] < Iterations
    BY <1>0, <1>8 DEF PushPublish, Goto, InCall
  <2>3. done' \in [Threads -> 0 .. Iterations]
    BY <1>0, <1>8, <2>2, AtomicAssumption DEF PushPublish, Finish, TypeOK
  <2>4. InCall'
    BY <1>0, <1>8 DEF PushPublish, Goto, Finish, TypeOK, InCall
  <2>5. order' \in [Threads -> SUBSET Slots] /\ write_order' \in SUBSET Slots
    BY <1>0, <1>8 DEF PushPublish, Forget, TypeOK
  <2> QED
    BY <1>8, <2>1, <2>3, <2>4, <2>5 DEF PushPublish, TypeOK
<1> QED
  BY <1>1, <1>2, <1>3, <1>4, <1>5, <1>6, <1>7, <1>8 DEF Push

(* The steps of a pop keep the types. *)
LEMMA PopType ==
  ASSUME TypeInv, NEW c \in Consumers, Pop(c)
  PROVE  TypeOK' /\ InCall'
<1> USE DEF TypeInv
<1>0. /\ c \in Threads /\ c \notin Producers
      /\ reserved_read_idx \in Slots
      /\ reserved[c] \in Slots /\ done[c] \in 0 .. Iterations /\ done[c] \in Nat
  BY IndexTypes, AtomicAssumption DEF Threads, TypeOK
<1>1. CASE PopCall(c)
  BY <1>0, <1>1 DEF PopCall, LoadReserved, Goto, orders, TypeOK, InCall, PopPCs
<1>2. CASE PopReload(c)
  BY <1>0, <1>2 DEF PopReload, LoadReserved, Goto, orders, TypeOK, InCall, PopPCs
<1>3. CASE PopEmpty(c)
  BY <1>0, <1>3 DEF PopEmpty, Goto, orders, TypeOK, InCall, PopPCs
<1>4. CASE PopWritten(c)
  <2>1. /\ pc' \in [Threads -> {"idle"} \cup PushPCs \cup PopPCs]
        /\ \A p \in Producers : pc'[p] \in {"idle"} \cup PushPCs
        /\ \A d \in Consumers : pc'[d] \in {"idle"} \cup PopPCs
    BY <1>0, <1>4 DEF PopWritten, Goto, TypeOK, PopPCs
  <2>2. /\ order' \in [Threads -> SUBSET Slots]
        /\ write_order' = write_order /\ read_order' = read_order
    BY <1>0, <1>4 DEF PopWritten, Acquire, TypeOK
  <2>3. InCall'
    BY <1>0, <1>4 DEF PopWritten, Goto, TypeOK, InCall
  <2> QED
    BY <1>4, <2>1, <2>2, <2>3 DEF PopWritten, TypeOK
<1>5. CASE PopReserve(c)
  <2>1. /\ pc' \in [Threads -> {"idle"} \cup PushPCs \cup PopPCs]
        /\ \A p \in Producers : pc'[p] \in {"idle"} \cup PushPCs
        /\ \A d \in Consumers : pc'[d] \in {"idle"} \cup PopPCs
    BY <1>0, <1>5 DEF PopReserve, Goto, TypeOK, PopPCs
  <2>2. /\ order' \in [Threads -> SUBSET Slots]
        /\ write_order' = write_order /\ read_order' = read_order
    BY <1>0, <1>5 DEF PopReserve, orders, TypeOK
  <2>3. InCall'
    BY <1>0, <1>5 DEF PopReserve, Goto, TypeOK, InCall
  <2> QED
    BY <1>5, <2>1, <2>2, <2>3 DEF PopReserve, TypeOK
<1>6. CASE PopReserveFails(c)
  <2>1. /\ pc' \in [Threads -> {"idle"} \cup PushPCs \cup PopPCs]
        /\ \A p \in Producers : pc'[p] \in {"idle"} \cup PushPCs
        /\ \A d \in Consumers : pc'[d] \in {"idle"} \cup PopPCs
    BY <1>0, <1>6 DEF PopReserveFails, Goto, TypeOK, PopPCs
  <2>2. /\ order' \in [Threads -> SUBSET Slots]
        /\ write_order' = write_order /\ read_order' = read_order
    BY <1>0, <1>6 DEF PopReserveFails, Forget, TypeOK
  <2>3. InCall'
    BY <1>0, <1>6 DEF PopReserveFails, Goto, TypeOK, InCall
  <2> QED
    BY <1>6, <2>1, <2>2, <2>3 DEF PopReserveFails, TypeOK
<1>7. CASE PopRead(c)
  <2>1. val' \in [Consumers -> Value \cup {None}]
    BY <1>0, <1>7 DEF PopRead, TypeOK
  <2>2. /\ pc' \in [Threads -> {"idle"} \cup PushPCs \cup PopPCs]
        /\ \A p \in Producers : pc'[p] \in {"idle"} \cup PushPCs
        /\ \A d \in Consumers : pc'[d] \in {"idle"} \cup PopPCs
    BY <1>0, <1>7 DEF PopRead, Goto, TypeOK, PopPCs
  <2>3. InCall'
    BY <1>0, <1>7 DEF PopRead, Goto, TypeOK, InCall
  <2> QED
    BY <1>0, <1>7, <2>1, <2>2, <2>3, AccessType DEF PopRead, TypeOK
<1>8. CASE PopPublish(c)
  <2>1. /\ pc' \in [Threads -> {"idle"} \cup PushPCs \cup PopPCs]
        /\ \A p \in Producers : pc'[p] \in {"idle"} \cup PushPCs
        /\ \A d \in Consumers : pc'[d] \in {"idle"} \cup PopPCs
    BY <1>0, <1>8 DEF PopPublish, Goto, TypeOK, PopPCs
  <2>2. done[c] < Iterations
    BY <1>0, <1>8 DEF PopPublish, Goto, InCall
  <2>3. done' \in [Threads -> 0 .. Iterations]
    BY <1>0, <1>8, <2>2, AtomicAssumption DEF PopPublish, Finish, TypeOK
  <2>4. InCall'
    BY <1>0, <1>8 DEF PopPublish, Goto, Finish, TypeOK, InCall
  <2>5. order' \in [Threads -> SUBSET Slots] /\ read_order' \in SUBSET Slots
    BY <1>0, <1>8 DEF PopPublish, Forget, TypeOK
  <2> QED
    BY <1>8, <2>1, <2>3, <2>4, <2>5 DEF PopPublish, TypeOK
<1> QED
  BY <1>1, <1>2, <1>3, <1>4, <1>5, <1>6, <1>7, <1>8 DEF Pop

(* A reset keeps the types. *)
LEMMA ResetType ==
  ASSUME TypeInv, Reset
  PROVE  TypeOK' /\ InCall'
<1>1. 0 \in Slots /\ 0 \in 0 .. Iterations
  BY AtomicAssumption DEF Slots
<1>2. \A t \in Threads : pc'[t] = "idle"
  BY DEF Reset, AllDone
<1>3. sample + 1 \in Nat
  BY DEF TypeInv, TypeOK
<1> QED
  BY <1>1, <1>2, <1>3 DEF Reset, TypeInv, TypeOK, InCall

-----------------------------------------------------------------------------
(* Steps outside a slot: what a thread loads, checks, or finds changed. *)
Others(t) ==
  \A u \in Threads : u # t => pc'[u] = pc[u] /\ reserved'[u] = reserved[u] /\ order'[u] = order[u]

(* A thread that does not move keeps what its check established, if no index  *)
(* goes back and nobody uses its slot while its check still counts.          *)
LEMMA PushLoadedKept ==
  ASSUME NEW p \in Producers, PushLoaded(p), Pushing <= Pushing', Popped <= Popped',
         pc'[p] = pc[p], reserved'[p] = reserved[p], done'[p] = done[p], done[p] \in Nat,
         Capacity \in Nat, Pushing' \in Nat, Popped' \in Nat,
         Pushing' = Pushing /\ reserved[p] = At(Pushing) /\ reserved[p] \in order[p]
            => reserved[p] \in order'[p]
  PROVE  PushLoaded(p)'
<1> SUFFICES ASSUME pc[p] \in {"push_check", "push_reserve"} PROVE PushLoaded(p)'
  BY DEF PushLoaded
<1>1. PICK n \in done[p] .. Pushing :
        /\ reserved[p] = At(n)
        /\ pc[p] = "push_reserve" /\ n = Pushing =>
             Pushing + 1 < Popped + Capacity /\ reserved[p] \in order[p]
  BY DEF PushLoaded
<1>2. n \in done'[p] .. Pushing' /\ reserved'[p] = At(n)
  BY <1>1, CountTypes
<1>3. pc'[p] = "push_reserve" /\ n = Pushing' =>
        Pushing' + 1 < Popped' + Capacity /\ reserved'[p] \in order'[p]
  <2> SUFFICES ASSUME pc'[p] = "push_reserve", n = Pushing'
               PROVE  Pushing' + 1 < Popped' + Capacity /\ reserved'[p] \in order'[p]
    OBVIOUS
  <2>1. n \in Nat /\ n = Pushing /\ Pushing' = Pushing
    BY CountTypes
  <2>2. Pushing + 1 < Popped + Capacity /\ reserved[p] \in order[p]
    BY <1>1, <2>1
  <2>3. reserved'[p] \in order'[p]
    BY <1>1, <2>1, <2>2
  <2>4. Pushing' + 1 < Popped' + Capacity
    <3> DEFINE a == Popped
    <3> DEFINE b == Popped'
    <3>1. a \in Nat /\ b \in Nat /\ a <= b /\ n + 1 < a + Capacity
      BY <2>1, <2>2, CountTypes
    <3> HIDE DEF a, b
    <3>2. n + 1 < b + Capacity
      BY <2>1, <3>1
    <3> QED
      BY <3>2 DEF b
  <2> QED
    BY <2>3, <2>4
<1> QED
  BY <1>2, <1>3 DEF PushLoaded, At

(* The same for a thread inside a pop. *)
LEMMA PopLoadedKept ==
  ASSUME NEW c \in Consumers, PopLoaded(c), Popping <= Popping', Pushed <= Pushed',
         pc'[c] = pc[c], reserved'[c] = reserved[c], done'[c] = done[c], done[c] \in Nat,
         Popping' \in Nat, Pushed' \in Nat,
         Popping' = Popping /\ reserved[c] = At(Popping) /\ Popping < Pushed /\ reserved[c] \in order[c]
            => reserved[c] \in order'[c]
  PROVE  PopLoaded(c)'
<1> SUFFICES ASSUME pc[c] \in {"pop_check", "pop_reserve"} PROVE PopLoaded(c)'
  BY DEF PopLoaded
<1>1. PICK n \in done[c] .. Popping :
        /\ reserved[c] = At(n)
        /\ pc[c] = "pop_reserve" /\ n = Popping => Popping < Pushed /\ reserved[c] \in order[c]
  BY DEF PopLoaded
<1>2. n \in done'[c] .. Popping' /\ reserved'[c] = At(n)
  BY <1>1, CountTypes
<1>3. pc'[c] = "pop_reserve" /\ n = Popping' => Popping' < Pushed' /\ reserved'[c] \in order'[c]
  BY <1>1, CountTypes
<1> QED
  BY <1>2, <1>3 DEF PopLoaded, At

(* Such a step disturbs nothing but what its own thread has loaded. *)
LEMMA QuietStep ==
  ASSUME TypeInv, TypeOK', InCall', RingInv, NEW t \in Threads, Others(t),
         UNCHANGED <<indices, done, write_order, read_order>>,
         ~HasReserved(t), ~HasReserved(t)'
  PROVE  /\ Popped' = Popped /\ Popping' = Popping /\ Pushed' = Pushed /\ Pushing' = Pushing
         /\ TypeInv' /\ WindowInv' /\ OwnInv' /\ OrderInv'
         /\ \A p \in Producers : p # t => PushLoaded(p)'
         /\ \A c \in Consumers : c # t => PopLoaded(c)'
<1>1. \A u \in Threads : HasReserved(u)' <=> HasReserved(u)
  BY DEF Others, HasReserved
<1>2. Popped' = Popped /\ Popping' = Popping /\ Pushed' = Pushed /\ Pushing' = Pushing
  BY <1>1, QuietCounts
<1>3. TypeInv'
  BY <1>2 DEF TypeInv, IndexInv, indices, At
<1>4. WindowInv'
  BY <1>2 DEF WindowInv, RingInv
<1>5. OwnInv'
  <2>1. Holders(Producers)' = Holders(Producers) /\ Holders(Consumers)' = Holders(Consumers)
    BY <1>1 DEF Holders, Threads
  <2>2. /\ \A u \in Holders(Producers) : reserved'[u] = reserved[u]
        /\ \A u \in Holders(Consumers) : reserved'[u] = reserved[u]
    BY DEF Others, Holders, Threads
  <2>3. /\ Owned(Holders(Producers), reserved', Pushed, Pushing)
        /\ Owned(Holders(Consumers), reserved', Popped, Popping)
    BY <2>2, OwnedSame DEF RingInv, OwnInv
  <2> QED
    BY <1>2, <2>1, <2>3 DEF OwnInv, Owned, At
<1>6. OrderInv'
  BY <1>1, <1>2 DEF OrderInv, RingInv, Others, At
<1>7. ASSUME NEW p \in Producers, p # t PROVE PushLoaded(p)'
  <2>1. /\ pc'[p] = pc[p] /\ reserved'[p] = reserved[p] /\ order'[p] = order[p]
        /\ done'[p] = done[p] /\ PushLoaded(p)
    BY <1>7 DEF Others, Threads, RingInv, LoadedInv
  <2> QED
    BY <1>2, <2>1 DEF PushLoaded, At
<1>8. ASSUME NEW c \in Consumers, c # t PROVE PopLoaded(c)'
  <2>1. /\ pc'[c] = pc[c] /\ reserved'[c] = reserved[c] /\ order'[c] = order[c]
        /\ done'[c] = done[c] /\ PopLoaded(c)
    BY <1>8 DEF Others, Threads, RingInv, LoadedInv
  <2> QED
    BY <1>2, <2>1 DEF PopLoaded, At
<1> QED
  BY <1>2, <1>3, <1>4, <1>5, <1>6, <1>7, <1>8

(* The loads, checks and failed swaps of a push. *)
LEMMA PushOutside ==
  ASSUME NoLap, TypeInv, TypeOK', InCall', RingInv, NEW p \in Producers,
         \/ PushCall(p) \/ PushReload(p) \/ PushFull(p) \/ PushRoom(p) \/ PushReserveFails(p)
  PROVE  TypeInv' /\ RingInv'
<1>0. /\ p \in Threads /\ p \notin Consumers
      /\ pc \in [Threads -> {"idle"} \cup PushPCs \cup PopPCs]
      /\ reserved \in [Threads -> Slots] /\ order \in [Threads -> SUBSET Slots]
      /\ done[p] \in Nat /\ Capacity \in Nat \ {0}
  BY AtomicAssumption DEF Threads, TypeInv, TypeOK
<1>1. /\ Others(p) /\ ~HasReserved(p) /\ ~HasReserved(p)'
      /\ UNCHANGED <<indices, done, write_order, read_order>>
  BY <1>0 DEF PushCall, PushReload, PushFull, PushRoom, PushReserveFails, LoadReserved, Goto,
     Acquire, Forget, Others, HasReserved, orders, indices
<1>2. /\ Popped' = Popped /\ Popping' = Popping /\ Pushed' = Pushed /\ Pushing' = Pushing
      /\ TypeInv' /\ WindowInv' /\ OwnInv' /\ OrderInv'
      /\ \A q \in Producers : q # p => PushLoaded(q)'
      /\ \A c \in Consumers : c # p => PopLoaded(c)'
  BY <1>0, <1>1, QuietStep
<1>3. done[p] <= Pushing /\ Pushing < done[p] + Capacity /\ done'[p] = done[p]
  BY <1>1, WithinLap DEF TypeInv
<1>4. PushLoaded(p)'
  <2>1. CASE PushCall(p) \/ PushReload(p)
    <3>1. pc'[p] = "push_check" /\ reserved'[p] = reserved_write_idx
      BY <1>0, <2>1 DEF PushCall, PushReload, LoadReserved, Goto
    <3>2. reserved'[p] = At(Pushing)
      BY <3>1 DEF TypeInv, IndexInv
    <3>3. Pushing \in done[p] .. Pushing
      BY <1>0, <1>3, CountTypes
    <3> QED
      BY <1>2, <1>3, <3>1, <3>2, <3>3 DEF PushLoaded, At
  <2>2. CASE PushFull(p) \/ PushReserveFails(p)
    <3>1. pc'[p] \in {"idle", "push_reload"}
      BY <1>0, <2>2 DEF PushFull, PushReserveFails, Goto
    <3> QED
      BY <3>1 DEF PushLoaded
  <2>3. CASE PushRoom(p)
    <3>1. /\ pc[p] = "push_check" /\ reserved'[p] = reserved[p]
          /\ NextSlot(reserved[p]) # read_idx
          /\ order'[p] = {reserved[p]} \cap read_order
      BY <1>0, <2>3 DEF PushRoom, Goto, Acquire
    <3>2. PICK n \in done[p] .. Pushing : reserved[p] = At(n)
      BY <3>1 DEF RingInv, LoadedInv, PushLoaded
    <3>3. ASSUME n = Pushing PROVE Pushing + 1 < Popped + Capacity /\ reserved[p] \in order'[p]
      <4>1. At(Pushing + 1) # At(Popped)
        BY <3>1, <3>2, <3>3, CountTypes, AtNext DEF TypeInv, IndexInv
      <4>2. At(Popped + Capacity) = At(Popped)
        BY CountTypes, AtLap
      <4>3. Pushing + 1 # Popped + Capacity
        BY <4>1, <4>2
      <4>4. Pushing + 1 < Popped + Capacity
        BY <4>3, <1>0, CountTypes DEF RingInv, WindowInv
      <4>5. Pushing \in Pushing .. Popped + Capacity - 1
        BY <4>4, <1>0, CountTypes
      <4>6. At(Pushing) \in read_order
        BY <4>5 DEF RingInv, OrderInv
      <4> QED
        BY <4>4, <4>6, <3>1, <3>2, <3>3
    <3> QED
      BY <1>2, <1>3, <3>1, <3>2, <3>3 DEF PushLoaded, At
  <2> QED
    BY <2>1, <2>2, <2>3
<1>5. LoadedInv'
  BY <1>0, <1>2, <1>4 DEF LoadedInv
<1> QED
  BY <1>2, <1>5 DEF RingInv

(* The loads, checks and failed swaps of a pop. *)
LEMMA PopOutside ==
  ASSUME NoLap, TypeInv, TypeOK', InCall', RingInv, NEW c \in Consumers,
         \/ PopCall(c) \/ PopReload(c) \/ PopEmpty(c) \/ PopWritten(c) \/ PopReserveFails(c)
  PROVE  TypeInv' /\ RingInv'
<1>0. /\ c \in Threads /\ c \notin Producers
      /\ pc \in [Threads -> {"idle"} \cup PushPCs \cup PopPCs]
      /\ reserved \in [Threads -> Slots] /\ order \in [Threads -> SUBSET Slots]
      /\ done[c] \in Nat /\ Capacity \in Nat \ {0}
  BY AtomicAssumption DEF Threads, TypeInv, TypeOK
<1>1. /\ Others(c) /\ ~HasReserved(c) /\ ~HasReserved(c)'
      /\ UNCHANGED <<indices, done, write_order, read_order>>
  BY <1>0 DEF PopCall, PopReload, PopEmpty, PopWritten, PopReserveFails, LoadReserved, Goto,
     Acquire, Forget, Others, HasReserved, orders, indices
<1>2. /\ Popped' = Popped /\ Popping' = Popping /\ Pushed' = Pushed /\ Pushing' = Pushing
      /\ TypeInv' /\ WindowInv' /\ OwnInv' /\ OrderInv'
      /\ \A p \in Producers : p # c => PushLoaded(p)'
      /\ \A d \in Consumers : d # c => PopLoaded(d)'
  BY <1>0, <1>1, QuietStep
<1>3. done[c] <= Popping /\ Popping < done[c] + Capacity /\ done'[c] = done[c]
  BY <1>1, WithinLap DEF TypeInv
<1>4. PopLoaded(c)'
  <2>1. CASE PopCall(c) \/ PopReload(c)
    <3>1. pc'[c] = "pop_check" /\ reserved'[c] = reserved_read_idx
      BY <1>0, <2>1 DEF PopCall, PopReload, LoadReserved, Goto
    <3>2. reserved'[c] = At(Popping)
      BY <3>1 DEF TypeInv, IndexInv
    <3>3. Popping \in done[c] .. Popping
      BY <1>0, <1>3, CountTypes
    <3> QED
      BY <1>2, <1>3, <3>1, <3>2, <3>3 DEF PopLoaded, At
  <2>2. CASE PopEmpty(c) \/ PopReserveFails(c)
    <3>1. pc'[c] \in {"idle", "pop_reload"}
      BY <1>0, <2>2 DEF PopEmpty, PopReserveFails, Goto
    <3> QED
      BY <3>1 DEF PopLoaded
  <2>3. CASE PopWritten(c)
    <3>1. /\ pc[c] = "pop_check" /\ reserved'[c] = reserved[c]
          /\ reserved[c] # write_idx
          /\ order'[c] = {reserved[c]} \cap write_order
      BY <1>0, <2>3 DEF PopWritten, Goto, Acquire
    <3>2. PICK n \in done[c] .. Popping : reserved[c] = At(n)
      BY <3>1 DEF RingInv, LoadedInv, PopLoaded
    <3>3. ASSUME n = Popping PROVE Popping < Pushed /\ reserved[c] \in order'[c]
      <4>1. Popping # Pushed
        BY <3>1, <3>2, <3>3 DEF TypeInv, IndexInv
      <4>2. Popping < Pushed
        BY <4>1, CountTypes DEF RingInv, WindowInv
      <4>3. Popping \in Popping .. Pushed - 1
        BY <4>2, CountTypes
      <4>4. At(Popping) \in write_order
        BY <4>3 DEF RingInv, OrderInv
      <4> QED
        BY <4>2, <4>4, <3>1, <3>2, <3>3
    <3> QED
      BY <1>2, <1>3, <3>1, <3>2, <3>3 DEF PopLoaded, At
  <2> QED
    BY <2>1, <2>2, <2>3
<1>5. LoadedInv'
  BY <1>0, <1>2, <1>4 DEF LoadedInv
<1> QED
  BY <1>2, <1>5 DEF RingInv

-----------------------------------------------------------------------------
(* Reserving: the swap succeeds only on the index of the next call, because    *)
(* the thread has not slept through a lap; so what it checked still holds.   *)
LEMMA PushReserveStep ==
  ASSUME NoLap, TypeInv, TypeOK', InCall', RingInv, NEW p \in Producers, PushReserve(p)
  PROVE  /\ Popped' = Popped /\ Popping' = Popping /\ Pushed' = Pushed
         /\ Pushing' = Pushing + 1 /\ TypeInv' /\ RingInv'
<1>0. /\ p \in Threads /\ p \notin Consumers
      /\ pc \in [Threads -> {"idle"} \cup PushPCs \cup PopPCs]
      /\ \A t \in Threads : done[t] \in Nat
      /\ Capacity \in Nat \ {0}
  BY AtomicAssumption DEF Threads, TypeInv, TypeOK
<1>1. /\ pc[p] = "push_reserve" /\ pc' = [pc EXCEPT ![p] = "push_write"]
      /\ reserved_write_idx = reserved[p] /\ reserved_write_idx' = NextSlot(reserved[p])
      /\ read_idx' = read_idx /\ reserved_read_idx' = reserved_read_idx /\ write_idx' = write_idx
      /\ reserved' = reserved /\ done' = done /\ order' = order
      /\ write_order' = write_order /\ read_order' = read_order
  BY DEF PushReserve, Goto, orders
<1>2. /\ ~HasReserved(p) /\ HasReserved(p)'
      /\ \A u \in Threads : u # p => pc'[u] = pc[u] /\ (HasReserved(u)' <=> HasReserved(u))
  BY <1>0, <1>1 DEF HasReserved
<1>3. /\ Popped' = Popped /\ Popping' = Popping /\ Pushed' = Pushed /\ Pushing' = Pushing + 1
  <2>1. Producers # Consumers
    BY <1>0
  <2> QED
    BY <1>1, <1>2, <2>1, ReserveCounts DEF TypeInv, Popping, Pushing
<1>4. PICK n \in done[p] .. Pushing :
        reserved[p] = At(n) /\ (n = Pushing => Pushing + 1 < Popped + Capacity /\ reserved[p] \in order[p])
  BY <1>1 DEF RingInv, LoadedInv, PushLoaded
<1>5. n = Pushing
  <2>1. At(n) = At(Pushing)
    BY <1>1, <1>4 DEF TypeInv, IndexInv
  <2>2. n \in Int /\ n <= Pushing /\ Pushing < n + Capacity
    BY <1>0, <1>2, CountTypes, WithinLap DEF TypeInv
  <2> QED
    BY <2>1, <2>2, CountTypes, AtApart
<1>6. Pushing + 1 < Popped + Capacity /\ reserved[p] \in order[p] /\ reserved[p] = At(Pushing)
  BY <1>4, <1>5
<1>7. TypeInv'
  <2>1. reserved_write_idx' = At(Pushing + 1)
    BY <1>1, <1>6, CountTypes, AtNext
  <2> QED
    BY <1>1, <1>3, <2>1 DEF TypeInv, IndexInv, At
<1>8. WindowInv'
  BY <1>0, <1>3, <1>6, CountTypes DEF WindowInv, RingInv
<1>9. OwnInv'
  <2>1. Holders(Producers)' = Holders(Producers) \cup {p} /\ Holders(Consumers)' = Holders(Consumers)
    BY <1>0, <1>2 DEF Holders, Threads
  <2>2. Pushed <= Pushing /\ Pushing < Pushed + Capacity
    BY <1>0, <1>6, CountTypes DEF RingInv, WindowInv
  <2>3. Owned(Holders(Producers) \cup {p}, reserved, Pushed, Pushing + 1)
    BY <1>6, <2>2, CountTypes, OwnedGrows DEF RingInv, OwnInv
  <2> QED
    BY <1>1, <1>3, <2>1, <2>3 DEF RingInv, OwnInv, Owned, At
<1>10. OrderInv'
  <2>1. \A m \in Pushing + 1 .. Popped + Capacity - 1 : m \in Pushing .. Popped + Capacity - 1
    BY <1>0, CountTypes
  <2>2. \A m \in Pushing + 1 .. Popped + Capacity - 1 : At(m) \in read_order
    BY <2>1 DEF RingInv, OrderInv
  <2>3. \A t \in Threads : HasReserved(t)' => reserved[t] \in order[t]
    BY <1>2, <1>6 DEF RingInv, OrderInv
  <2> QED
    BY <1>1, <1>3, <2>2, <2>3 DEF RingInv, OrderInv, At
<1>11. LoadedInv'
  <2>1. ASSUME NEW q \in Producers PROVE PushLoaded(q)'
    <3>1. CASE q = p
      BY <1>0, <1>1, <3>1 DEF PushLoaded
    <3>2. CASE q # p
      <4>1. /\ pc'[q] = pc[q] /\ reserved'[q] = reserved[q] /\ done'[q] = done[q]
            /\ order'[q] = order[q] /\ done[q] \in Nat /\ PushLoaded(q)
        BY <1>0, <1>1, <1>2, <3>2 DEF Threads, RingInv, LoadedInv
      <4>2. Pushing <= Pushing' /\ Popped <= Popped' /\ Pushing' \in Nat /\ Popped' \in Nat
        BY <1>3, CountTypes
      <4> QED
        BY <1>0, <4>1, <4>2, PushLoadedKept
    <3> QED
      BY <3>1, <3>2
  <2>2. ASSUME NEW c \in Consumers PROVE PopLoaded(c)'
    <3>1. /\ pc'[c] = pc[c] /\ reserved'[c] = reserved[c] /\ done'[c] = done[c]
          /\ order'[c] = order[c] /\ done[c] \in Nat /\ PopLoaded(c)
      BY <1>0, <1>1, <1>2 DEF Threads, RingInv, LoadedInv
    <3>2. Popping <= Popping' /\ Pushed <= Pushed' /\ Popping' \in Nat /\ Pushed' \in Nat
      BY <1>3, CountTypes
    <3> QED
      BY <3>1, <3>2, PopLoadedKept
  <2> QED
    BY <2>1, <2>2 DEF LoadedInv
<1> QED
  BY <1>3, <1>7, <1>8, <1>9, <1>10, <1>11 DEF RingInv

(* The same for a pop. *)
LEMMA PopReserveStep ==
  ASSUME NoLap, TypeInv, TypeOK', InCall', RingInv, NEW c \in Consumers, PopReserve(c)
  PROVE  /\ Popped' = Popped /\ Pushed' = Pushed /\ Pushing' = Pushing
         /\ Popping' = Popping + 1 /\ reserved[c] = At(Popping) /\ TypeInv' /\ RingInv'
<1>0. /\ c \in Threads /\ c \notin Producers
      /\ pc \in [Threads -> {"idle"} \cup PushPCs \cup PopPCs]
      /\ \A t \in Threads : done[t] \in Nat
      /\ Capacity \in Nat \ {0}
  BY AtomicAssumption DEF Threads, TypeInv, TypeOK
<1>1. /\ pc[c] = "pop_reserve" /\ pc' = [pc EXCEPT ![c] = "pop_read"]
      /\ reserved_read_idx = reserved[c] /\ reserved_read_idx' = NextSlot(reserved[c])
      /\ read_idx' = read_idx /\ reserved_write_idx' = reserved_write_idx /\ write_idx' = write_idx
      /\ reserved' = reserved /\ done' = done /\ order' = order
      /\ write_order' = write_order /\ read_order' = read_order
  BY DEF PopReserve, Goto, orders
<1>2. /\ ~HasReserved(c) /\ HasReserved(c)'
      /\ \A u \in Threads : u # c => pc'[u] = pc[u] /\ (HasReserved(u)' <=> HasReserved(u))
  BY <1>0, <1>1 DEF HasReserved
<1>3. /\ Popped' = Popped /\ Pushing' = Pushing /\ Pushed' = Pushed /\ Popping' = Popping + 1
  <2>1. Producers # Consumers
    BY <1>0
  <2> QED
    BY <1>1, <1>2, <2>1, ReserveCounts DEF TypeInv, Popping, Pushing
<1>4. PICK n \in done[c] .. Popping :
        reserved[c] = At(n) /\ (n = Popping => Popping < Pushed /\ reserved[c] \in order[c])
  BY <1>1 DEF RingInv, LoadedInv, PopLoaded
<1>5. n = Popping
  <2>1. At(n) = At(Popping)
    BY <1>1, <1>4 DEF TypeInv, IndexInv
  <2>2. n \in Int /\ n <= Popping /\ Popping < n + Capacity
    BY <1>0, <1>2, CountTypes, WithinLap DEF TypeInv
  <2> QED
    BY <2>1, <2>2, CountTypes, AtApart
<1>6. Popping < Pushed /\ reserved[c] \in order[c] /\ reserved[c] = At(Popping)
  BY <1>4, <1>5
<1>7. TypeInv'
  <2>1. reserved_read_idx' = At(Popping + 1)
    BY <1>1, <1>6, CountTypes, AtNext
  <2> QED
    BY <1>1, <1>3, <2>1 DEF TypeInv, IndexInv, At
<1>8. WindowInv'
  BY <1>0, <1>3, <1>6, CountTypes DEF WindowInv, RingInv
<1>9. OwnInv'
  <2>1. Holders(Consumers)' = Holders(Consumers) \cup {c} /\ Holders(Producers)' = Holders(Producers)
    BY <1>0, <1>2 DEF Holders, Threads
  <2>2. Popped <= Popping /\ Popping < Popped + Capacity
    BY <1>0, <1>6, CountTypes DEF RingInv, WindowInv
  <2>3. Owned(Holders(Consumers) \cup {c}, reserved, Popped, Popping + 1)
    BY <1>6, <2>2, CountTypes, OwnedGrows DEF RingInv, OwnInv
  <2> QED
    BY <1>1, <1>3, <2>1, <2>3 DEF RingInv, OwnInv, Owned, At
<1>10. OrderInv'
  <2>1. \A m \in Popping + 1 .. Pushed - 1 : m \in Popping .. Pushed - 1
    BY CountTypes
  <2>2. \A m \in Popping + 1 .. Pushed - 1 : At(m) \in write_order
    BY <2>1 DEF RingInv, OrderInv
  <2>3. \A t \in Threads : HasReserved(t)' => reserved[t] \in order[t]
    BY <1>2, <1>6 DEF RingInv, OrderInv
  <2> QED
    BY <1>1, <1>3, <2>2, <2>3 DEF RingInv, OrderInv, At
<1>11. LoadedInv'
  <2>1. ASSUME NEW p \in Producers PROVE PushLoaded(p)'
    <3>1. /\ pc'[p] = pc[p] /\ reserved'[p] = reserved[p] /\ done'[p] = done[p]
          /\ order'[p] = order[p] /\ done[p] \in Nat /\ PushLoaded(p)
      BY <1>0, <1>1, <1>2 DEF Threads, RingInv, LoadedInv
    <3>2. Pushing <= Pushing' /\ Popped <= Popped' /\ Pushing' \in Nat /\ Popped' \in Nat
      BY <1>3, CountTypes
    <3> QED
      BY <1>0, <3>1, <3>2, PushLoadedKept
  <2>2. ASSUME NEW d \in Consumers PROVE PopLoaded(d)'
    <3>1. CASE d = c
      BY <1>0, <1>1, <3>1 DEF PopLoaded
    <3>2. CASE d # c
      <4>1. /\ pc'[d] = pc[d] /\ reserved'[d] = reserved[d] /\ done'[d] = done[d]
            /\ order'[d] = order[d] /\ done[d] \in Nat /\ PopLoaded(d)
        BY <1>0, <1>1, <1>2, <3>2 DEF Threads, RingInv, LoadedInv
      <4>2. Popping <= Popping' /\ Pushed <= Pushed' /\ Popping' \in Nat /\ Pushed' \in Nat
        BY <1>3, CountTypes
      <4> QED
        BY <4>1, <4>2, PopLoadedKept
    <3> QED
      BY <3>1, <3>2
  <2> QED
    BY <2>1, <2>2 DEF LoadedInv
<1> QED
  BY <1>3, <1>6, <1>7, <1>8, <1>9, <1>10, <1>11 DEF RingInv

-----------------------------------------------------------------------------
(* Using a slot: the access is to a slot that no index and no other thread    *)
(* counts on.                                                                *)
LEMMA AccessStep ==
  ASSUME TypeInv, TypeOK', InCall', RingInv, NEW t \in Threads, HasReserved(t), HasReserved(t)',
         Access(t), UNCHANGED <<indices, done, reserved>>,
         \A u \in Threads : u # t => pc'[u] = pc[u]
  PROVE  /\ Popped' = Popped /\ Popping' = Popping /\ Pushed' = Pushed /\ Pushing' = Pushing
         /\ TypeInv' /\ RingInv'
<1>0. /\ Capacity \in Nat \ {0} /\ \A u \in Threads : done[u] \in Nat
      /\ reserved \in [Threads -> Slots] /\ order \in [Threads -> SUBSET Slots]
  BY AtomicAssumption DEF TypeInv, TypeOK
<1>1. \A u \in Threads : HasReserved(u)' <=> HasReserved(u)
  BY DEF HasReserved
<1>2. Popped' = Popped /\ Popping' = Popping /\ Pushed' = Pushed /\ Pushing' = Pushing
  BY <1>1, QuietCounts
<1>3. TypeInv'
  BY <1>2 DEF TypeInv, IndexInv, indices, At
<1>4. WindowInv'
  BY <1>2 DEF WindowInv, RingInv
<1>5. OwnInv'
  <2>1. Holders(Producers)' = Holders(Producers) /\ Holders(Consumers)' = Holders(Consumers)
    BY <1>1 DEF Holders, Threads
  <2> QED
    BY <1>2, <2>1 DEF RingInv, OwnInv, Owned, At
<1>6. PICK n \in Popped .. Pushing - 1 :
        reserved[t] = At(n) /\ (n \in Pushed .. Pushing - 1 \/ n \in Popped .. Popping - 1)
  <2>1. CASE t \in Producers
    <3>1. PICK n \in Pushed .. Pushing - 1 : reserved[t] = At(n)
      BY <2>1, HolderCall DEF RingInv
    <3>2. n \in Popped .. Pushing - 1
      BY CountTypes DEF RingInv, WindowInv
    <3> QED
      BY <3>1, <3>2
  <2>2. CASE t \in Consumers
    <3>1. PICK n \in Popped .. Popping - 1 : reserved[t] = At(n)
      BY <2>2, HolderCall DEF RingInv
    <3>2. n \in Popped .. Pushing - 1
      BY CountTypes DEF RingInv, WindowInv
    <3> QED
      BY <3>1, <3>2
  <2> QED
    BY <2>1, <2>2 DEF Threads
<1>7. /\ \A m \in Popping .. Pushed - 1 : At(m) # reserved[t]
      /\ \A m \in Pushing .. Popped + Capacity - 1 : At(m) # reserved[t]
  <2>1. n \in Int /\ Popped <= Popping /\ Popping <= Pushed /\ Pushed <= Pushing
        /\ Pushing <= Popped + Capacity - 1
    BY CountTypes DEF RingInv, WindowInv
  <2>2. ASSUME NEW m \in Popping .. Pushed - 1 PROVE At(m) # At(n)
    <3>1. m \in Int /\ ((n < m /\ m < n + Capacity) \/ (m < n /\ n < m + Capacity))
      BY <1>0, <1>6, <2>1, CountTypes
    <3> QED
      BY <2>1, <3>1, AtApart
  <2>3. ASSUME NEW m \in Pushing .. Popped + Capacity - 1 PROVE At(m) # At(n)
    <3>1. m \in Int /\ n < m /\ m < n + Capacity
      BY <1>0, <1>6, <2>1, CountTypes
    <3> QED
      BY <2>1, <3>1, AtApart
  <2> QED
    BY <1>6, <2>2, <2>3
<1>8. /\ write_order' = write_order \ {reserved[t]} /\ read_order' = read_order \ {reserved[t]}
      /\ order'[t] = {reserved[t]}
      /\ \A u \in Threads : u # t => order'[u] = order[u] \ {reserved[t]}
  BY DEF Access
<1>9. OrderInv'
  <2>1. ASSUME NEW u \in Threads, HasReserved(u) PROVE reserved[u] \in order'[u]
    <3>1. CASE u = t
      BY <1>8, <3>1
    <3>2. CASE u # t
      <4>1. reserved[u] # reserved[t] /\ reserved[u] \in order[u]
        BY <2>1, <3>2, HoldersApart DEF RingInv, OrderInv
      <4> QED
        BY <1>8, <3>2, <4>1
    <3> QED
      BY <3>1, <3>2
  <2>2. /\ \A m \in Popping .. Pushed - 1 : At(m) \in write_order'
        /\ \A m \in Pushing .. Popped + Capacity - 1 : At(m) \in read_order'
    BY <1>7, <1>8 DEF RingInv, OrderInv
  <2> QED
    BY <1>1, <1>2, <2>1, <2>2 DEF OrderInv, At
<1>10. LoadedInv'
  <2>1. ASSUME NEW p \in Producers PROVE PushLoaded(p)'
    <3>1. CASE p = t
      BY <3>1 DEF PushLoaded, HasReserved
    <3>2. CASE p # t
      <4>1. /\ pc'[p] = pc[p] /\ reserved'[p] = reserved[p] /\ done'[p] = done[p]
            /\ order'[p] = order[p] \ {reserved[t]} /\ done[p] \in Nat /\ PushLoaded(p)
        BY <1>0, <1>8, <3>2 DEF Threads, RingInv, LoadedInv
      <4>2. Pushing <= Pushing' /\ Popped <= Popped' /\ Pushing' \in Nat /\ Popped' \in Nat
        BY <1>2, CountTypes
      <4>3. At(Pushing) # reserved[t]
        <5>1. Pushing \in Pushing .. Popped + Capacity - 1
          BY <1>0, CountTypes DEF RingInv, WindowInv
        <5> QED
          BY <1>7, <5>1
      <4>4. reserved[p] = At(Pushing) /\ reserved[p] \in order[p] => reserved[p] \in order'[p]
        BY <4>1, <4>3
      <4> QED
        BY <1>0, <4>1, <4>2, <4>4, PushLoadedKept
    <3> QED
      BY <3>1, <3>2
  <2>2. ASSUME NEW c \in Consumers PROVE PopLoaded(c)'
    <3>1. CASE c = t
      BY <3>1 DEF PopLoaded, HasReserved
    <3>2. CASE c # t
      <4>1. /\ pc'[c] = pc[c] /\ reserved'[c] = reserved[c] /\ done'[c] = done[c]
            /\ order'[c] = order[c] \ {reserved[t]} /\ done[c] \in Nat /\ PopLoaded(c)
        BY <1>0, <1>8, <3>2 DEF Threads, RingInv, LoadedInv
      <4>2. Popping <= Popping' /\ Pushed <= Pushed' /\ Popping' \in Nat /\ Pushed' \in Nat
        BY <1>2, CountTypes
      <4>3. Popping < Pushed => At(Popping) # reserved[t]
        <5>1. Popping < Pushed => Popping \in Popping .. Pushed - 1
          BY CountTypes
        <5> QED
          BY <1>7, <5>1
      <4>4. reserved[c] = At(Popping) /\ Popping < Pushed /\ reserved[c] \in order[c]
               => reserved[c] \in order'[c]
        BY <4>1, <4>3
      <4> QED
        BY <4>1, <4>2, <4>4, PopLoadedKept
    <3> QED
      BY <3>1, <3>2
  <2> QED
    BY <2>1, <2>2 DEF LoadedInv
<1> QED
  BY <1>2, <1>3, <1>4, <1>5, <1>9, <1>10 DEF RingInv

(* A push writes its slot. *)
LEMMA PushWriteStep ==
  ASSUME TypeInv, TypeOK', InCall', RingInv, NEW p \in Producers, PushWrite(p)
  PROVE  /\ Popped' = Popped /\ Popping' = Popping /\ Pushed' = Pushed /\ Pushing' = Pushing
         /\ TypeInv' /\ RingInv'
<1>1. /\ p \in Threads /\ HasReserved(p) /\ HasReserved(p)'
      /\ Access(p) /\ UNCHANGED <<indices, done, reserved>>
      /\ \A u \in Threads : u # p => pc'[u] = pc[u]
  BY DEF PushWrite, Goto, HasReserved, Threads, TypeInv, TypeOK
<1> QED
  BY <1>1, AccessStep

(* A pop reads its slot. *)
LEMMA PopReadStep ==
  ASSUME TypeInv, TypeOK', InCall', RingInv, NEW c \in Consumers, PopRead(c)
  PROVE  /\ Popped' = Popped /\ Popping' = Popping /\ Pushed' = Pushed /\ Pushing' = Pushing
         /\ TypeInv' /\ RingInv'
<1>1. /\ c \in Threads /\ HasReserved(c) /\ HasReserved(c)'
      /\ Access(c) /\ UNCHANGED <<indices, done, reserved>>
      /\ \A u \in Threads : u # c => pc'[u] = pc[u]
  BY DEF PopRead, Goto, HasReserved, Threads, TypeInv, TypeOK
<1> QED
  BY <1>1, AccessStep

-----------------------------------------------------------------------------
(* Publishing: whose turn it is holds the slot of the oldest call, and what   *)
(* the index now orders is that call's access, too.                          *)
LEMMA PushPublishStep ==
  ASSUME TypeInv, TypeOK', InCall', RingInv, NEW p \in Producers, PushPublish(p)
  PROVE  /\ Popped' = Popped /\ Popping' = Popping /\ Pushing' = Pushing
         /\ Pushed' = Pushed + 1 /\ reserved[p] = At(Pushed) /\ Pushed < Pushing
         /\ TypeInv' /\ RingInv'
<1>0. /\ p \in Threads /\ p \notin Consumers
      /\ pc \in [Threads -> {"idle"} \cup PushPCs \cup PopPCs]
      /\ done \in [Threads -> 0 .. Iterations] /\ \A t \in Threads : done[t] \in Nat
      /\ Capacity \in Nat \ {0}
  BY AtomicAssumption DEF Threads, TypeInv, TypeOK
<1>1. /\ pc[p] = "push_publish" /\ pc' = [pc EXCEPT ![p] = "idle"]
      /\ write_idx = reserved[p] /\ write_idx' = NextSlot(reserved[p])
      /\ read_idx' = read_idx /\ reserved_read_idx' = reserved_read_idx
      /\ reserved_write_idx' = reserved_write_idx /\ reserved' = reserved
      /\ write_order' = write_order \cup order[p] /\ read_order' = read_order
      /\ order' = [order EXCEPT ![p] = {}] /\ done' = [done EXCEPT ![p] = @ + 1]
  BY DEF PushPublish, Goto, Forget, Finish
<1>2. /\ HasReserved(p) /\ ~HasReserved(p)' /\ done'[p] = done[p] + 1
      /\ \A u \in Threads : u # p =>
           /\ pc'[u] = pc[u] /\ done'[u] = done[u] /\ order'[u] = order[u]
           /\ (HasReserved(u)' <=> HasReserved(u))
  BY <1>0, <1>1 DEF HasReserved, TypeInv, TypeOK
<1>3. /\ Popped' = Popped /\ Popping' = Popping /\ Pushed' = Pushed + 1 /\ Pushing' = Pushing
  <2>1. Producers # Consumers
    BY <1>0
  <2>2. /\ Calls(Producers)' = Calls(Producers) + 1
        /\ Calls(Consumers)' = Calls(Consumers)
        /\ Popping' = Popping /\ Pushing' = Pushing
    BY <1>2, <2>1, PublishCounts DEF TypeInv
  <2> QED
    BY <2>2 DEF Popped, Pushed
<1>4. reserved[p] = At(Pushed) /\ Pushed < Pushing
  <2>1. PICK n \in Pushed .. Pushing - 1 : reserved[p] = At(n)
    BY <1>2, HolderCall DEF RingInv
  <2>2. n \in Int /\ Pushed <= n /\ n < Pushing /\ n < Pushed + Capacity
    BY <1>0, CountTypes DEF RingInv, WindowInv
  <2> QED
    BY <1>1, <2>2, CountTypes DEF TypeInv, IndexInv
<1>5. TypeInv'
  <2>1. write_idx' = At(Pushed + 1)
    BY <1>1, <1>4, CountTypes, AtNext
  <2> QED
    BY <1>1, <1>3, <2>1 DEF TypeInv, IndexInv, At
<1>6. WindowInv'
  BY <1>0, <1>3, <1>4, CountTypes DEF WindowInv, RingInv
<1>7. OwnInv'
  <2>1. Holders(Producers)' = Holders(Producers) \ {p} /\ Holders(Consumers)' = Holders(Consumers)
    BY <1>0, <1>2 DEF Holders, Threads
  <2>2. Pushing <= Pushed + Capacity /\ p \in Holders(Producers)
    BY <1>0, <1>2, CountTypes DEF RingInv, WindowInv, Holders
  <2>3. Owned(Holders(Producers) \ {p}, reserved, Pushed + 1, Pushing)
    BY <1>4, <2>2, CountTypes, OwnedShrinks DEF RingInv, OwnInv
  <2> QED
    BY <1>1, <1>3, <2>1, <2>3 DEF RingInv, OwnInv, Owned, At
<1>8. OrderInv'
  <2>1. At(Pushed) \in order[p]
    BY <1>0, <1>2, <1>4 DEF RingInv, OrderInv
  <2>2. \A m \in Popping .. Pushed + 1 - 1 : m \in Popping .. Pushed - 1 \/ m = Pushed
    BY CountTypes
  <2>3. \A m \in Popping .. Pushed + 1 - 1 : At(m) \in write_order'
    BY <1>1, <2>1, <2>2 DEF RingInv, OrderInv
  <2>4. \A t \in Threads : HasReserved(t)' => reserved[t] \in order'[t]
    BY <1>2 DEF RingInv, OrderInv
  <2>5. \A m \in Pushing .. Popped + Capacity - 1 : At(m) \in read_order'
    BY <1>1 DEF RingInv, OrderInv
  <2>6. \A m \in Popping' .. Pushed' - 1 : At(m) \in write_order'
    <3> DEFINE a == Popping'
    <3> DEFINE b == Pushed'
    <3>1. a = Popping /\ b = Pushed + 1
      BY <1>3
    <3> HIDE DEF a, b
    <3>2. \A m \in a .. b - 1 : At(m) \in write_order'
      BY <2>3, <3>1, CountTypes
    <3> QED
      BY <3>2 DEF a, b
  <2>7. \A m \in Pushing' .. Popped' + Capacity - 1 : At(m) \in read_order'
    BY <1>3, <2>5
  <2> QED
    BY <1>1, <2>4, <2>6, <2>7 DEF OrderInv, At
<1>9. LoadedInv'
  <2>1. ASSUME NEW q \in Producers PROVE PushLoaded(q)'
    <3>1. CASE q = p
      BY <1>0, <1>1, <3>1 DEF PushLoaded
    <3>2. CASE q # p
      <4>1. /\ pc'[q] = pc[q] /\ reserved'[q] = reserved[q] /\ done'[q] = done[q]
            /\ order'[q] = order[q] /\ done[q] \in Nat /\ PushLoaded(q)
        BY <1>0, <1>1, <1>2, <3>2 DEF Threads, RingInv, LoadedInv
      <4>2. Pushing <= Pushing' /\ Popped <= Popped' /\ Pushing' \in Nat /\ Popped' \in Nat
        BY <1>3, CountTypes
      <4> QED
        BY <1>0, <4>1, <4>2, PushLoadedKept
    <3> QED
      BY <3>1, <3>2
  <2>2. ASSUME NEW c \in Consumers PROVE PopLoaded(c)'
    <3>1. /\ pc'[c] = pc[c] /\ reserved'[c] = reserved[c] /\ done'[c] = done[c]
          /\ order'[c] = order[c] /\ done[c] \in Nat /\ PopLoaded(c)
      BY <1>0, <1>1, <1>2 DEF Threads, RingInv, LoadedInv
    <3>2. Popping <= Popping' /\ Pushed <= Pushed' /\ Popping' \in Nat /\ Pushed' \in Nat
      BY <1>3, CountTypes
    <3> QED
      BY <3>1, <3>2, PopLoadedKept
  <2> QED
    BY <2>1, <2>2 DEF LoadedInv
<1> QED
  BY <1>3, <1>4, <1>5, <1>6, <1>7, <1>8, <1>9 DEF RingInv

(* The same for a pop: the slot it has read is free one lap later. *)
LEMMA PopPublishStep ==
  ASSUME TypeInv, TypeOK', InCall', RingInv, NEW c \in Consumers, PopPublish(c)
  PROVE  /\ Popping' = Popping /\ Pushed' = Pushed /\ Pushing' = Pushing
         /\ Popped' = Popped + 1 /\ TypeInv' /\ RingInv'
<1>0. /\ c \in Threads /\ c \notin Producers
      /\ pc \in [Threads -> {"idle"} \cup PushPCs \cup PopPCs]
      /\ done \in [Threads -> 0 .. Iterations] /\ \A t \in Threads : done[t] \in Nat
      /\ Capacity \in Nat \ {0}
  BY AtomicAssumption DEF Threads, TypeInv, TypeOK
<1>1. /\ pc[c] = "pop_publish" /\ pc' = [pc EXCEPT ![c] = "idle"]
      /\ read_idx = reserved[c] /\ read_idx' = NextSlot(reserved[c])
      /\ write_idx' = write_idx /\ reserved_read_idx' = reserved_read_idx
      /\ reserved_write_idx' = reserved_write_idx /\ reserved' = reserved
      /\ read_order' = read_order \cup order[c] /\ write_order' = write_order
      /\ order' = [order EXCEPT ![c] = {}] /\ done' = [done EXCEPT ![c] = @ + 1]
  BY DEF PopPublish, Goto, Forget, Finish
<1>2. /\ HasReserved(c) /\ ~HasReserved(c)' /\ done'[c] = done[c] + 1
      /\ \A u \in Threads : u # c =>
           /\ pc'[u] = pc[u] /\ done'[u] = done[u] /\ order'[u] = order[u]
           /\ (HasReserved(u)' <=> HasReserved(u))
  BY <1>0, <1>1 DEF HasReserved, TypeInv, TypeOK
<1>3. /\ Popped' = Popped + 1 /\ Popping' = Popping /\ Pushed' = Pushed /\ Pushing' = Pushing
  <2>1. Producers # Consumers
    BY <1>0
  <2>2. /\ Calls(Consumers)' = Calls(Consumers) + 1
        /\ Calls(Producers)' = Calls(Producers)
        /\ Popping' = Popping /\ Pushing' = Pushing
    BY <1>2, <2>1, PublishCounts DEF TypeInv
  <2> QED
    BY <2>2 DEF Popped, Pushed
<1>4. reserved[c] = At(Popped) /\ Popped < Popping
  <2>1. PICK n \in Popped .. Popping - 1 : reserved[c] = At(n)
    BY <1>2, HolderCall DEF RingInv
  <2>2. n \in Int /\ Popped <= n /\ n < Popping
    BY CountTypes
  <2> QED
    BY <1>1, <2>2, CountTypes DEF TypeInv, IndexInv
<1>5. TypeInv'
  <2>1. read_idx' = At(Popped + 1)
    BY <1>1, <1>4, CountTypes, AtNext
  <2> QED
    BY <1>1, <1>3, <2>1 DEF TypeInv, IndexInv, At
<1>6. WindowInv'
  BY <1>0, <1>3, <1>4, CountTypes DEF WindowInv, RingInv
<1>7. OwnInv'
  <2>1. Holders(Consumers)' = Holders(Consumers) \ {c} /\ Holders(Producers)' = Holders(Producers)
    BY <1>0, <1>2 DEF Holders, Threads
  <2>2. Popping <= Popped + Capacity /\ c \in Holders(Consumers)
    BY <1>0, <1>2, CountTypes DEF RingInv, WindowInv, Holders
  <2>3. Owned(Holders(Consumers) \ {c}, reserved, Popped + 1, Popping)
    BY <1>4, <2>2, CountTypes, OwnedShrinks DEF RingInv, OwnInv
  <2> QED
    BY <1>1, <1>3, <2>1, <2>3 DEF RingInv, OwnInv, Owned, At
<1>8. OrderInv'
  <2>1. At(Popped) \in order[c] /\ At(Popped + Capacity) = At(Popped)
    BY <1>0, <1>2, <1>4, CountTypes, AtLap DEF RingInv, OrderInv
  <2>2. \A m \in Pushing .. Popped + 1 + Capacity - 1 :
           m \in Pushing .. Popped + Capacity - 1 \/ m = Popped + Capacity
    BY <1>0, CountTypes
  <2>3. \A m \in Pushing .. Popped + 1 + Capacity - 1 : At(m) \in read_order'
    BY <1>1, <2>1, <2>2 DEF RingInv, OrderInv
  <2>4. \A t \in Threads : HasReserved(t)' => reserved[t] \in order'[t]
    BY <1>2 DEF RingInv, OrderInv
  <2> QED
    BY <1>1, <1>3, <2>3, <2>4 DEF RingInv, OrderInv, At
<1>9. LoadedInv'
  <2>1. ASSUME NEW p \in Producers PROVE PushLoaded(p)'
    <3>1. /\ pc'[p] = pc[p] /\ reserved'[p] = reserved[p] /\ done'[p] = done[p]
          /\ order'[p] = order[p] /\ done[p] \in Nat /\ PushLoaded(p)
      BY <1>0, <1>1, <1>2 DEF Threads, RingInv, LoadedInv
    <3>2. Pushing <= Pushing' /\ Popped <= Popped' /\ Pushing' \in Nat /\ Popped' \in Nat
      BY <1>3, CountTypes
    <3> QED
      BY <1>0, <3>1, <3>2, PushLoadedKept
  <2>2. ASSUME NEW d \in Consumers PROVE PopLoaded(d)'
    <3>1. CASE d = c
      BY <1>0, <1>1, <3>1 DEF PopLoaded
    <3>2. CASE d # c
      <4>1. /\ pc'[d] = pc[d] /\ reserved'[d] = reserved[d] /\ done'[d] = done[d]
            /\ order'[d] = order[d] /\ done[d] \in Nat /\ PopLoaded(d)
        BY <1>0, <1>1, <1>2, <3>2 DEF Threads, RingInv, LoadedInv
      <4>2. Popping <= Popping' /\ Pushed <= Pushed' /\ Popping' \in Nat /\ Pushed' \in Nat
        BY <1>3, CountTypes
      <4> QED
        BY <4>1, <4>2, PopLoadedKept
    <3> QED
      BY <3>1, <3>2
  <2> QED
    BY <2>1, <2>2 DEF LoadedInv
<1> QED
  BY <1>3, <1>5, <1>6, <1>7, <1>8, <1>9 DEF RingInv

-----------------------------------------------------------------------------
(* When all threads have been joined the ring is empty, and after the reset   *)
(* it is as it was at first.                                                 *)
LEMMA JoinedCounts ==
  ASSUME AllDone
  PROVE  Popped = Pushed /\ Popping = Pushed /\ Pushing = Pushed
<1>1. \A t \in Threads : done[t] = Iterations /\ Begun[t] = Iterations
  BY DEF AllDone, Begun, HasReserved
<1>2. /\ \A t \in Producers : done[t] = Iterations /\ Begun[t] = Iterations
      /\ \A t \in Consumers : done[t] = Iterations /\ Begun[t] = Iterations
  BY <1>1 DEF Threads
<1>3. /\ CallsUpTo(done, Producers) = Cardinality(Producers) * Iterations
      /\ CallsUpTo(Begun, Producers) = Cardinality(Producers) * Iterations
  BY <1>2, CountAll, AtomicAssumption
<1>4. /\ CallsUpTo(done, Consumers) = Cardinality(Consumers) * Iterations
      /\ CallsUpTo(Begun, Consumers) = Cardinality(Consumers) * Iterations
  BY <1>2, CountAll, AtomicAssumption
<1>5. Cardinality(Producers) = Cardinality(Consumers)
  BY AtomicAssumption
<1> QED
  BY <1>3, <1>4, <1>5 DEF Popped, Popping, Pushed, Pushing, Calls, Started

(* The next sample starts like the first. *)
LEMMA ResetStep ==
  ASSUME TypeInv, TypeOK', InCall', Reset
  PROVE  /\ Popping' = 0 /\ Pushed' = 0
         /\ TypeInv' /\ RingInv'
<1>1. /\ \A t \in Threads : pc'[t] = "idle" /\ done'[t] = 0
      /\ read_idx' = 0 /\ reserved_read_idx' = 0 /\ write_idx' = 0 /\ reserved_write_idx' = 0
      /\ write_order' = Slots /\ read_order' = Slots
  BY DEF Reset, AllDone
<1>2. \A t \in Threads : ~HasReserved(t)' /\ Begun'[t] = 0
  BY <1>1 DEF HasReserved, Begun
<1>3. Popped' = 0 /\ Popping' = 0 /\ Pushed' = 0 /\ Pushing' = 0
  <2>1. \A f, T : (\A t \in T : f[t] = 0) => CallsUpTo(f, T) = 0
    BY CountNone
  <2>2. \A t \in Producers \cup Consumers : done'[t] = 0 /\ Begun'[t] = 0
    BY <1>1, <1>2 DEF Threads
  <2>3. /\ CallsUpTo(done', Producers) = 0 /\ CallsUpTo(done', Consumers) = 0
        /\ CallsUpTo(Begun', Producers) = 0 /\ CallsUpTo(Begun', Consumers) = 0
    BY <2>1, <2>2
  <2> QED
    BY <2>3 DEF Popped, Popping, Pushed, Pushing, Calls, Started
<1>4. At(0) = 0 /\ Capacity \in Nat \ {0}
  BY AtomicAssumption, ModSmall DEF At
<1>5. TypeInv'
  BY <1>1, <1>3, <1>4 DEF TypeInv, IndexInv, At
<1>6. WindowInv'
  BY <1>3, <1>4 DEF WindowInv
<1>7. OwnInv'
  <2>1. Holders(Producers)' = {} /\ Holders(Consumers)' = {}
    BY <1>2 DEF Holders, Threads
  <2>2. Owned({}, reserved', 0, 0)
    BY DEF Owned
  <2> QED
    BY <1>3, <2>1, <2>2 DEF OwnInv, Owned, At
<1>8. OrderInv'
  <2>1. \A n \in 0 .. 0 + Capacity - 1 : At(n) \in read_order'
    BY <1>1, AtType
  <2>2. \A n \in 0 .. 0 - 1 : At(n) \in write_order'
    OBVIOUS
  <2> QED
    BY <1>2, <1>3, <2>1, <2>2 DEF OrderInv, At
<1>9. LoadedInv'
  BY <1>1 DEF LoadedInv, PushLoaded, PopLoaded, Threads
<1> QED
  BY <1>3, <1>5, <1>6, <1>7, <1>8, <1>9 DEF RingInv

(* A step that changes nothing keeps the invariant. *)
LEMMA StutterStep ==
  ASSUME TypeInv, RingInv, UNCHANGED vars
  PROVE  TypeInv' /\ RingInv'
<1>1. /\ data' = data /\ read_idx' = read_idx /\ reserved_read_idx' = reserved_read_idx
      /\ write_idx' = write_idx /\ reserved_write_idx' = reserved_write_idx /\ pc' = pc
      /\ reserved' = reserved /\ done' = done /\ val' = val /\ sample' = sample
      /\ write_order' = write_order /\ read_order' = read_order /\ order' = order
  BY DEF vars, indices, orders
<1>2. \A t \in Threads : HasReserved(t)' <=> HasReserved(t)
  BY <1>1 DEF HasReserved
<1>3. Popped' = Popped /\ Popping' = Popping /\ Pushed' = Pushed /\ Pushing' = Pushing
  BY <1>1, <1>2, QuietCounts
<1>4. TypeInv'
  BY <1>1, <1>3 DEF TypeInv, TypeOK, InCall, IndexInv, At
<1>5. WindowInv' /\ OrderInv'
  BY <1>1, <1>2, <1>3 DEF RingInv, WindowInv, OrderInv, At
<1>6. OwnInv'
  <2>1. Holders(Producers)' = Holders(Producers) /\ Holders(Consumers)' = Holders(Consumers)
    BY <1>2 DEF Holders, Threads
  <2> QED
    BY <1>1, <1>3, <2>1 DEF RingInv, OwnInv, Owned, At
<1>7. LoadedInv'
  BY <1>1, <1>3 DEF RingInv, LoadedInv, PushLoaded, PopLoaded, At
<1> QED
  BY <1>4, <1>5, <1>6, <1>7 DEF RingInv

-----------------------------------------------------------------------------
(* The steps of a push keep the invariant. *)
LEMMA PushStep ==
  ASSUME NoLap, TypeInv, RingInv, NEW p \in Producers, Push(p)
  PROVE  TypeInv' /\ RingInv'
<1>1. TypeOK' /\ InCall'
  BY PushType
<1>2. CASE PushCall(p) \/ PushReload(p) \/ PushFull(p) \/ PushRoom(p) \/ PushReserveFails(p)
  BY <1>1, <1>2, PushOutside
<1>3. CASE PushReserve(p)
  BY <1>1, <1>3, PushReserveStep
<1>4. CASE PushWrite(p)
  BY <1>1, <1>4, PushWriteStep
<1>5. CASE PushPublish(p)
  BY <1>1, <1>5, PushPublishStep
<1> QED
  BY <1>2, <1>3, <1>4, <1>5 DEF Push

(* The same for the steps of a pop. *)
LEMMA PopStep ==
  ASSUME NoLap, TypeInv, RingInv, NEW c \in Consumers, Pop(c)
  PROVE  TypeInv' /\ RingInv'
<1>1. TypeOK' /\ InCall'
  BY PopType
<1>2. CASE PopCall(c) \/ PopReload(c) \/ PopEmpty(c) \/ PopWritten(c) \/ PopReserveFails(c)
  BY <1>1, <1>2, PopOutside
<1>3. CASE PopReserve(c)
  BY <1>1, <1>3, PopReserveStep
<1>4. CASE PopRead(c)
  BY <1>1, <1>4, PopReadStep
<1>5. CASE PopPublish(c)
  BY <1>1, <1>5, PopPublishStep
<1> QED
  BY <1>2, <1>3, <1>4, <1>5 DEF Pop

(* The invariant is inductive. *)
LEMMA RingStep ==
  ASSUME NoLap, TypeInv, RingInv, [Next]_vars
  PROVE  TypeInv' /\ RingInv'
<1>1. CASE Reset
  BY <1>1, ResetType, ResetStep
<1> QED
  BY <1>1, PushStep, PopStep, StutterStep DEF Next, Finished

(* The invariant holds throughout. *)
LEMMA RingCorrect == ASSUME NoLap PROVE Spec => [](TypeInv /\ RingInv)
<1>1. Init => TypeInv /\ RingInv
  BY InitInv DEF AtomicInv
<1>2. TypeInv /\ RingInv /\ [Next]_vars => TypeInv' /\ RingInv'
  BY RingStep
<1> QED
  BY <1>1, <1>2, PTL DEF Spec

(* The comment of atomics.hpp:62 holds, and its like for push: what a thread   *)
(* checked before its swap still holds at it.                                *)
THEOREM ReservationsStaySound == ASSUME NoLap PROVE Spec => []ReservationsSound
<1>1. RingInv => ReservationsSound
  BY DEF RingInv, WindowInv, ReservationsSound, ReservesWritten, ReservesFree,
     Popped, Popping, Pushed, Pushing
<1> QED
  BY <1>1, RingCorrect, PTL

(* The relaxed and acquire-release orders of atomics.hpp are enough: no two    *)
(* plain accesses to a slot race.                                            *)
THEOREM AccessesNeverRace == ASSUME NoLap PROVE Spec => []RaceFree
<1>1. RingInv => RaceFree
  BY DEF RingInv, OrderInv, RaceFree, HasReserved
<1> QED
  BY <1>1, RingCorrect, PTL

(* Threads that wait for their turn to publish never wait in a circle. *)
THEOREM TurnsNeverBlock == ASSUME NoLap PROVE Spec => []SomebodysTurn
<1>1. TypeInv /\ RingInv => SomebodysTurn
  <2> SUFFICES ASSUME TypeInv, RingInv PROVE SomebodysTurn
    OBVIOUS
  <2>1. ASSUME NEW p \in Producers, pc[p] = "push_publish"
        PROVE  \E q \in Producers : HasReserved(q) /\ reserved[q] = write_idx
    <3>1. PICK n \in Pushed .. Pushing - 1 : reserved[p] = At(n)
      BY <2>1, HolderCall DEF RingInv, HasReserved
    <3>2. Pushed \in Pushed .. Pushing - 1
      BY CountTypes
    <3> QED
      BY <3>2 DEF RingInv, OwnInv, Owned, Holders, TypeInv, IndexInv
  <2>2. ASSUME NEW c \in Consumers, pc[c] = "pop_publish"
        PROVE  \E d \in Consumers : HasReserved(d) /\ reserved[d] = read_idx
    <3>1. PICK n \in Popped .. Popping - 1 : reserved[c] = At(n)
      BY <2>2, HolderCall DEF RingInv, HasReserved
    <3>2. Popped \in Popped .. Popping - 1
      BY CountTypes
    <3> QED
      BY <3>2 DEF RingInv, OwnInv, Owned, Holders, TypeInv, IndexInv
  <2> QED
    BY <2>1, <2>2 DEF SomebodysTurn
<1> QED
  BY <1>1, RingCorrect, PTL

-----------------------------------------------------------------------------
(* The values of the calls from .. to - 1, and the queue as the counts see it. *)
ItemsOf(d, from, to) == [k \in 1 .. to - from |-> d[At(from + k - 1)]]

Items == [k \in 1 .. Distance(reserved_read_idx, write_idx) |->
            data[(reserved_read_idx + k - 1) % Capacity]]
Hand == [c \in Consumers |-> IF pc[c] = "pop_read" THEN data[reserved[c]] ELSE val[c]]

(* What the indices show of the queue is what the counts say. *)
LEMMA ItemsAre ==
  ASSUME NEW d, NEW r \in Nat, NEW w \in Nat, r <= w, w < r + Capacity
  PROVE  [k \in 1 .. Distance(At(r), At(w)) |-> d[(At(r) + k - 1) % Capacity]] = ItemsOf(d, r, w)
<1>0. Capacity \in Nat \ {0} /\ r \in Int /\ w \in Int
  BY AtomicAssumption
<1>1. Distance(At(r), At(w)) = w - r
  <2>1. ((w % Capacity) + Capacity - (r % Capacity)) % Capacity = w - r
    BY <1>0, ModDistance
  <2> QED
    BY <2>1 DEF Distance, At
<1>2. ASSUME NEW k \in 1 .. w - r PROVE (At(r) + k - 1) % Capacity = At(r + k - 1)
  <2>0. k - 1 \in Int
    OBVIOUS
  <2>1. ((r % Capacity) + (k - 1)) % Capacity = (r + (k - 1)) % Capacity
    BY <1>0, <2>0, ModPlus
  <2>2. (r % Capacity) \in Int
    BY <1>0, ModRange
  <2>3. (r % Capacity) + (k - 1) = (r % Capacity) + k - 1 /\ r + (k - 1) = r + k - 1
    BY <2>2
  <2> QED
    BY <2>1, <2>3 DEF At
<1> QED
  BY <1>1, <1>2 DEF ItemsOf

(* So in every state of the ring ... *)
LEMMA ItemsNow ==
  ASSUME TypeInv, WindowInv
  PROVE  Items = ItemsOf(data, Popping, Pushed)
<1>1. Popping <= Pushed /\ Pushed < Popping + Capacity
  BY CountTypes, AtomicAssumption DEF WindowInv
<1> QED
  BY <1>1, CountTypes, ItemsAre DEF Items, TypeInv, IndexInv

(* ... and after every step. *)
LEMMA ItemsNext ==
  ASSUME TypeInv', NEW r \in Nat, NEW w \in Nat, Popping' = r, Pushed' = w,
         r <= w, w < r + Capacity
  PROVE  Items' = ItemsOf(data', r, w)
<1>1. reserved_read_idx' = At(r) /\ write_idx' = At(w)
  BY DEF TypeInv, IndexInv, At
<1> QED
  BY <1>1, ItemsAre DEF Items, Distance, At

(* The queue is a sequence, as long as the counts are apart. *)
LEMMA ItemsType ==
  ASSUME NEW d \in [Slots -> Value \cup {None}], NEW r \in Nat, NEW w \in Nat, r <= w
  PROVE  ItemsOf(d, r, w) \in Seq(Value \cup {None}) /\ Len(ItemsOf(d, r, w)) = w - r
<1>1. \A k \in 1 .. w - r : d[At(r + k - 1)] \in Value \cup {None}
  BY AtType
<1>2. w - r \in Nat
  OBVIOUS
<1> QED
  BY <1>1, <1>2 DEF ItemsOf

(* A value is put at the end. *)
LEMMA ItemsGrow ==
  ASSUME NEW d \in [Slots -> Value \cup {None}], NEW r \in Nat, NEW w \in Nat, r <= w
  PROVE  ItemsOf(d, r, w + 1) = Append(ItemsOf(d, r, w), d[At(w)])
<1> DEFINE s == ItemsOf(d, r, w)
<1> DEFINE t == ItemsOf(d, r, w + 1)
<1>1. /\ s \in Seq(Value \cup {None}) /\ Len(s) = w - r
      /\ t \in Seq(Value \cup {None}) /\ Len(t) = w - r + 1
  <2>1. PICK q \in Nat : q = w + 1
    OBVIOUS
  <2>2. r <= q /\ q - r = w - r + 1
    BY <2>1
  <2>3. ItemsOf(d, r, q) \in Seq(Value \cup {None}) /\ Len(ItemsOf(d, r, q)) = q - r
    BY <2>2, ItemsType
  <2>4. s \in Seq(Value \cup {None}) /\ Len(s) = w - r
    BY ItemsType
  <2> QED
    BY <2>1, <2>2, <2>3, <2>4
<1>2. d[At(w)] \in Value \cup {None}
  BY AtType
<1>3. \A k \in 1 .. w - r : t[k] = s[k]
  BY DEF ItemsOf
<1>4. t[w - r + 1] = d[At(w)]
  <2>1. w - r + 1 \in 1 .. w + 1 - r /\ r + (w - r + 1) - 1 = w
    OBVIOUS
  <2> QED
    BY <2>1 DEF ItemsOf
<1> HIDE DEF s, t
<1>5. t = Append(s, d[At(w)])
  <2>1. Append(s, d[At(w)]) \in Seq(Value \cup {None}) /\ Len(Append(s, d[At(w)])) = w - r + 1
    BY <1>1, <1>2
  <2>2. \A k \in 1 .. Len(t) : t[k] = Append(s, d[At(w)])[k]
    BY <1>1, <1>2, <1>3, <1>4
  <2> QED
    BY <1>1, <2>1, <2>2
<1> QED
  BY <1>5 DEF s, t

(* The oldest value is taken from the front. *)
LEMMA ItemsShrink ==
  ASSUME NEW d \in [Slots -> Value \cup {None}], NEW r \in Nat, NEW w \in Nat, r < w
  PROVE  /\ ItemsOf(d, r, w) # <<>> /\ Head(ItemsOf(d, r, w)) = d[At(r)]
         /\ Tail(ItemsOf(d, r, w)) = ItemsOf(d, r + 1, w)
<1> DEFINE s == ItemsOf(d, r, w)
<1> DEFINE t == ItemsOf(d, r + 1, w)
<1>1. /\ s \in Seq(Value \cup {None}) /\ Len(s) = w - r
      /\ t \in Seq(Value \cup {None}) /\ Len(t) = w - r - 1
  <2>1. r + 1 \in Nat /\ r + 1 <= w /\ w - (r + 1) = w - r - 1 /\ r <= w
    OBVIOUS
  <2>2. s \in Seq(Value \cup {None}) /\ Len(s) = w - r
    BY <2>1, ItemsType
  <2>3. t \in Seq(Value \cup {None}) /\ Len(t) = w - (r + 1)
    <3>1. PICK q \in Nat : q = r + 1
      BY <2>1
    <3>2. ItemsOf(d, q, w) \in Seq(Value \cup {None}) /\ Len(ItemsOf(d, q, w)) = w - q
      BY <2>1, <3>1, ItemsType
    <3> QED
      BY <3>1, <3>2
  <2> QED
    BY <2>1, <2>2, <2>3
<1>2. \A k \in 1 .. w - r - 1 : t[k] = s[k + 1]
  <2> SUFFICES ASSUME NEW k \in 1 .. w - r - 1 PROVE t[k] = s[k + 1]
    OBVIOUS
  <2>1. k \in 1 .. w - (r + 1) /\ k + 1 \in 1 .. w - r /\ r + 1 + k - 1 = r + (k + 1) - 1
    OBVIOUS
  <2> QED
    BY <2>1 DEF ItemsOf
<1>3. s[1] = d[At(r)]
  <2>1. 1 \in 1 .. w - r /\ r + 1 - 1 = r
    OBVIOUS
  <2> QED
    BY <2>1 DEF ItemsOf
<1> HIDE DEF s, t
<1>4. s # <<>> /\ Head(s) = s[1]
  BY <1>1
<1>5. Tail(s) \in Seq(Value \cup {None}) /\ Len(Tail(s)) = w - r - 1
  BY <1>1, <1>4
<1>6. Tail(s) = t
  <2>1. \A k \in 1 .. Len(t) : Tail(s)[k] = t[k]
    BY <1>1, <1>2, <1>4
  <2> QED
    BY <1>1, <1>5, <2>1
<1> QED
  BY <1>3, <1>4, <1>6 DEF s, t

(* Only the slots of values in the queue matter. *)
LEMMA ItemsSame ==
  ASSUME NEW d, NEW e, NEW r \in Nat, NEW w \in Nat, \A n \in r .. w - 1 : e[At(n)] = d[At(n)]
  PROVE  ItemsOf(e, r, w) = ItemsOf(d, r, w)
<1>1. \A k \in 1 .. w - r : r + k - 1 \in r .. w - 1
  OBVIOUS
<1> QED
  BY <1>1 DEF ItemsOf

(* An empty queue. *)
LEMMA ItemsNone == \A d, r : r \in Nat => ItemsOf(d, r, r) = <<>>
<1> SUFFICES ASSUME NEW d, NEW r \in Nat PROVE ItemsOf(d, r, r) = <<>>
  OBVIOUS
<1>1. 1 .. r - r = {}
  OBVIOUS
<1> QED
  BY <1>1 DEF ItemsOf

-----------------------------------------------------------------------------
(* A push that publishes its slot puts its argument at the end of the queue. *)
LEMMA PublishEnqueues ==
  ASSUME NoLap, TypeInv, RingInv, WrittenInv, NEW p \in Producers, PushPublish(p)
  PROVE  WrittenInv' /\ \E v \in Value : Queue!Enqueue(v)
<1>0. /\ p \in Threads /\ p \notin Consumers /\ data \in [Slots -> Value \cup {None}]
      /\ pc \in [Threads -> {"idle"} \cup PushPCs \cup PopPCs]
      /\ done \in [Threads -> 0 .. Iterations] /\ Capacity \in Nat \ {0}
  BY AtomicAssumption DEF Threads, TypeInv, TypeOK
<1>1. /\ pc[p] = "push_publish" /\ pc' = [pc EXCEPT ![p] = "idle"]
      /\ data' = data /\ reserved' = reserved /\ val' = val
      /\ done' = [done EXCEPT ![p] = @ + 1]
  BY DEF PushPublish, Goto, Finish
<1>2. /\ Popped' = Popped /\ Popping' = Popping /\ Pushing' = Pushing
      /\ Pushed' = Pushed + 1 /\ reserved[p] = At(Pushed) /\ Pushed < Pushing
      /\ TypeInv' /\ RingInv'
  BY PushType, PushPublishStep DEF Push
<1>3. /\ Popping <= Pushed /\ Pushed + 1 < Popping + Capacity
      /\ Popping \in Nat /\ Pushed \in Nat
  BY <1>0, <1>2, CountTypes DEF RingInv, WindowInv
<1>4. Arg(p) \in Value /\ data[At(Pushed)] = Arg(p)
  <2>1. done[p] \in 0 .. Iterations - 1
    BY <1>0, <1>1, AtomicAssumption DEF TypeInv, InCall
  <2> QED
    BY <1>1, <1>2, <2>1 DEF WrittenInv, Arg, Value
<1>5. Items = ItemsOf(data, Popping, Pushed)
  BY ItemsNow DEF RingInv
<1>6. Items' = ItemsOf(data, Popping, Pushed + 1)
  <2>1. Pushed + 1 \in Nat /\ Popping <= Pushed + 1
    BY <1>3
  <2> QED
    BY <1>1, <1>2, <1>3, <2>1, ItemsNext
<1>7. Items' = Append(Items, Arg(p))
  BY <1>0, <1>3, <1>4, <1>5, <1>6, ItemsGrow
<1>8. Len(Items) < Capacity - 1
  <2>1. Len(Items) = Pushed - Popping
    BY <1>0, <1>3, <1>5, ItemsType
  <2> QED
    BY <1>0, <1>3, <2>1
<1>9. Hand' = Hand
  BY <1>0, <1>1 DEF Hand, Threads
<1>10. WrittenInv'
  <2> SUFFICES ASSUME NEW q \in Producers, pc'[q] = "push_publish"
               PROVE  data'[reserved'[q]] = Arg(q)'
    BY DEF WrittenInv
  <2>1. q # p /\ pc[q] = "push_publish" /\ done'[q] = done[q]
    BY <1>0, <1>1 DEF Threads
  <2> QED
    BY <1>1, <2>1 DEF WrittenInv, Arg
<1>11. PICK v \in Value : v = Arg(p)
  BY <1>4
<1>12. Queue!Enqueue(v)
  BY <1>7, <1>8, <1>9, <1>11 DEF Queue!Enqueue, Items, Hand
<1> QED
  BY <1>10, <1>12

(* A pop that wins its swap takes the oldest value, which is written. *)
LEMMA ReserveDequeues ==
  ASSUME NoLap, TypeInv, RingInv, WrittenInv, NEW c \in Consumers, PopReserve(c)
  PROVE  WrittenInv' /\ Queue!Dequeue(c)
<1>0. /\ c \in Threads /\ c \notin Producers /\ data \in [Slots -> Value \cup {None}]
      /\ pc \in [Threads -> {"idle"} \cup PushPCs \cup PopPCs]
      /\ Capacity \in Nat \ {0}
  BY AtomicAssumption DEF Threads, TypeInv, TypeOK
<1>1. /\ pc[c] = "pop_reserve" /\ pc' = [pc EXCEPT ![c] = "pop_read"]
      /\ data' = data /\ reserved' = reserved /\ val' = val /\ done' = done
  BY DEF PopReserve, Goto
<1>2. /\ Popped' = Popped /\ Pushed' = Pushed /\ Pushing' = Pushing
      /\ Popping' = Popping + 1 /\ reserved[c] = At(Popping) /\ TypeInv' /\ RingInv'
  BY PopType, PopReserveStep DEF Pop
<1>3. Popping < Pushed /\ Pushed < Popping + Capacity /\ Popping \in Nat /\ Pushed \in Nat
  <2>1. Popping + 1 <= Pushed
    BY <1>2 DEF RingInv, WindowInv
  <2> QED
    BY <1>0, <2>1, CountTypes DEF RingInv, WindowInv
<1>4. Items = ItemsOf(data, Popping, Pushed)
  BY ItemsNow DEF RingInv
<1>5. Items' = ItemsOf(data, Popping + 1, Pushed)
  <2>1. Popping + 1 \in Nat /\ Popping + 1 <= Pushed /\ Pushed < Popping + 1 + Capacity
    BY <1>0, <1>3
  <2> QED
    BY <1>1, <1>2, <1>3, <2>1, ItemsNext
<1>6. Items # <<>> /\ Head(Items) = data[reserved[c]] /\ Items' = Tail(Items)
  BY <1>0, <1>2, <1>3, <1>4, <1>5, ItemsShrink
<1>7. Hand' = [Hand EXCEPT ![c] = Head(Items)]
  <2>1. /\ pc'[c] = "pop_read" /\ \A d \in Consumers : d # c => pc'[d] = pc[d]
    BY <1>0, <1>1 DEF Threads
  <2> QED
    BY <1>1, <1>6, <2>1 DEF Hand
<1>8. WrittenInv'
  BY <1>0, <1>1 DEF WrittenInv, Arg, Threads
<1> QED
  BY <1>6, <1>7, <1>8 DEF Queue!Dequeue, Items, Hand

(* The slot written holds nothing the queue holds yet, and nothing a pop is   *)
(* about to read.                                                            *)
LEMMA WriteKeepsItems ==
  ASSUME TypeInv, RingInv, WrittenInv, NEW p \in Producers, PushWrite(p)
  PROVE  WrittenInv' /\ Items' = Items /\ Hand' = Hand
<1>0. /\ p \in Threads /\ p \notin Consumers /\ data \in [Slots -> Value \cup {None}]
      /\ pc \in [Threads -> {"idle"} \cup PushPCs \cup PopPCs]
      /\ reserved \in [Threads -> Slots] /\ Capacity \in Nat \ {0}
  BY AtomicAssumption DEF Threads, TypeInv, TypeOK
<1>1. /\ pc[p] = "push_write" /\ pc' = [pc EXCEPT ![p] = "push_publish"]
      /\ data' = [data EXCEPT ![reserved[p]] = Arg(p)]
      /\ reserved' = reserved /\ val' = val /\ done' = done
      /\ reserved_read_idx' = reserved_read_idx /\ write_idx' = write_idx
  BY DEF PushWrite, Goto, indices
<1>2. /\ Popped' = Popped /\ Popping' = Popping /\ Pushed' = Pushed /\ Pushing' = Pushing
      /\ TypeInv' /\ RingInv'
  BY PushType, PushWriteStep DEF Push
<1>3. /\ Popping <= Pushed /\ Pushing < Popping + Capacity /\ Pushed <= Pushing
      /\ Popping \in Nat /\ Pushed \in Nat /\ Pushing \in Nat
  BY <1>0, CountTypes DEF RingInv, WindowInv
<1>4. PICK n \in Pushed .. Pushing - 1 : reserved[p] = At(n)
  BY <1>1, HolderCall DEF RingInv, HasReserved
<1>5. Items' = Items
  <2>1. ASSUME NEW m \in Popping .. Pushed - 1 PROVE data'[At(m)] = data[At(m)]
    <3>1. m \in Int /\ n \in Int /\ m < n /\ n < m + Capacity
      BY <1>0, <1>3
    <3>2. At(m) # reserved[p] /\ At(m) \in Slots
      BY <1>4, <3>1, AtApart, AtType
    <3> QED
      BY <1>0, <1>1, <3>2
  <2>2. Items = ItemsOf(data, Popping, Pushed)
    BY ItemsNow DEF RingInv
  <2>3. Pushed < Popping + Capacity
    BY <1>0, <1>3
  <2>4. Items' = ItemsOf(data', Popping, Pushed)
    BY <1>2, <1>3, <2>3, ItemsNext
  <2>5. ItemsOf(data', Popping, Pushed) = ItemsOf(data, Popping, Pushed)
    <3> DEFINE e == data'
    <3>1. \A m \in Popping .. Pushed - 1 : e[At(m)] = data[At(m)]
      BY <2>1
    <3> HIDE DEF e
    <3>2. ItemsOf(e, Popping, Pushed) = ItemsOf(data, Popping, Pushed)
      BY <1>3, <3>1, ItemsSame, ZenonT(30)
    <3> QED
      BY <3>2 DEF e
  <2> QED
    BY <2>2, <2>4, <2>5
<1>6. ASSUME NEW t \in Threads, t # p, HasReserved(t)
      PROVE  data'[reserved[t]] = data[reserved[t]]
  <2>1. reserved[t] # reserved[p] /\ reserved[t] \in Slots
    BY <1>0, <1>1, <1>6, HoldersApart DEF RingInv, HasReserved
  <2> QED
    BY <1>0, <1>1, <2>1
<1>7. Hand' = Hand
  <2>1. \A c \in Consumers : pc'[c] = pc[c] /\ (pc[c] = "pop_read" =>
           data'[reserved[c]] = data[reserved[c]])
    BY <1>0, <1>1, <1>6 DEF HasReserved, Threads
  <2> QED
    BY <1>1, <2>1 DEF Hand
<1>8. WrittenInv'
  <2> SUFFICES ASSUME NEW q \in Producers, pc'[q] = "push_publish"
               PROVE  data'[reserved[q]] = Arg(q)
    BY <1>1 DEF WrittenInv, Arg
  <2>1. CASE q = p
    BY <1>0, <1>1, <2>1
  <2>2. CASE q # p
    BY <1>0, <1>1, <1>6, <2>2 DEF WrittenInv, HasReserved, Threads
  <2> QED
    BY <2>1, <2>2
<1> QED
  BY <1>5, <1>7, <1>8

(* Steps that change no value, no count of the queue's, and no thread's place *)
(* among those about to read or to publish.                                  *)
LEMMA UnseenKeepsItems ==
  ASSUME TypeInv, NEW t \in Threads,
         UNCHANGED <<data, reserved_read_idx, write_idx>>,
         \A u \in Threads : u # t => pc'[u] = pc[u] /\ reserved'[u] = reserved[u] /\ done'[u] = done[u],
         pc'[t] # "push_publish", pc'[t] # "pop_read",
         \A c \in Consumers :
           IF c = t THEN (IF pc[c] = "pop_read" THEN data[reserved[c]] ELSE val[c]) = val'[c]
                    ELSE val'[c] = val[c],
         WrittenInv
  PROVE  WrittenInv' /\ Items' = Items /\ Hand' = Hand
<1>1. Items' = Items
  BY DEF Items, Distance
<1>2. Hand' = Hand
  <2>1. ASSUME NEW c \in Consumers
        PROVE  (IF pc'[c] = "pop_read" THEN data'[reserved'[c]] ELSE val'[c])
                 = (IF pc[c] = "pop_read" THEN data[reserved[c]] ELSE val[c])
    BY DEF Threads
  <2> QED
    BY <2>1 DEF Hand
<1>3. WrittenInv'
  BY DEF WrittenInv, Arg, Threads
<1> QED
  BY <1>1, <1>2, <1>3

(* The steps of a push. *)
LEMMA PushIsQueueStep ==
  ASSUME NoLap, TypeInv, RingInv, WrittenInv, NEW p \in Producers, Push(p)
  PROVE  WrittenInv' /\ [Queue!Next]_(Queue!vars)
<1>0. /\ p \in Threads /\ p \notin Consumers
      /\ pc \in [Threads -> {"idle"} \cup PushPCs \cup PopPCs]
      /\ reserved \in [Threads -> Slots]
  BY AtomicAssumption DEF Threads, TypeInv, TypeOK
<1>1. CASE PushPublish(p)
  BY <1>1, PublishEnqueues DEF Queue!Next
<1>2. CASE PushWrite(p)
  BY <1>2, WriteKeepsItems DEF Queue!vars, Items, Hand
<1>3. CASE \/ PushCall(p) \/ PushReload(p) \/ PushFull(p) \/ PushRoom(p)
           \/ PushReserve(p) \/ PushReserveFails(p)
  <2>1. /\ UNCHANGED <<data, reserved_read_idx, write_idx, done, val>>
        /\ \A u \in Threads : u # p => pc'[u] = pc[u] /\ reserved'[u] = reserved[u]
        /\ pc'[p] # "push_publish" /\ pc'[p] # "pop_read"
    BY <1>0, <1>3 DEF PushCall, PushReload, PushFull, PushRoom, PushReserve, PushReserveFails,
       LoadReserved, Goto, indices
  <2>2. WrittenInv' /\ Items' = Items /\ Hand' = Hand
    BY <1>0, <2>1, UnseenKeepsItems
  <2> QED
    BY <2>2 DEF Queue!vars, Items, Hand
<1> QED
  BY <1>1, <1>2, <1>3 DEF Push

(* The steps of a pop. *)
LEMMA PopIsQueueStep ==
  ASSUME NoLap, TypeInv, RingInv, WrittenInv, NEW c \in Consumers, Pop(c)
  PROVE  WrittenInv' /\ [Queue!Next]_(Queue!vars)
<1>0. /\ c \in Threads /\ c \notin Producers
      /\ pc \in [Threads -> {"idle"} \cup PushPCs \cup PopPCs]
      /\ reserved \in [Threads -> Slots] /\ val \in [Consumers -> Value \cup {None}]
      /\ done \in [Threads -> 0 .. Iterations]
  BY AtomicAssumption DEF Threads, TypeInv, TypeOK
<1>1. CASE PopReserve(c)
  BY <1>1, ReserveDequeues DEF Queue!Next
<1>2. CASE \/ PopCall(c) \/ PopReload(c) \/ PopEmpty(c) \/ PopWritten(c)
           \/ PopReserveFails(c) \/ PopPublish(c)
  <2>1. /\ UNCHANGED <<data, reserved_read_idx, write_idx, val>>
        /\ \A u \in Threads : u # c => pc'[u] = pc[u] /\ reserved'[u] = reserved[u] /\ done'[u] = done[u]
        /\ pc'[c] # "push_publish" /\ pc'[c] # "pop_read" /\ pc[c] # "pop_read"
    BY <1>0, <1>2 DEF PopCall, PopReload, PopEmpty, PopWritten, PopReserveFails, PopPublish,
       LoadReserved, Goto, indices, Finish
  <2>2. WrittenInv' /\ Items' = Items /\ Hand' = Hand
    BY <1>0, <2>1, UnseenKeepsItems
  <2> QED
    BY <2>2 DEF Queue!vars, Items, Hand
<1>3. CASE PopRead(c)
  <2>1. /\ UNCHANGED <<data, reserved_read_idx, write_idx, done, reserved>>
        /\ pc[c] = "pop_read" /\ pc'[c] = "pop_publish" /\ val'[c] = data[reserved[c]]
        /\ \A u \in Threads : u # c => pc'[u] = pc[u]
        /\ \A d \in Consumers : d # c => val'[d] = val[d]
    BY <1>0, <1>3 DEF PopRead, Goto, indices
  <2>2. WrittenInv' /\ Items' = Items /\ Hand' = Hand
    BY <1>0, <2>1, UnseenKeepsItems
  <2> QED
    BY <2>2 DEF Queue!vars, Items, Hand
<1> QED
  BY <1>1, <1>2, <1>3 DEF Pop

(* A reset drops no value: all that was pushed has been popped. *)
LEMMA ResetIsQueueStep ==
  ASSUME TypeInv, RingInv, Reset
  PROVE  WrittenInv' /\ [Queue!Next]_(Queue!vars)
<1>1. Popping = Pushed
  BY JoinedCounts DEF Reset
<1>2. Items = <<>>
  BY <1>1, CountTypes, ItemsNow, ItemsNone DEF RingInv
<1>3. Items' = <<>>
  <2>1. Popping' = 0 /\ Pushed' = 0 /\ TypeInv'
    BY ResetType, ResetStep
  <2>2. Items' = ItemsOf(data', 0, 0)
    BY <2>1, ItemsNext, AtomicAssumption
  <2> QED
    BY <2>2, ItemsNone
<1>4. Hand' = Hand
  BY DEF Reset, AllDone, Hand, Threads
<1>5. WrittenInv'
  BY DEF Reset, AllDone, WrittenInv, Threads
<1> QED
  BY <1>2, <1>3, <1>4, <1>5 DEF Queue!vars, Items, Hand

(* A step that changes nothing. *)
LEMMA StutterIsQueueStep ==
  ASSUME WrittenInv, UNCHANGED vars
  PROVE  WrittenInv' /\ [Queue!Next]_(Queue!vars)
<1>1. UNCHANGED <<data, pc, reserved, done, val, reserved_read_idx, write_idx>>
  BY DEF vars, indices
<1>2. Items' = Items /\ Hand' = Hand
  BY <1>1 DEF Items, Hand, Distance
<1>3. WrittenInv'
  BY <1>1 DEF WrittenInv, Arg
<1> QED
  BY <1>2, <1>3 DEF Queue!vars, Items, Hand

(* The ring is a first-in first-out queue of one value less than it has slots, *)
(* for any number of producers and consumers: nothing is lost, handed out     *)
(* twice, reordered or overwritten, and no reset drops a value.              *)
THEOREM QueueImplemented == ASSUME NoLap PROVE Spec => ImplementsQueue
<1>1. Init => WrittenInv /\ Queue!Init
  <2> SUFFICES ASSUME Init PROVE WrittenInv /\ Queue!Init
    OBVIOUS
  <2>1. AtomicInv
    BY InitInv
  <2>2. Items = <<>>
    <3>1. Distance(0, 0) = 0
      <4>1. (0 + Capacity - 0) % Capacity = 0
        BY AtomicAssumption, ModShift, ModSmall
      <4> QED
        BY <4>1 DEF Distance
    <3> QED
      BY <3>1 DEF Init, Items
  <2>3. Hand = [c \in Consumers |-> None]
    BY DEF Init, Hand, Threads
  <2> QED
    BY <2>1, <2>2, <2>3 DEF AtomicInv, Queue!Init, Items, Hand
<1>2. /\ TypeInv /\ RingInv /\ WrittenInv /\ [Next]_vars
      => WrittenInv' /\ [Queue!Next]_(Queue!vars)
  BY PushIsQueueStep, PopIsQueueStep, ResetIsQueueStep, StutterIsQueueStep DEF Next, Finished
<1> QED
  BY <1>1, <1>2, RingCorrect, PTL DEF Spec, ImplementsQueue, Queue!Spec

=============================================================================
