------------------------- MODULE VyukovQueueProofs -------------------------
(***************************************************************************)
(* What holds of VyukovQueue for every number of threads, every size, every *)
(* number of calls and both memory models.                                  *)
(***************************************************************************)
EXTENDS VyukovQueue, SlotArithmetic, SequenceTheorems

(* The slot of a position is one of the slots. *)
LEMMA SlotType == \A n \in Int : Slot(n) \in Slots
<1> SUFFICES ASSUME NEW n \in Int PROVE Slot(n) \in Slots
  OBVIOUS
<1> QED
  BY SizeAssumption, ModRange DEF Slot, Slots

(* Helpers keep the types of what they assign. *)
LEMMA LoadPosType ==
  ASSUME TypeOK, NEW t \in Threads, NEW from, NEW to, NEW idx \in Nat,
         LoadPos(t, from, to, idx)
  PROVE  pos' \in [Threads -> Nat]
  BY DEF TypeOK, LoadPos, Loads

(* Acquire gives every thread a set of slots again. *)
LEMMA AcquireType ==
  ASSUME TypeOK, NEW t \in Threads, NEW S, Acquire(t, S)
  PROVE  order' \in [Threads -> SUBSET Slots]
<1>1. Slot(pos[t]) \in Slots
  BY SlotType DEF TypeOK
<1> QED
  BY <1>1 DEF TypeOK, Acquire

(* Access gives threads and slots sets of slots again. *)
LEMMA AccessType ==
  ASSUME TypeOK, NEW t \in Threads, Access(t)
  PROVE  /\ order' \in [Threads -> SUBSET Slots]
         /\ carried' \in [Slots -> SUBSET Slots]
<1>1. Slot(pos[t]) \in Slots
  BY SlotType DEF TypeOK
<1> QED
  BY <1>1 DEF TypeOK, Access

(* Release of a natural number keeps the types of sequence and carried. *)
LEMMA ReleaseType ==
  ASSUME TypeOK, NEW t \in Threads, NEW seq \in Nat, Release(t, seq)
  PROVE  /\ sequence' \in [Slots -> Nat]
         /\ carried' \in [Slots -> SUBSET Slots]
<1>1. Slot(pos[t]) \in Slots
  BY SlotType DEF TypeOK
<1> QED
  BY <1>1 DEF TypeOK, Release

(* A thread inside a call has calls left to make: what makes the value it     *)
(* pushes one of Value.                                                      *)
InCall == \A t \in Threads : pc[t] # "idle" => done[t] < Iterations

TypeInv == TypeOK /\ InCall

(* The constructor leaves every member with a value of its type. *)
LEMMA InitType == Init => TypeInv
<1> SUFFICES ASSUME Init PROVE TypeInv
  OBVIOUS
<1>1. \A i \in Slots : i \in Nat
  BY SizeAssumption DEF Slots
<1> QED
  BY <1>1, ThreadsAssumption DEF Init, TypeInv, TypeOK, InCall, Threads, PushPCs, PopPCs

(* Every step of a push keeps the types. *)
LEMMA PushType ==
  ASSUME TypeInv, NEW p \in Producers, Push(p)
  PROVE  TypeInv'
<1> p \in Threads /\ p \notin Consumers
  BY ThreadsAssumption DEF Threads
<1> USE DEF TypeInv
<1>0. /\ Slot(pos[p]) \in Slots /\ pos[p] \in Nat
      /\ pos[p] + 1 \in Nat /\ pos[p] + Size \in Nat
  BY SlotType, SizeAssumption DEF TypeOK
<1>1. CASE PushCall(p)
  <2>1. write_idx \in Nat /\ read_idx \in Nat
    BY DEF TypeOK
  <2>2. pos' \in [Threads -> Nat]
    BY <1>1, <2>1, LoadPosType DEF PushCall
  <2> QED
    BY <1>1, <2>2 DEF PushCall, LoadPos, Goto, TypeOK, InCall, queue, PushPCs
<1>2. CASE PushReady(p)
  BY <1>2, AcquireType DEF PushReady, Goto, TypeOK, InCall, queue, PushPCs
<1>3. CASE PushFull(p)
  BY <1>3, AcquireType DEF PushFull, Goto, TypeOK, InCall, queue, PushPCs
<1>4. CASE PushLostRace(p)
  BY <1>4, AcquireType DEF PushLostRace, Goto, TypeOK, InCall, queue, PushPCs
<1>5. CASE PushReload(p)
  <2>1. write_idx \in Nat /\ read_idx \in Nat
    BY DEF TypeOK
  <2>2. pos' \in [Threads -> Nat]
    BY <1>5, <2>1, LoadPosType DEF PushReload
  <2> QED
    BY <1>5, <2>2 DEF PushReload, LoadPos, Goto, TypeOK, InCall, queue, PushPCs
<1>6. CASE PushClaim(p)
  BY <1>6, <1>0 DEF PushClaim, Goto, TypeOK, InCall, PushPCs
<1>7. CASE PushClaimFails(p)
  <2>1. write_idx \in Nat /\ read_idx \in Nat
    BY DEF TypeOK
  <2>2. pos' \in [Threads -> Nat]
    BY <1>7, <2>1, LoadPosType DEF PushClaimFails
  <2> QED
    BY <1>7, <2>2 DEF PushClaimFails, LoadPos, Goto, TypeOK, InCall, queue, PushPCs
<1>8. CASE PushWrite(p)
  <2>1. order' \in [Threads -> SUBSET Slots] /\ carried' \in [Slots -> SUBSET Slots]
    BY <1>8, AccessType DEF PushWrite
  <2>2. Arg(p) \in Value
    BY <1>8, ThreadsAssumption DEF PushWrite, Goto, TypeOK, InCall, Arg, Value
  <2>3. value' \in [Slots -> Value \cup {None}]
    BY <1>8, <2>2 DEF PushWrite, TypeOK
  <2>4. InCall'
    BY <1>8 DEF PushWrite, Goto, TypeOK, InCall
  <2>5. /\ pc' \in [Threads -> {"idle"} \cup PushPCs \cup PopPCs]
        /\ \A q \in Producers : pc'[q] \in {"idle"} \cup PushPCs
        /\ \A d \in Consumers : pc'[d] \in {"idle"} \cup PopPCs
    BY <1>8 DEF PushWrite, Goto, TypeOK, PushPCs
  <2> QED
    BY <1>8, <2>1, <2>3, <2>4, <2>5 DEF PushWrite, TypeOK
<1>9. CASE PushPublish(p)
  <2>1. sequence' \in [Slots -> Nat] /\ carried' \in [Slots -> SUBSET Slots]
    BY <1>9, <1>0, ReleaseType DEF PushPublish
  <2>2. done' \in [Threads -> 0 .. Iterations]
    BY <1>9, ThreadsAssumption DEF PushPublish, Goto, TypeOK, InCall
  <2> QED
    BY <1>9, <2>1, <2>2 DEF PushPublish, Goto, TypeOK, InCall, PushPCs
<1> QED
  BY <1>1, <1>2, <1>3, <1>4, <1>5, <1>6, <1>7, <1>8, <1>9 DEF Push

(* Every step of a pop keeps the types. *)
LEMMA PopType ==
  ASSUME TypeInv, NEW c \in Consumers, Pop(c)
  PROVE  TypeInv'
<1> c \in Threads /\ c \notin Producers
  BY ThreadsAssumption DEF Threads
<1> USE DEF TypeInv
<1>0. /\ Slot(pos[c]) \in Slots /\ pos[c] \in Nat
      /\ pos[c] + 1 \in Nat /\ pos[c] + Size \in Nat
  BY SlotType, SizeAssumption DEF TypeOK
<1>1. CASE PopCall(c)
  <2>1. write_idx \in Nat /\ read_idx \in Nat
    BY DEF TypeOK
  <2>2. pos' \in [Threads -> Nat]
    BY <1>1, <2>1, LoadPosType DEF PopCall
  <2> QED
    BY <1>1, <2>2 DEF PopCall, LoadPos, Goto, TypeOK, InCall, queue, PopPCs
<1>2. CASE PopReady(c)
  BY <1>2, AcquireType DEF PopReady, Goto, TypeOK, InCall, queue, PopPCs
<1>3. CASE PopEmpty(c)
  BY <1>3, AcquireType DEF PopEmpty, Goto, TypeOK, InCall, queue, PopPCs
<1>4. CASE PopLostRace(c)
  BY <1>4, AcquireType DEF PopLostRace, Goto, TypeOK, InCall, queue, PopPCs
<1>5. CASE PopReload(c)
  <2>1. write_idx \in Nat /\ read_idx \in Nat
    BY DEF TypeOK
  <2>2. pos' \in [Threads -> Nat]
    BY <1>5, <2>1, LoadPosType DEF PopReload
  <2> QED
    BY <1>5, <2>2 DEF PopReload, LoadPos, Goto, TypeOK, InCall, queue, PopPCs
<1>6. CASE PopClaim(c)
  BY <1>6, <1>0 DEF PopClaim, Goto, TypeOK, InCall, PopPCs
<1>7. CASE PopClaimFails(c)
  <2>1. write_idx \in Nat /\ read_idx \in Nat
    BY DEF TypeOK
  <2>2. pos' \in [Threads -> Nat]
    BY <1>7, <2>1, LoadPosType DEF PopClaimFails
  <2> QED
    BY <1>7, <2>2 DEF PopClaimFails, LoadPos, Goto, TypeOK, InCall, queue, PopPCs
<1>8. CASE PopRead(c)
  <2>1. order' \in [Threads -> SUBSET Slots] /\ carried' \in [Slots -> SUBSET Slots]
    BY <1>8, AccessType DEF PopRead
  <2>2. val' \in [Consumers -> Value \cup {None}]
    BY <1>8, <1>0 DEF PopRead, TypeOK
  <2>4. InCall'
    BY <1>8 DEF PopRead, Goto, TypeOK, InCall
  <2>5. /\ pc' \in [Threads -> {"idle"} \cup PushPCs \cup PopPCs]
        /\ \A q \in Producers : pc'[q] \in {"idle"} \cup PushPCs
        /\ \A d \in Consumers : pc'[d] \in {"idle"} \cup PopPCs
    BY <1>8 DEF PopRead, Goto, TypeOK, PopPCs
  <2> QED
    BY <1>8, <2>1, <2>2, <2>4, <2>5 DEF PopRead, TypeOK
<1>9. CASE PopRelease(c)
  <2>1. sequence' \in [Slots -> Nat] /\ carried' \in [Slots -> SUBSET Slots]
    BY <1>9, <1>0, ReleaseType DEF PopRelease
  <2>2. done' \in [Threads -> 0 .. Iterations]
    BY <1>9, ThreadsAssumption DEF PopRelease, Goto, TypeOK, InCall
  <2> QED
    BY <1>9, <2>1, <2>2 DEF PopRelease, Goto, TypeOK, InCall, PopPCs
<1> QED
  BY <1>1, <1>2, <1>3, <1>4, <1>5, <1>6, <1>7, <1>8, <1>9 DEF Pop

(* A step that changes nothing keeps the types. *)
LEMMA StutterType == TypeInv /\ UNCHANGED vars => TypeInv'
  BY DEF TypeInv, TypeOK, InCall, vars

(* The types, and that no thread outnumbers its calls, hold in every run. *)
LEMMA TypeInvariant == Spec => []TypeInv
<1>1. Init => TypeInv
  BY InitType
<1>2. TypeInv /\ [Next]_vars => TypeInv'
  BY PushType, PopType, StutterType DEF Next, Joined
<1> QED
  BY <1>1, <1>2, PTL DEF Spec

(* The variables keep their types: in particular no index or sequence number  *)
(* is ever negative, a slot only ever holds pushed values, and no thread      *)
(* makes more successful calls than it was asked to.                         *)
THEOREM TypeCorrect == Spec => []TypeOK
  BY TypeInvariant, PTL DEF TypeInv

-----------------------------------------------------------------------------
(* Positions and their slots. *)
LEMMA SlotShift == \A n \in Int : Slot(n + Size) = Slot(n)
  BY SizeAssumption, ModShift DEF Slot

(* Positions less than one lap apart are in different slots. *)
LEMMA SlotsDiffer ==
  \A m, n \in Int : m # n /\ m < n + Size /\ n < m + Size => Slot(m) # Slot(n)
<1> SUFFICES ASSUME NEW m \in Int, NEW n \in Int, m # n, m < n + Size, n < m + Size
             PROVE  Slot(m) # Slot(n)
  OBVIOUS
<1> Size \in Nat \ {0}
  BY SizeAssumption
<1>1. CASE m < n
  BY <1>1, ModInjective DEF Slot
<1>2. CASE n < m
  BY <1>2, ModInjective DEF Slot
<1> QED
  BY <1>1, <1>2

(* Threads inside a slot are less than a lap apart, so they share no slot. *)
LEMMA OwnersApart ==
  ASSUME TypeInv, RingInv, NEW t \in Threads, NEW u \in Threads,
         t # u, InSlot(t), InSlot(u)
  PROVE  Slot(pos[t]) # Slot(pos[u])
<1>1. pos[t] \in Nat /\ pos[u] \in Nat /\ write_idx \in Nat /\ read_idx \in Nat /\ Size \in Nat
  BY SizeAssumption DEF TypeInv, TypeOK
<1>2. \A v \in {t, u} : write_idx <= pos[v] + Size /\ pos[v] < write_idx
  BY <1>1 DEF RingInv, WriterInv, ReaderInv, WithinCapacity, Threads
<1>3. pos[t] # pos[u]
  BY DEF RingInv, OwnersDiffer
<1> QED
  BY <1>1, <1>2, <1>3, SlotsDiffer

(* A new ring: every slot is free. *)
LEMMA RingInit == Init => RingInv
<1> SUFFICES ASSUME Init PROVE RingInv
  OBVIOUS
<1>1. Size \in Nat \ {0} /\ \A i \in Slots : i \in 0 .. Size - 1
  BY SizeAssumption DEF Slots
<1>2. \A t \in Threads : ~InSlot(t)
  BY DEF Init, InSlot
<1>3. \A n \in 0 .. Size - 1 : sequence[Slot(n)] = n
  <2> SUFFICES ASSUME NEW n \in 0 .. Size - 1 PROVE sequence[Slot(n)] = n
    OBVIOUS
  <2>1. n \in Int /\ n = Size * 0 + n
    BY <1>1
  <2>2. n % Size = n
    BY <1>1, <2>1, ModUnique
  <2> QED
    BY <2>2 DEF Init, Slot, Slots
<1>4. FreeInv /\ QueuedInv /\ WithinCapacity
  <2>1. write_idx = 0 /\ read_idx = 0
    BY DEF Init
  <2>2. 0 .. 0 + Size - 1 = 0 .. Size - 1 /\ 0 .. 0 - 1 = {}
    BY <1>1
  <2> QED
    BY <1>1, <1>3, <2>1, <2>2 DEF FreeInv, QueuedInv, WithinCapacity
<1>5. WriterInv /\ ReaderInv /\ OwnersDiffer
  BY <1>2 DEF WriterInv, ReaderInv, OwnersDiffer, Threads
<1>6. LoadedInv /\ OrderInv
  BY <1>2 DEF Init, LoadedInv, OrderInv, Threads
<1> QED
  BY <1>4, <1>5, <1>6 DEF RingInv

(* A step of a thread that is inside no slot, before or after, touches        *)
(* nothing but its own view: it only has to keep what it has seen.           *)
LEMMA QuietStep ==
  ASSUME TypeInv, RingInv, NEW t \in Threads,
         UNCHANGED queue, ~InSlot(t), ~InSlot(t)',
         \A u \in Threads : u # t =>
           pc'[u] = pc[u] /\ pos'[u] = pos[u] /\ order'[u] = order[u],
         order[t] \subseteq order'[t],
         t \in Producers =>
           /\ pos'[t] <= write_idx
           /\ pc'[t] = "push_cas" =>
                /\ sequence[Slot(pos'[t])] >= pos'[t]
                /\ pos'[t] = write_idx /\ sequence[Slot(pos'[t])] = pos'[t]
                     => Slot(pos'[t]) \in order'[t],
         t \in Consumers =>
           /\ pos'[t] <= read_idx
           /\ pc'[t] = "pop_cas" =>
                /\ sequence[Slot(pos'[t])] >= pos'[t] + 1
                /\ pos'[t] = read_idx /\ sequence[Slot(pos'[t])] = pos'[t] + 1
                     => Slot(pos'[t]) \in order'[t]
  PROVE  RingInv'
<1>1. /\ sequence' = sequence /\ carried' = carried
      /\ write_idx' = write_idx /\ read_idx' = read_idx
  BY DEF queue
<1>2. \A u \in Threads : InSlot(u)' <=> InSlot(u)
  BY DEF InSlot
<1>3. \A u \in Threads : InSlot(u) => pos'[u] = pos[u]
  OBVIOUS
<1>4. \A u \in Threads : order[u] \subseteq order'[u]
  OBVIOUS
<1>5. WithinCapacity'
  BY <1>1 DEF RingInv, WithinCapacity
<1>6. WriterInv' /\ ReaderInv'
  BY <1>1, <1>2, <1>3 DEF RingInv, WriterInv, ReaderInv, Threads
<1>7. QueuedInv' /\ FreeInv'
  <2>1. \A u \in Threads, n \in Int : Owns(u, n) => Owns(u, n)'
    BY <1>2, <1>3 DEF Owns
  <2> QED
    BY <1>1, <2>1, SizeAssumption DEF RingInv, QueuedInv, FreeInv, Threads, TypeInv, TypeOK
<1>8. OwnersDiffer'
  BY <1>2, <1>3 DEF RingInv, OwnersDiffer
<1>9. LoadedInv'
  BY <1>1 DEF RingInv, LoadedInv, Threads
<1>10. OrderInv'
  <2>1. \A u \in Threads : InSlot(u)' => Slot(pos'[u]) \in order'[u]
    BY <1>2, <1>3, <1>4 DEF RingInv, OrderInv
  <2>2. \A p \in Producers :
          pc'[p] = "push_cas" /\ pos'[p] = write_idx' /\ sequence'[Slot(pos'[p])] = pos'[p]
            => Slot(pos'[p]) \in order'[p]
    BY <1>1, <1>4 DEF RingInv, OrderInv, Threads
  <2>3. \A c \in Consumers :
          pc'[c] = "pop_cas" /\ pos'[c] = read_idx' /\ sequence'[Slot(pos'[c])] = pos'[c] + 1
            => Slot(pos'[c]) \in order'[c]
    BY <1>1, <1>4 DEF RingInv, OrderInv, Threads
  <2>4. \A i \in Slots :
          \/ \E u \in Threads : InSlot(u)' /\ Slot(pos'[u]) = i
          \/ i \in carried'[i]
          \/ \A u \in Threads : i \in order'[u]
    BY <1>1, <1>2, <1>3, <1>4 DEF RingInv, OrderInv
  <2> QED
    BY <2>1, <2>2, <2>3, <2>4 DEF OrderInv, Slot
<1> QED
  BY <1>5, <1>6, <1>7, <1>8, <1>9, <1>10 DEF RingInv

-----------------------------------------------------------------------------
(***************************************************************************)
(* The steps that touch the queue.                                          *)
(***************************************************************************)

(* A thread that reads or writes the plain int of the slot it owns takes the  *)
(* order away from the others; none of them needs it.                        *)
LEMMA AccessStep ==
  ASSUME TypeInv, RingInv, Size > 1, NEW t \in Threads, Access(t),
         InSlot(t), InSlot(t)',
         \A u \in Threads : u # t => pc'[u] = pc[u],
         UNCHANGED <<sequence, write_idx, read_idx, pos>>
  PROVE  RingInv'
<1> DEFINE i == Slot(pos[t])
<1>0. /\ pos \in [Threads -> Nat] /\ write_idx \in Nat /\ read_idx \in Nat
      /\ Size \in Nat \ {0} /\ i \in Slots
  BY SlotType, SizeAssumption DEF TypeInv, TypeOK
<1>1. \A u \in Threads : InSlot(u)' <=> InSlot(u)
  BY DEF InSlot
<1>2. /\ \A u \in Threads : order'[u] = IF u = t THEN order[u] \cup {i} ELSE order[u] \ {i}
      /\ \A j \in Slots : carried'[j] = carried[j] \ {i}
  BY DEF Access
<1>3. WithinCapacity' /\ WriterInv' /\ ReaderInv' /\ OwnersDiffer' /\ LoadedInv'
  <2>1. WithinCapacity' /\ WriterInv' /\ ReaderInv' /\ OwnersDiffer'
    BY <1>1 DEF RingInv, WithinCapacity, WriterInv, ReaderInv, OwnersDiffer, Threads
  <2>2. /\ pc'[t] # "push_cas" /\ pc'[t] # "pop_cas"
    BY DEF InSlot
  <2> QED
    BY <2>1, <2>2 DEF RingInv, LoadedInv, Threads
<1>4. QueuedInv' /\ FreeInv'
  <2>1. \A u \in Threads, n \in Int : Owns(u, n) => Owns(u, n)'
    BY <1>1 DEF Owns
  <2> QED
    BY <1>0, <2>1 DEF RingInv, QueuedInv, FreeInv, Threads
<1>5. OrderInv'
  <2>1. \A u \in Threads : InSlot(u)' => Slot(pos'[u]) \in order'[u]
    BY <1>0, <1>1, <1>2, OwnersApart DEF RingInv, OrderInv
  <2>2. ASSUME NEW p \in Producers, pc'[p] = "push_cas", pos'[p] = write_idx',
               sequence'[Slot(pos'[p])] = pos'[p]
        PROVE  Slot(pos'[p]) \in order'[p]
    <3>1. p \in Threads /\ p # t /\ pc[p] = "push_cas"
      BY <2>2 DEF InSlot, Threads
    <3>2. i # Slot(pos[p])
      <4>1. CASE t \in Producers
        BY <2>2, <4>1, <1>0, <3>1 DEF RingInv, WriterInv
      <4>2. CASE t \in Consumers
        <5>1. /\ write_idx <= pos[t] + Size /\ pos[t] < read_idx
              /\ read_idx <= write_idx /\ sequence[i] = pos[t] + 1
          BY <4>2 DEF RingInv, ReaderInv, WithinCapacity
        <5> QED
          BY <2>2, <5>1, <1>0, <3>1, SlotsDiffer
      <4> QED
        BY <4>1, <4>2 DEF Threads
    <3> QED
      BY <2>2, <3>1, <3>2, <1>2 DEF RingInv, OrderInv
  <2>3. ASSUME NEW c \in Consumers, pc'[c] = "pop_cas", pos'[c] = read_idx',
               sequence'[Slot(pos'[c])] = pos'[c] + 1
        PROVE  Slot(pos'[c]) \in order'[c]
    <3>1. c \in Threads /\ c # t /\ pc[c] = "pop_cas"
      BY <2>3 DEF InSlot, Threads
    <3>2. i # Slot(pos[c])
      <4>1. CASE t \in Producers
        <5>1. /\ read_idx <= pos[t] /\ pos[t] < write_idx
              /\ write_idx <= read_idx + Size /\ sequence[i] = pos[t]
          BY <4>1 DEF RingInv, WriterInv, WithinCapacity
        <5> QED
          BY <2>3, <5>1, <1>0, <3>1, SlotsDiffer
      <4>2. CASE t \in Consumers
        BY <2>3, <4>2, <1>0, <3>1 DEF RingInv, ReaderInv
      <4> QED
        BY <4>1, <4>2 DEF Threads
    <3> QED
      BY <2>3, <3>1, <3>2, <1>2 DEF RingInv, OrderInv
  <2>4. ASSUME NEW j \in Slots
        PROVE  \/ \E u \in Threads : InSlot(u)' /\ Slot(pos'[u]) = j
               \/ j \in carried'[j]
               \/ \A u \in Threads : j \in order'[u]
    <3>1. CASE j = i
      BY <3>1
    <3>2. CASE j # i
      BY <3>2, <1>1, <1>2 DEF RingInv, OrderInv
    <3> QED
      BY <3>1, <3>2
  <2> QED
    BY <2>1, <2>2, <2>3, <2>4 DEF OrderInv, Slot
<1> QED
  BY <1>3, <1>4, <1>5 DEF RingInv

(* A producer wins its swap: the slot of write_idx is free and nobody is in it. *)
LEMMA PushClaimStep ==
  ASSUME TypeInv, RingInv, Size > 1, NEW p \in Producers, PushClaim(p)
  PROVE  RingInv'
<1> DEFINE n == write_idx
<1> DEFINE i == Slot(n)
<1>0. /\ pos \in [Threads -> Nat] /\ write_idx \in Nat /\ read_idx \in Nat
      /\ Size \in Nat \ {0} /\ i \in Slots /\ sequence \in [Slots -> Nat]
      /\ p \in Threads /\ p \notin Consumers
  BY SlotType, SizeAssumption, ThreadsAssumption DEF TypeInv, TypeOK, Threads
<1>1. /\ pc[p] = "push_cas" /\ pc' = [pc EXCEPT ![p] = "push_write"] /\ pos[p] = n
      /\ write_idx' = n + 1 /\ pos' = pos /\ read_idx' = read_idx
      /\ sequence' = sequence /\ order' = order /\ carried' = carried
  BY DEF PushClaim, Goto
<1>2. /\ ~InSlot(p) /\ InSlot(p)'
      /\ \A u \in Threads : u # p => (InSlot(u)' <=> InSlot(u))
  BY <1>0, <1>1 DEF TypeInv, TypeOK, InSlot
<1>3. n < read_idx + Size
  <2>1. CASE write_idx = read_idx + Size
    <3>1. read_idx \in read_idx .. write_idx - 1
      BY <2>1, <1>0
    <3>2. sequence[Slot(read_idx)] <= read_idx + 1
      BY <3>1, <1>0 DEF RingInv, QueuedInv
    <3>3. Slot(read_idx) = i
      BY <2>1, <1>0, SlotShift
    <3>4. sequence[i] >= n
      BY <1>1 DEF RingInv, LoadedInv
    <3> QED
      BY <2>1, <3>2, <3>3, <3>4, <1>0
  <2> QED
    BY <2>1, <1>0 DEF RingInv, WithinCapacity
<1>4. sequence[i] = n
  <2>1. n \in write_idx .. read_idx + Size - 1
    BY <1>0, <1>3
  <2>2. sequence[i] >= n
    BY <1>1 DEF RingInv, LoadedInv
  <2> QED
    BY <2>1, <2>2, <1>0 DEF RingInv, FreeInv
<1>5. WithinCapacity'
  BY <1>0, <1>1, <1>3 DEF RingInv, WithinCapacity
<1>6. WriterInv'
  <2>1. n >= read_idx
    BY DEF RingInv, WithinCapacity
  <2> QED
    BY <1>0, <1>1, <1>2, <1>4, <2>1 DEF RingInv, WriterInv, Threads
<1>7. ReaderInv'
  <2> SUFFICES ASSUME NEW c \in Consumers, InSlot(c)
               PROVE  /\ n + 1 <= pos[c] + Size /\ pos[c] < read_idx
                      /\ sequence[Slot(pos[c])] = pos[c] + 1
    BY <1>0, <1>1, <1>2 DEF ReaderInv, Threads
  <2>1. /\ n <= pos[c] + Size /\ pos[c] < read_idx
        /\ sequence[Slot(pos[c])] = pos[c] + 1
    BY DEF RingInv, ReaderInv
  <2>2. n # pos[c] + Size
    BY <2>1, <1>0, <1>4, SlotShift DEF Threads
  <2> QED
    BY <2>1, <2>2, <1>0 DEF Threads
<1>8. OwnersDiffer'
  <2>1. \A u \in Threads : InSlot(u) => pos[u] < n
    BY <1>0 DEF RingInv, WriterInv, ReaderInv, WithinCapacity, Threads
  <2> QED
    BY <1>0, <1>1, <1>2, <2>1 DEF RingInv, OwnersDiffer
<1>9. QueuedInv'
  <2> SUFFICES ASSUME NEW m \in read_idx .. n
               PROVE  \/ sequence[Slot(m)] = m + 1
                      \/ sequence[Slot(m)] = m /\ \E q \in Producers : Owns(q, m)'
    BY <1>0, <1>1 DEF QueuedInv
  <2>1. CASE m = n
    BY <2>1, <1>0, <1>1, <1>2, <1>4 DEF Owns
  <2>2. CASE m # n
    <3>1. m \in read_idx .. write_idx - 1
      BY <2>2, <1>0
    <3>2. \A q \in Producers : Owns(q, m) => Owns(q, m)'
      BY <1>1, <1>2 DEF Owns, Threads
    <3> QED
      BY <3>1, <3>2 DEF RingInv, QueuedInv
  <2> QED
    BY <2>1, <2>2
<1>10. FreeInv'
  <2> SUFFICES ASSUME NEW m \in n + 1 .. read_idx + Size - 1
               PROVE  \/ sequence[Slot(m)] = m
                      \/ /\ sequence[Slot(m)] = m - Size + 1
                         /\ \E c \in Consumers : Owns(c, m - Size)'
    BY <1>0, <1>1 DEF FreeInv
  <2>1. m \in write_idx .. read_idx + Size - 1
    BY <1>0
  <2>2. \A c \in Consumers, k \in Int : Owns(c, k) => Owns(c, k)'
    BY <1>0, <1>1, <1>2 DEF Owns, Threads
  <2>3. m - Size \in Int
    BY <1>0
  <2> QED
    BY <2>1, <2>2, <2>3 DEF RingInv, FreeInv
<1>11. LoadedInv'
  BY <1>0, <1>1 DEF RingInv, LoadedInv, TypeInv, TypeOK, Threads
<1>12. OrderInv'
  <2>1. Slot(pos[p]) \in order[p]
    BY <1>1, <1>4 DEF RingInv, OrderInv
  <2>2. \A u \in Threads : InSlot(u)' => Slot(pos'[u]) \in order'[u]
    BY <2>1, <1>1, <1>2 DEF RingInv, OrderInv
  <2>3. \A q \in Producers : pos'[q] # write_idx'
    BY <1>0, <1>1 DEF RingInv, LoadedInv, Threads
  <2>4. \A c \in Consumers : pc'[c] = "pop_cas" => pc[c] = "pop_cas"
    BY <1>0, <1>1 DEF Threads, TypeInv, TypeOK
  <2>5. \A j \in Slots :
          \/ \E u \in Threads : InSlot(u)' /\ Slot(pos'[u]) = j
          \/ j \in carried'[j]
          \/ \A u \in Threads : j \in order'[u]
    BY <1>1, <1>2 DEF RingInv, OrderInv
  <2> QED
    BY <1>1, <2>2, <2>3, <2>4, <2>5 DEF RingInv, OrderInv, Slot
<1> QED
  BY <1>5, <1>6, <1>7, <1>8, <1>9, <1>10, <1>11, <1>12 DEF RingInv

(* A consumer wins its swap: the oldest value is written and nobody is in its *)
(* slot.                                                                     *)
LEMMA PopClaimStep ==
  ASSUME TypeInv, RingInv, Size > 1, NEW c \in Consumers, PopClaim(c)
  PROVE  RingInv'
<1> DEFINE n == read_idx
<1> DEFINE i == Slot(n)
<1>0. /\ pos \in [Threads -> Nat] /\ write_idx \in Nat /\ read_idx \in Nat
      /\ Size \in Nat \ {0} /\ i \in Slots /\ sequence \in [Slots -> Nat]
      /\ c \in Threads /\ c \notin Producers
  BY SlotType, SizeAssumption, ThreadsAssumption DEF TypeInv, TypeOK, Threads
<1>1. /\ pc[c] = "pop_cas" /\ pc' = [pc EXCEPT ![c] = "pop_read"] /\ pos[c] = n
      /\ read_idx' = n + 1 /\ pos' = pos /\ write_idx' = write_idx
      /\ sequence' = sequence /\ order' = order /\ carried' = carried
  BY DEF PopClaim, Goto
<1>2. /\ ~InSlot(c) /\ InSlot(c)'
      /\ \A u \in Threads : u # c => (InSlot(u)' <=> InSlot(u))
  BY <1>0, <1>1 DEF TypeInv, TypeOK, InSlot
<1>3. sequence[i] >= n + 1
  BY <1>1 DEF RingInv, LoadedInv
<1>4. n < write_idx
  <2>1. CASE read_idx = write_idx
    <3>1. n \in write_idx .. read_idx + Size - 1
      BY <2>1, <1>0
    <3> QED
      BY <3>1, <1>0, <1>3 DEF RingInv, FreeInv
  <2> QED
    BY <2>1, <1>0 DEF RingInv, WithinCapacity
<1>5. sequence[i] = n + 1
  <2>1. n \in read_idx .. write_idx - 1
    BY <1>0, <1>4
  <2> QED
    BY <2>1, <1>0, <1>3 DEF RingInv, QueuedInv
<1>6. WithinCapacity'
  BY <1>0, <1>1, <1>4 DEF RingInv, WithinCapacity
<1>7. WriterInv'
  <2> SUFFICES ASSUME NEW p \in Producers, InSlot(p)
               PROVE  /\ n + 1 <= pos[p] /\ pos[p] < write_idx
                      /\ sequence[Slot(pos[p])] = pos[p]
    BY <1>0, <1>1, <1>2 DEF WriterInv, Threads
  <2>1. /\ n <= pos[p] /\ pos[p] < write_idx /\ sequence[Slot(pos[p])] = pos[p]
    BY DEF RingInv, WriterInv
  <2>2. n # pos[p]
    BY <2>1, <1>0, <1>5
  <2> QED
    BY <2>1, <2>2, <1>0 DEF Threads
<1>8. ReaderInv'
  <2>1. write_idx <= n + Size
    BY DEF RingInv, WithinCapacity
  <2> QED
    BY <1>0, <1>1, <1>2, <1>5, <2>1 DEF RingInv, ReaderInv, Threads
<1>9. OwnersDiffer'
  <2>1. \A u \in Threads : InSlot(u) => pos[u] # n
    BY <1>0, <1>5 DEF RingInv, WriterInv, ReaderInv, Threads
  <2> QED
    BY <1>0, <1>1, <1>2, <2>1 DEF RingInv, OwnersDiffer
<1>10. QueuedInv'
  <2> SUFFICES ASSUME NEW m \in n + 1 .. write_idx - 1
               PROVE  \/ sequence[Slot(m)] = m + 1
                      \/ sequence[Slot(m)] = m /\ \E q \in Producers : Owns(q, m)'
    BY <1>0, <1>1 DEF QueuedInv
  <2>1. m \in read_idx .. write_idx - 1
    BY <1>0
  <2>2. \A q \in Producers : Owns(q, m) => Owns(q, m)'
    BY <1>0, <1>1, <1>2 DEF Owns, Threads
  <2> QED
    BY <2>1, <2>2 DEF RingInv, QueuedInv
<1>11. FreeInv'
  <2> SUFFICES ASSUME NEW m \in write_idx .. n + Size
               PROVE  \/ sequence[Slot(m)] = m
                      \/ /\ sequence[Slot(m)] = m - Size + 1
                         /\ \E d \in Consumers : Owns(d, m - Size)'
    BY <1>0, <1>1 DEF FreeInv
  <2>1. CASE m = n + Size
    <3>1. Slot(m) = i /\ m - Size = n
      BY <2>1, <1>0, SlotShift
    <3>2. Owns(c, m - Size)'
      BY <1>1, <1>2, <3>1 DEF Owns
    <3>3. sequence[Slot(m)] = m - Size + 1
      BY <1>5, <3>1
    <3> QED
      BY <3>2, <3>3
  <2>2. CASE m # n + Size
    <3>1. m \in write_idx .. read_idx + Size - 1
      BY <2>2, <1>0
    <3>2. \A d \in Consumers, k \in Int : Owns(d, k) => Owns(d, k)'
      BY <1>0, <1>1, <1>2 DEF Owns, Threads
    <3>3. m - Size \in Int
      BY <1>0
    <3> QED
      BY <3>1, <3>2, <3>3 DEF RingInv, FreeInv
  <2> QED
    BY <2>1, <2>2
<1>12. LoadedInv'
  BY <1>0, <1>1 DEF RingInv, LoadedInv, TypeInv, TypeOK, Threads
<1>13. OrderInv'
  <2>1. Slot(pos[c]) \in order[c]
    BY <1>1, <1>5 DEF RingInv, OrderInv
  <2>2. \A u \in Threads : InSlot(u)' => Slot(pos'[u]) \in order'[u]
    BY <2>1, <1>1, <1>2 DEF RingInv, OrderInv
  <2>3. \A d \in Consumers : pos'[d] # read_idx'
    BY <1>0, <1>1 DEF RingInv, LoadedInv, Threads
  <2>4. \A q \in Producers : pc'[q] = "push_cas" => pc[q] = "push_cas"
    BY <1>0, <1>1 DEF Threads, TypeInv, TypeOK
  <2>5. \A j \in Slots :
          \/ \E u \in Threads : InSlot(u)' /\ Slot(pos'[u]) = j
          \/ j \in carried'[j]
          \/ \A u \in Threads : j \in order'[u]
    BY <1>1, <1>2 DEF RingInv, OrderInv
  <2> QED
    BY <1>1, <2>2, <2>3, <2>4, <2>5 DEF RingInv, OrderInv, Slot
<1> QED
  BY <1>6, <1>7, <1>8, <1>9, <1>10, <1>11, <1>12, <1>13 DEF RingInv

(* An owner hands its slot on: the producer to the consumer of its position,  *)
(* the consumer to the producer one lap later.  The sequence numbers of all  *)
(* other positions of the lap are in other slots.                            *)
LEMMA ReleaseStep ==
  ASSUME TypeInv, RingInv, Size > 1, NEW t \in Threads, NEW seq \in Nat,
         InSlot(t), Release(t, seq), pc' = [pc EXCEPT ![t] = "idle"],
         t \in Producers => seq = pos[t] + 1,
         t \in Consumers => seq = pos[t] + Size,
         UNCHANGED <<write_idx, read_idx, pos, order>>
  PROVE  RingInv'
<1> DEFINE n == pos[t]
<1> DEFINE i == Slot(n)
<1>0. /\ pos \in [Threads -> Nat] /\ write_idx \in Nat /\ read_idx \in Nat
      /\ Size \in Nat \ {0} /\ i \in Slots /\ sequence \in [Slots -> Nat]
      /\ carried \in [Slots -> SUBSET Slots]
      /\ pc \in [Threads -> {"idle"} \cup PushPCs \cup PopPCs]
      /\ Producers \cap Consumers = {} /\ Threads = Producers \cup Consumers
  BY SlotType, SizeAssumption, ThreadsAssumption DEF TypeInv, TypeOK, Threads
<1>1. /\ ~InSlot(t)'
      /\ \A u \in Threads : u # t => (InSlot(u)' <=> InSlot(u))
  BY <1>0 DEF InSlot
<1>2. /\ sequence' = [sequence EXCEPT ![i] = seq]
      /\ carried' = [carried EXCEPT ![i] = order[t]]
  BY DEF Release
<1>3. /\ write_idx <= n + Size /\ n < write_idx /\ read_idx <= write_idx
      /\ write_idx <= read_idx + Size
  BY <1>0 DEF RingInv, WithinCapacity, WriterInv, ReaderInv
<1>4. \A m \in Int : m # n /\ m < n + Size /\ n < m + Size
                   => sequence'[Slot(m)] = sequence[Slot(m)]
  BY <1>0, <1>2, SlotsDiffer, SlotType
<1>5. sequence[i] \in {n, n + 1} /\ sequence[i] < seq
  BY <1>0 DEF RingInv, WriterInv, ReaderInv
<1>6. \A j \in Slots : sequence'[j] >= sequence[j]
  BY <1>0, <1>2, <1>5
<1>7. \A u \in Threads : InSlot(u)' =>
        /\ u # t /\ InSlot(u) /\ Slot(pos[u]) # i
        /\ sequence'[Slot(pos[u])] = sequence[Slot(pos[u])]
  <2> SUFFICES ASSUME NEW u \in Threads, u # t, InSlot(u)
               PROVE  Slot(pos[u]) # i /\ sequence'[Slot(pos[u])] = sequence[Slot(pos[u])]
    BY <1>1
  <2>1. Slot(pos[u]) # i
    BY OwnersApart
  <2>2. Slot(pos[u]) \in Slots
    BY <1>0, SlotType
  <2> QED
    BY <2>1, <2>2, <1>0, <1>2
<1>8. WithinCapacity' /\ OwnersDiffer'
  BY <1>7 DEF RingInv, WithinCapacity, OwnersDiffer
<1>9. WriterInv' /\ ReaderInv'
  BY <1>0, <1>7 DEF RingInv, WriterInv, ReaderInv
<1>10. QueuedInv'
  <2> SUFFICES ASSUME NEW m \in read_idx .. write_idx - 1
               PROVE  \/ sequence'[Slot(m)] = m + 1
                      \/ sequence'[Slot(m)] = m /\ \E q \in Producers : Owns(q, m)'
    BY <1>0 DEF QueuedInv
  <2>1. CASE m = n
    <3>1. t \in Producers
      BY <2>1, <1>0 DEF RingInv, ReaderInv
    <3> QED
      BY <2>1, <3>1, <1>0, <1>2
  <2>2. CASE m # n
    <3>1. sequence'[Slot(m)] = sequence[Slot(m)]
      BY <2>2, <1>0, <1>3, <1>4
    <3>2. \A q \in Producers : Owns(q, m) => Owns(q, m)'
      BY <2>2, <1>0, <1>1 DEF Owns
    <3> QED
      BY <3>1, <3>2 DEF RingInv, QueuedInv
  <2> QED
    BY <2>1, <2>2
<1>11. FreeInv'
  <2> SUFFICES ASSUME NEW m \in write_idx .. read_idx + Size - 1
               PROVE  \/ sequence'[Slot(m)] = m
                      \/ /\ sequence'[Slot(m)] = m - Size + 1
                         /\ \E c \in Consumers : Owns(c, m - Size)'
    BY <1>0 DEF FreeInv
  <2>1. CASE m = n + Size
    <3>1. t \in Consumers
      BY <2>1, <1>0 DEF RingInv, WriterInv
    <3>2. Slot(m) = i
      BY <2>1, <1>0, SlotShift
    <3> QED
      BY <2>1, <3>1, <3>2, <1>0, <1>2
  <2>2. CASE m # n + Size
    <3>1. sequence'[Slot(m)] = sequence[Slot(m)]
      <4>1. m # n /\ n < m + Size
        BY <1>0, <1>3
      <4>2. CASE m < n + Size
        BY <4>1, <4>2, <1>4
      <4>3. CASE m > n + Size
        <5>1. m - Size \in Int /\ Slot(m - Size) = Slot(m)
          <6>1. m - Size \in Int /\ (m - Size) + Size = m
            BY <1>0
          <6> QED
            BY <6>1, SlotShift
        <5>2. m - Size # n /\ m - Size < n + Size /\ n < (m - Size) + Size
          <6>1. read_idx <= n + Size
            BY <1>0, <1>3
          <6>2. m - Size < read_idx
            BY <1>0
          <6>3. read_idx <= n \/ n < read_idx
            BY <1>0
          <6> QED
            BY <1>0, <1>3, <4>3, <6>1, <6>2
        <5> QED
          BY <5>1, <5>2, <1>4
      <4> QED
        BY <4>2, <4>3, <2>2, <1>0
    <3>2. \A c \in Consumers : Owns(c, m - Size) => Owns(c, m - Size)'
      BY <2>2, <1>0, <1>1 DEF Owns
    <3> QED
      BY <3>1, <3>2 DEF RingInv, FreeInv
  <2> QED
    BY <2>1, <2>2
<1>12. LoadedInv'
  <2>1. \A u \in Threads : sequence'[Slot(pos[u])] >= sequence[Slot(pos[u])]
    BY <1>0, <1>6, SlotType
  <2>2. \A u \in Threads : pc'[u] \in {"push_cas", "pop_cas"} => pc'[u] = pc[u]
    BY <1>0
  <2>3. \A u \in Threads : /\ Slot(pos[u]) \in Slots
                          /\ sequence[Slot(pos[u])] \in Nat /\ sequence'[Slot(pos[u])] \in Nat
    BY <1>0, <1>2, SlotType
  <2> QED
    BY <2>1, <2>2, <2>3, <1>0 DEF RingInv, LoadedInv
<1>13. OrderInv'
  <2>1. \A u \in Threads : InSlot(u)' => Slot(pos'[u]) \in order'[u]
    BY <1>7 DEF RingInv, OrderInv
  <2>2. \A u \in Threads : pc'[u] \in {"push_cas", "pop_cas"} => u # t /\ pc'[u] = pc[u]
    BY <1>0
  <2>3. ASSUME NEW p \in Producers, pc'[p] = "push_cas", pos'[p] = write_idx',
               sequence'[Slot(pos'[p])] = pos'[p]
        PROVE  Slot(pos'[p]) \in order'[p]
    <3>1. pc[p] = "push_cas" /\ pos[p] = write_idx /\ sequence[Slot(pos[p])] >= pos[p]
      BY <2>2, <2>3, <1>0 DEF RingInv, LoadedInv
    <3>2. Slot(pos[p]) # i
      <4>1. CASE Slot(pos[p]) = i
        <5>1. seq = pos[p]
          BY <4>1, <2>3, <1>0, <1>2
        <5>2. sequence[i] < pos[p]
          BY <5>1, <1>5
        <5> QED
          BY <5>2, <3>1, <4>1, <1>0
      <4> QED
        BY <4>1
    <3> QED
      BY <2>3, <3>1, <3>2, <1>0, <1>2, SlotType DEF RingInv, OrderInv
  <2>4. ASSUME NEW c \in Consumers, pc'[c] = "pop_cas", pos'[c] = read_idx',
               sequence'[Slot(pos'[c])] = pos'[c] + 1
        PROVE  Slot(pos'[c]) \in order'[c]
    <3>1. pc[c] = "pop_cas" /\ pos[c] = read_idx /\ sequence[Slot(pos[c])] >= pos[c] + 1
      BY <2>2, <2>4, <1>0 DEF RingInv, LoadedInv
    <3>2. Slot(pos[c]) # i
      <4>1. CASE Slot(pos[c]) = i
        <5>1. seq = pos[c] + 1
          BY <4>1, <2>4, <1>0, <1>2
        <5>2. sequence[i] < pos[c] + 1
          BY <5>1, <1>5
        <5> QED
          BY <5>2, <3>1, <4>1, <1>0
      <4> QED
        BY <4>1
    <3> QED
      BY <2>4, <3>1, <3>2, <1>0, <1>2, SlotType DEF RingInv, OrderInv
  <2>5. ASSUME NEW j \in Slots
        PROVE  \/ \E u \in Threads : InSlot(u)' /\ Slot(pos'[u]) = j
               \/ j \in carried'[j]
               \/ \A u \in Threads : j \in order'[u]
    <3>1. CASE j = i
      <4>1. i \in order[t]
        BY DEF RingInv, OrderInv
      <4> QED
        BY <3>1, <4>1, <1>0, <1>2
    <3>2. CASE j # i
      BY <3>2, <1>0, <1>1, <1>2 DEF RingInv, OrderInv
    <3> QED
      BY <3>1, <3>2
  <2> QED
    BY <2>1, <2>3, <2>4, <2>5 DEF OrderInv, Slot
<1> QED
  BY <1>8, <1>9, <1>10, <1>11, <1>12, <1>13 DEF RingInv

(* A load of an index sees at most its latest value. *)
LEMMA LoadPosQuiet ==
  ASSUME TypeInv, NEW t \in Threads, NEW from, NEW to, NEW idx \in Nat, pos[t] <= idx,
         LoadPos(t, from, to, idx)
  PROVE  /\ pos'[t] <= idx
         /\ \A u \in Threads : u # t => pc'[u] = pc[u] /\ pos'[u] = pos[u] /\ order'[u] = order[u]
         /\ order' = order /\ UNCHANGED queue
         /\ pc[t] = from /\ pc'[t] = to
  BY DEF LoadPos, Loads, Goto, TypeInv, TypeOK

(* An acquire load only adds to the order of the thread. *)
LEMMA AcquireQuiet ==
  ASSUME TypeInv, NEW t \in Threads, NEW S, Acquire(t, S)
  PROVE  /\ \A u \in Threads : u # t => order'[u] = order[u]
         /\ order[t] \subseteq order'[t]
         /\ \E s \in S :
              /\ s <= sequence[Slot(pos[t])]
              /\ s = sequence[Slot(pos[t])] =>
                   order'[t] = order[t] \cup carried[Slot(pos[t])]
<1>1. sequence[Slot(pos[t])] \in Nat
  BY SlotType DEF TypeInv, TypeOK
<1> QED
  BY <1>1 DEF Acquire, History, TypeInv, TypeOK

(* The ready slot of the next position to be claimed: nobody is inside, so    *)
(* that either the thread acquires it or was ordered after all along.        *)
LEMMA PushReadyStep ==
  ASSUME TypeInv, RingInv, Size > 1, NEW p \in Producers, PushReady(p)
  PROVE  RingInv'
<1> DEFINE i == Slot(pos[p])
<1>0. /\ pos \in [Threads -> Nat] /\ write_idx \in Nat /\ read_idx \in Nat
      /\ Size \in Nat \ {0} /\ i \in Slots /\ sequence \in [Slots -> Nat]
      /\ p \in Threads /\ p \notin Consumers
  BY SlotType, SizeAssumption, ThreadsAssumption DEF TypeInv, TypeOK, Threads
<1>1. /\ ~InSlot(p) /\ ~InSlot(p)' /\ pc'[p] = "push_cas"
      /\ \A u \in Threads : u # p => pc'[u] = pc[u] /\ pos'[u] = pos[u] /\ order'[u] = order[u]
      /\ order[p] \subseteq order'[p] /\ UNCHANGED queue /\ pos' = pos
  BY <1>0, AcquireQuiet DEF PushReady, Goto, InSlot, TypeInv, TypeOK
<1>2. sequence[i] >= pos[p] /\ (sequence[i] = pos[p] => order'[p] = order[p] \cup carried[i])
  <2>1. PICK S : S = {pos[p]} /\ Acquire(p, S)
    BY DEF PushReady
  <2>2. \E s \in S : s <= sequence[i] /\ (s = sequence[i] => order'[p] = order[p] \cup carried[i])
    BY <2>1, <1>0, AcquireQuiet
  <2> QED
    BY <2>1, <2>2, <1>0
<1>3. ASSUME pos[p] = write_idx, sequence[i] = pos[p] PROVE i \in order'[p]
  <2>1. ASSUME NEW t \in Threads, InSlot(t) PROVE Slot(pos[t]) # i
    <3>1. CASE t \in Producers
      BY <1>3, <2>1, <3>1, <1>0 DEF RingInv, WriterInv
    <3>2. CASE t \in Consumers
      <4>1. /\ write_idx <= pos[t] + Size /\ pos[t] < read_idx
            /\ read_idx <= write_idx /\ sequence[Slot(pos[t])] = pos[t] + 1
        BY <2>1, <3>2 DEF RingInv, ReaderInv, WithinCapacity
      <4> QED
        BY <1>3, <2>1, <4>1, <1>0, SlotsDiffer
    <3> QED
      BY <3>1, <3>2 DEF Threads
  <2>2. i \in carried[i] \/ i \in order[p]
    BY <2>1, <1>0 DEF RingInv, OrderInv
  <2> QED
    BY <2>2, <1>2, <1>3
<1>4. pos[p] <= write_idx
  BY DEF RingInv, LoadedInv
<1> QED
  BY <1>0, <1>1, <1>2, <1>3, <1>4, QuietStep

(* A consumer finds its slot published: as for the push before. *)
LEMMA PopReadyStep ==
  ASSUME TypeInv, RingInv, Size > 1, NEW c \in Consumers, PopReady(c)
  PROVE  RingInv'
<1> DEFINE i == Slot(pos[c])
<1>0. /\ pos \in [Threads -> Nat] /\ write_idx \in Nat /\ read_idx \in Nat
      /\ Size \in Nat \ {0} /\ i \in Slots /\ sequence \in [Slots -> Nat]
      /\ c \in Threads /\ c \notin Producers
  BY SlotType, SizeAssumption, ThreadsAssumption DEF TypeInv, TypeOK, Threads
<1>1. /\ ~InSlot(c) /\ ~InSlot(c)' /\ pc'[c] = "pop_cas"
      /\ \A u \in Threads : u # c => pc'[u] = pc[u] /\ pos'[u] = pos[u] /\ order'[u] = order[u]
      /\ order[c] \subseteq order'[c] /\ UNCHANGED queue /\ pos' = pos
  BY <1>0, AcquireQuiet DEF PopReady, Goto, InSlot, TypeInv, TypeOK
<1>2. /\ sequence[i] >= pos[c] + 1
      /\ sequence[i] = pos[c] + 1 => order'[c] = order[c] \cup carried[i]
  <2>1. PICK S : S = {pos[c] + 1} /\ Acquire(c, S)
    BY DEF PopReady
  <2>2. \E s \in S : s <= sequence[i] /\ (s = sequence[i] => order'[c] = order[c] \cup carried[i])
    BY <2>1, <1>0, AcquireQuiet
  <2> QED
    BY <2>1, <2>2, <1>0
<1>3. ASSUME pos[c] = read_idx, sequence[i] = pos[c] + 1 PROVE i \in order'[c]
  <2>1. ASSUME NEW t \in Threads, InSlot(t) PROVE Slot(pos[t]) # i
    <3>1. CASE t \in Producers
      <4>1. /\ read_idx <= pos[t] /\ pos[t] < write_idx
            /\ write_idx <= read_idx + Size /\ sequence[Slot(pos[t])] = pos[t]
        BY <2>1, <3>1 DEF RingInv, WriterInv, WithinCapacity
      <4> QED
        BY <1>3, <2>1, <4>1, <1>0, SlotsDiffer
    <3>2. CASE t \in Consumers
      BY <1>3, <2>1, <3>2, <1>0 DEF RingInv, ReaderInv
    <3> QED
      BY <3>1, <3>2 DEF Threads
  <2>2. i \in carried[i] \/ i \in order[c]
    BY <2>1, <1>0 DEF RingInv, OrderInv
  <2> QED
    BY <2>2, <1>2, <1>3
<1>4. pos[c] <= read_idx
  BY DEF RingInv, LoadedInv
<1> QED
  BY <1>0, <1>1, <1>2, <1>3, <1>4, QuietStep

(* Every step of a push, and of a pop, keeps the ring's invariant. *)
LEMMA PushRing ==
  ASSUME TypeInv, RingInv, Size > 1, NEW p \in Producers, Push(p)
  PROVE  RingInv'
<1>0. /\ p \in Threads /\ p \notin Consumers /\ pos[p] <= write_idx
      /\ write_idx \in Nat /\ pos[p] \in Nat
  BY ThreadsAssumption DEF Threads, RingInv, LoadedInv, TypeInv, TypeOK
<1>1. CASE PushCall(p) \/ PushReload(p) \/ PushClaimFails(p)
  <2>1. PICK from \in {"idle", "push_reload", "push_cas"} :
          LoadPos(p, from, "push_seq", write_idx)
    BY <1>1 DEF PushCall, PushReload, PushClaimFails
  <2> QED
    BY <2>1, <1>0, LoadPosQuiet, QuietStep DEF InSlot
<1>2. CASE PushFull(p) \/ PushLostRace(p)
  <2>1. PICK S : Acquire(p, S)
    BY <1>2 DEF PushFull, PushLostRace
  <2>2. /\ ~InSlot(p) /\ ~InSlot(p)' /\ pc'[p] # "push_cas" /\ pos' = pos /\ UNCHANGED queue
        /\ \A u \in Threads : u # p => pc'[u] = pc[u]
    BY <1>2, <1>0 DEF PushFull, PushLostRace, Goto, InSlot, TypeInv, TypeOK
  <2> QED
    BY <2>1, <2>2, <1>0, AcquireQuiet, QuietStep
<1>3. CASE PushReady(p)
  BY <1>3, PushReadyStep
<1>4. CASE PushClaim(p)
  BY <1>4, PushClaimStep
<1>5. CASE PushWrite(p)
  BY <1>5, <1>0, AccessStep DEF PushWrite, Goto, InSlot, TypeInv, TypeOK
<1>6. CASE PushPublish(p)
  <2>1. pos[p] + 1 \in Nat
    BY <1>0
  <2> QED
    BY <1>6, <2>1, <1>0, ReleaseStep DEF PushPublish, Goto, InSlot
<1> QED
  BY <1>1, <1>2, <1>3, <1>4, <1>5, <1>6 DEF Push

(* Every step of a pop keeps the invariant of the ring. *)
LEMMA PopRing ==
  ASSUME TypeInv, RingInv, Size > 1, NEW c \in Consumers, Pop(c)
  PROVE  RingInv'
<1>0. /\ c \in Threads /\ c \notin Producers /\ pos[c] <= read_idx
      /\ read_idx \in Nat /\ pos[c] \in Nat
  BY ThreadsAssumption DEF Threads, RingInv, LoadedInv, TypeInv, TypeOK
<1>1. CASE PopCall(c) \/ PopReload(c) \/ PopClaimFails(c)
  <2>1. PICK from \in {"idle", "pop_reload", "pop_cas"} :
          LoadPos(c, from, "pop_seq", read_idx)
    BY <1>1 DEF PopCall, PopReload, PopClaimFails
  <2> QED
    BY <2>1, <1>0, LoadPosQuiet, QuietStep DEF InSlot
<1>2. CASE PopEmpty(c) \/ PopLostRace(c)
  <2>1. PICK S : Acquire(c, S)
    BY <1>2 DEF PopEmpty, PopLostRace
  <2>2. /\ ~InSlot(c) /\ ~InSlot(c)' /\ pc'[c] # "pop_cas" /\ pos' = pos /\ UNCHANGED queue
        /\ \A u \in Threads : u # c => pc'[u] = pc[u]
    BY <1>2, <1>0 DEF PopEmpty, PopLostRace, Goto, InSlot, TypeInv, TypeOK
  <2> QED
    BY <2>1, <2>2, <1>0, AcquireQuiet, QuietStep
<1>3. CASE PopReady(c)
  BY <1>3, PopReadyStep
<1>4. CASE PopClaim(c)
  BY <1>4, PopClaimStep
<1>5. CASE PopRead(c)
  BY <1>5, <1>0, AccessStep DEF PopRead, Goto, InSlot, TypeInv, TypeOK
<1>6. CASE PopRelease(c)
  <2>1. pos[c] + Size \in Nat
    BY <1>0, SizeAssumption
  <2> QED
    BY <1>6, <2>1, <1>0, ReleaseStep DEF PopRelease, Goto, InSlot
<1> QED
  BY <1>1, <1>2, <1>3, <1>4, <1>5, <1>6 DEF Pop

(* A step that changes nothing keeps the invariant of the ring. *)
LEMMA RingStutter == TypeInv /\ RingInv /\ UNCHANGED vars => RingInv'
  BY DEF RingInv, WithinCapacity, WriterInv, ReaderInv, QueuedInv, FreeInv, Owns, InSlot,
         OwnersDiffer, LoadedInv, OrderInv, vars

(* The sequence numbers say of every slot of a ring of two or more whose turn *)
(* it is, for any number of producers and consumers, under both memory       *)
(* models (vyukov.hpp:53-57, 86-89).                                         *)
THEOREM RingCorrect == ASSUME Size > 1 PROVE Spec => []RingInv
<1>1. Init => RingInv
  BY RingInit
<1>2. TypeInv /\ RingInv /\ [Next]_vars => RingInv'
  BY PushRing, PopRing, RingStutter DEF Next, Joined
<1> QED
  BY <1>1, <1>2, TypeInvariant, PTL DEF Spec

(* No two threads are ever inside the same slot. *)
THEOREM SlotsExclusive == ASSUME Size > 1 PROVE Spec => []SlotExclusive
<1>1. TypeInv /\ RingInv => SlotExclusive
  BY OwnersApart DEF SlotExclusive
<1> QED
  BY <1>1, RingCorrect, TypeInvariant, PTL

(* The accesses to the plain ints never race: the acquire load and the        *)
(* release store of a slot's sequence order each after the one before it.    *)
THEOREM NoDataRace == ASSUME Size > 1 PROVE Spec => []RaceFree
<1>1. RingInv => RaceFree
  BY DEF RingInv, OrderInv, RaceFree, InSlot
<1> QED
  BY <1>1, RingCorrect, PTL

(* The queue never holds more values than it has slots, nor fewer than none. *)
THEOREM CapacityKept == ASSUME Size > 1 PROVE Spec => []WithinCapacity
<1>1. RingInv => WithinCapacity
  BY DEF RingInv
<1> QED
  BY <1>1, RingCorrect, PTL

-----------------------------------------------------------------------------
(***************************************************************************)
(* When push and pop return false.                                          *)
(***************************************************************************)
(* The Size positions from r on take up every slot. *)
LEMMA SlotInWindow ==
  ASSUME NEW r \in Nat, NEW i \in Slots
  PROVE  \E m \in r .. r + Size - 1 : Slot(m) = i
<1> DEFINE k == Slot(r)
           d == r \div Size
<1>0. Size \in Nat \ {0} /\ i \in 0 .. Size - 1
  BY SizeAssumption DEF Slots
<1>1. d \in Int /\ r = Size * d + k
  BY <1>0, DivMod DEF Slot
<1>2. k \in 0 .. Size - 1
  BY <1>0, ModRange DEF Slot
<1>3. Size * (d + 1) = Size * d + Size /\ Size * d \in Int
  BY <1>0, <1>1, MulSucc
<1> HIDE DEF k, d
<1>4. CASE k <= i
  <2>1. Size * d + i \in r .. r + Size - 1
    BY <1>0, <1>1, <1>2, <1>3, <1>4
  <2>2. (Size * d + i) % Size = i
    BY <1>0, <1>1, <1>3, ModUnique
  <2> QED
    BY <2>1, <2>2 DEF Slot
<1>5. CASE i < k
  <2>1. Size * (d + 1) + i \in r .. r + Size - 1
    BY <1>0, <1>1, <1>2, <1>3, <1>5
  <2>2. (Size * (d + 1) + i) % Size = i
    <3>1. d + 1 \in Int /\ Size * (d + 1) + i \in Int
      BY <1>0, <1>1, <1>3
    <3> QED
      BY <1>0, <3>1, ModUnique
  <2> QED
    BY <2>1, <2>2 DEF Slot
<1> QED
  BY <1>0, <1>2, <1>4, <1>5

(* A slot whose position was claimed, however long ago, has a sequence that    *)
(* says so: a push with a stale position is not told that the queue is full. *)
LEMMA SequenceOfClaimed ==
  ASSUME TypeInv, RingInv, NEW n \in Nat
  PROVE  /\ n < write_idx => sequence[Slot(n)] >= n
         /\ n < read_idx => sequence[Slot(n)] >= n + 1
<1>0. /\ write_idx \in Nat /\ read_idx \in Nat /\ Size \in Nat \ {0}
      /\ Slot(n) \in Slots /\ sequence[Slot(n)] \in Nat
      /\ read_idx <= write_idx /\ write_idx <= read_idx + Size
  BY SlotType, SizeAssumption DEF TypeInv, TypeOK, RingInv, WithinCapacity
<1>1. CASE read_idx <= n /\ n < write_idx
  <2>1. n \in read_idx .. write_idx - 1
    BY <1>0, <1>1
  <2> QED
    BY <2>1, <1>0, <1>1 DEF RingInv, QueuedInv
<1>2. CASE n < read_idx
  <2>1. PICK m \in read_idx .. read_idx + Size - 1 : Slot(m) = Slot(n)
    BY <1>0, SlotInWindow
  <2>2. m \in Int /\ n < m
    BY <2>1, <1>0, <1>2
  <2>3. m >= n + Size
    BY <2>1, <2>2, <1>0, SlotsDiffer
  <2>4. CASE m < write_idx
    <3>1. m \in read_idx .. write_idx - 1
      BY <2>1, <2>4, <1>0
    <3> QED
      BY <3>1, <2>1, <2>2, <2>3, <1>0 DEF RingInv, QueuedInv
  <2>5. CASE m >= write_idx
    <3>1. m \in write_idx .. read_idx + Size - 1
      BY <2>1, <2>5, <1>0
    <3> QED
      BY <3>1, <2>1, <2>2, <2>3, <1>0 DEF RingInv, FreeInv
  <2> QED
    BY <2>4, <2>5, <2>2, <1>0
<1> QED
  BY <1>0, <1>1, <1>2

(* A push is told that its slot is not free for it: then the slot is that of   *)
(* write_idx, and holds the oldest value or one that is being read.          *)
LEMMA PushFullMeans ==
  ASSUME TypeInv, RingInv, ~Stale, NEW p \in Producers, PushFull(p)
  PROVE  \/ write_idx = read_idx + Size
         \/ \E c \in Consumers : pc[c] \in {"pop_read", "pop_release"}
                                 /\ pos[c] + Size = write_idx
<1> DEFINE i == Slot(pos[p])
<1>0. /\ p \in Threads /\ pos[p] \in Nat /\ pos[p] <= write_idx
      /\ write_idx \in Nat /\ read_idx \in Nat /\ Size \in Nat \ {0}
      /\ i \in Slots /\ sequence[i] \in Nat
      /\ write_idx <= read_idx + Size
  BY SlotType, SizeAssumption
     DEF TypeInv, TypeOK, Threads, RingInv, LoadedInv, WithinCapacity
<1>1. sequence[i] < pos[p]
  BY <1>0 DEF PushFull, Acquire
<1>2. pos[p] = write_idx
  BY <1>0, <1>1, SequenceOfClaimed
<1>3. CASE write_idx < read_idx + Size
  <2>1. write_idx \in write_idx .. read_idx + Size - 1
    BY <1>0, <1>3
  <2>2. PICK c \in Consumers : Owns(c, write_idx - Size)
    BY <2>1, <1>0, <1>1, <1>2 DEF RingInv, FreeInv
  <2>3. pc[c] \in {"pop_read", "pop_release"} /\ pos[c] = write_idx - Size
    <3>1. pc[c] \in {"idle"} \cup PopPCs
      BY DEF TypeInv, TypeOK
    <3> QED
      BY <2>2, <3>1 DEF Owns, InSlot, PopPCs
  <2>4. pos[c] + Size = write_idx
    BY <2>3, <1>0
  <2> QED
    BY <2>3, <2>4
<1> QED
  BY <1>0, <1>3

(* A pop is told that its slot is not filled for it: the same for read_idx. *)
LEMMA PopEmptyMeans ==
  ASSUME TypeInv, RingInv, ~Stale, NEW c \in Consumers, PopEmpty(c)
  PROVE  \/ write_idx = read_idx
         \/ \E p \in Producers : pc[p] \in {"push_write", "push_publish"}
                                 /\ pos[p] = read_idx
<1> DEFINE i == Slot(pos[c])
<1>0. /\ c \in Threads /\ pos[c] \in Nat /\ pos[c] <= read_idx
      /\ write_idx \in Nat /\ read_idx \in Nat /\ Size \in Nat \ {0}
      /\ i \in Slots /\ sequence[i] \in Nat
      /\ read_idx <= write_idx
  BY SlotType, SizeAssumption
     DEF TypeInv, TypeOK, Threads, RingInv, LoadedInv, WithinCapacity
<1>1. sequence[i] < pos[c] + 1
  BY <1>0 DEF PopEmpty, Acquire
<1>2. pos[c] = read_idx
  BY <1>0, <1>1, SequenceOfClaimed
<1>3. CASE read_idx < write_idx
  <2>1. read_idx \in read_idx .. write_idx - 1
    BY <1>0, <1>3
  <2>2. PICK p \in Producers : Owns(p, read_idx)
    BY <2>1, <1>0, <1>1, <1>2 DEF RingInv, QueuedInv
  <2>3. pc[p] \in {"push_write", "push_publish"} /\ pos[p] = read_idx
    <3>1. pc[p] \in {"idle"} \cup PushPCs
      BY DEF TypeInv, TypeOK
    <3> QED
      BY <2>2, <3>1 DEF Owns, InSlot, PushPCs
  <2> QED
    BY <2>3
<1> QED
  BY <1>0, <1>3

(* Only PushFull ends a push with false, and only PopEmpty a pop. *)
LEMMA Refusals ==
  ASSUME TypeInv, [Next]_vars, NEW t \in Threads
  PROVE  /\ t \in Producers /\ Refuses(t, "push_seq") => PushFull(t)
         /\ t \in Consumers /\ Refuses(t, "pop_seq") => PopEmpty(t)
<1>0. pc \in [Threads -> {"idle"} \cup PushPCs \cup PopPCs] /\ Producers \cap Consumers = {}
  BY ThreadsAssumption DEF TypeInv, TypeOK
<1>1. ASSUME NEW p \in Producers, Push(p), pc[t] \in {"push_seq", "pop_seq"}, pc'[t] = "idle"
      PROVE  t = p /\ PushFull(p)
  BY <1>0, <1>1 DEF Threads, Push, PushCall, PushReady, PushFull, PushLostRace, PushReload,
     PushClaim, PushClaimFails, PushWrite, PushPublish, LoadPos, Goto
<1>2. ASSUME NEW c \in Consumers, Pop(c), pc[t] \in {"push_seq", "pop_seq"}, pc'[t] = "idle"
      PROVE  t = c /\ PopEmpty(c)
  BY <1>0, <1>2 DEF Threads, Pop, PopCall, PopReady, PopEmpty, PopLostRace, PopReload,
     PopClaim, PopClaimFails, PopRead, PopRelease, LoadPos, Goto
<1>3. ASSUME UNCHANGED vars, pc[t] \in {"push_seq", "pop_seq"}, pc'[t] = "idle" PROVE FALSE
  BY <1>3 DEF vars
<1> QED
  BY <1>0, <1>1, <1>2, <1>3 DEF Next, Joined, Refuses

(* With loads that see the latest value, the result false can be relied on:   *)
(* push only returns it when the queue is full or waits for one consumer to   *)
(* leave the very slot, pop when it is empty or its producer is not done.     *)
THEOREM FalseReliable == ASSUME Size > 1, ~Stale PROVE Spec => FalseMeansFullOrEmpty
<1>1. ASSUME TypeInv, RingInv, [Next]_vars
      PROVE  /\ \A p \in Producers : Refuses(p, "push_seq") =>
                  \/ write_idx = read_idx + Size
                  \/ \E c \in Consumers : pc[c] \in {"pop_read", "pop_release"}
                                          /\ pos[c] + Size = write_idx
             /\ \A c \in Consumers : Refuses(c, "pop_seq") =>
                  \/ write_idx = read_idx
                  \/ \E p \in Producers : pc[p] \in {"push_write", "push_publish"}
                                          /\ pos[p] = read_idx
  BY <1>1, Refusals, PushFullMeans, PopEmptyMeans DEF Threads
<1> QED
  BY <1>1, TypeInvariant, RingCorrect, PTL
     DEF Spec, FalseMeansFullOrEmpty, FalseMeansFull, FalseMeansEmpty

-----------------------------------------------------------------------------
(***************************************************************************)
(* The ring is a first-in first-out queue.                                  *)
(***************************************************************************)
(* A sequence that is one longer is one with a value appended ... *)
LEMMA GrownByOne ==
  ASSUME NEW S, NEW s \in Seq(S), NEW v \in S, NEW t \in Seq(S), Len(t) = Len(s) + 1,
         \A k \in 1 .. Len(s) : t[k] = s[k], t[Len(s) + 1] = v
  PROVE  t = Append(s, v)
<1>1. /\ Append(s, v) \in Seq(S) /\ Len(Append(s, v)) = Len(s) + 1
      /\ \A k \in 1 .. Len(s) : Append(s, v)[k] = s[k]
      /\ Append(s, v)[Len(s) + 1] = v
  BY AppendProperties
<1>2. Len(s) \in Nat
  BY LenProperties
<1>3. \A k \in 1 .. Len(t) : t[k] = Append(s, v)[k]
  BY <1>1, <1>2
<1> QED
  BY <1>1, <1>3, SeqEqual

(* ... and one that is one shorter and moved up is its tail. *)
LEMMA ShrunkByOne ==
  ASSUME NEW S, NEW s \in Seq(S), NEW t \in Seq(S), Len(s) = Len(t) + 1,
         \A k \in 1 .. Len(t) : t[k] = s[k + 1]
  PROVE  s # <<>> /\ t = Tail(s) /\ Head(s) = s[1]
<1>1. Len(t) \in Nat
  BY LenProperties
<1>2. s # <<>>
  BY <1>1, EmptySeq
<1>3. /\ Tail(s) \in Seq(S) /\ Len(Tail(s)) = Len(s) - 1
      /\ \A k \in 1 .. Len(Tail(s)) : Tail(s)[k] = s[k + 1]
  BY <1>2, HeadTailProperties
<1>4. t = Tail(s)
  BY <1>1, <1>3, SeqEqual
<1> QED
  BY <1>2, <1>4

(* A value that is written is in its slot when its sequence is stored. *)
WrittenInv ==
  \A p \in Producers : pc[p] = "push_publish" => value[Slot(pos[p])] = Arg(p)

FifoInv == TypeInv /\ RingInv /\ WrittenInv

(* The value of a position is the argument of the push that owns it, or else   *)
(* what its slot holds.                                                      *)
Valued ==
  \A n \in Int :
    /\ \A p \in Writing(n) : ValueAt(n) = Arg(p)
    /\ Writing(n) = {} => ValueAt(n) = value[Slot(n)]
    /\ ValueAt(n) \in Value \cup {None}

(* At most one producer is writing the value of a position. *)
LEMMA ValuesOfPositions == TypeInv /\ RingInv => Valued
<1> SUFFICES ASSUME TypeInv, RingInv, NEW n \in Int
             PROVE  /\ \A p \in Writing(n) : ValueAt(n) = Arg(p)
                    /\ Writing(n) = {} => ValueAt(n) = value[Slot(n)]
                    /\ ValueAt(n) \in Value \cup {None}
  BY DEF Valued
<1>1. ASSUME NEW p \in Writing(n) PROVE ValueAt(n) = Arg(p) /\ Arg(p) \in Value
  <2>1. \A q \in Writing(n) : q = p
    BY DEF Writing, RingInv, OwnersDiffer, InSlot, Threads
  <2>2. (CHOOSE q \in Writing(n) : TRUE) = p
    BY <2>1
  <2>3. Writing(n) # {}
    OBVIOUS
  <2>4. p \in Producers /\ done[p] \in Nat /\ done[p] < Iterations
    BY DEF Writing, TypeInv, TypeOK, InCall, Threads
  <2>5. Arg(p) \in Value
    BY <2>4, ThreadsAssumption DEF Arg, Value
  <2> QED
    BY <2>2, <2>3, <2>5 DEF ValueAt
<1>2. CASE Writing(n) = {}
  <2>1. Slot(n) \in Slots
    BY SlotType
  <2> QED
    BY <1>2, <2>1 DEF ValueAt, TypeInv, TypeOK
<1> QED
  BY <1>1, <1>2

(* The same after a step that keeps the invariants. *)
LEMMA ValuesOfPositionsNext == (TypeInv /\ RingInv)' => Valued'
  BY ValuesOfPositions, PTL

(* The window of queued positions is a sequence of values. *)
Windowed ==
  /\ Items \in Seq(Value \cup {None})
  /\ Len(Items) = write_idx - read_idx
  /\ \A n \in read_idx .. write_idx - 1 : Items[n - read_idx + 1] = ValueAt(n)

(* The abstract queue is the window of positions between the two indices. *)
LEMMA ItemsWindow == TypeInv /\ RingInv => Windowed
<1> SUFFICES ASSUME TypeInv, RingInv PROVE Windowed
  OBVIOUS
<1>1. write_idx \in Nat /\ read_idx \in Nat /\ write_idx - read_idx \in Nat
  BY DEF TypeInv, TypeOK, RingInv, WithinCapacity
<1>2. \A k \in 1 .. write_idx - read_idx : ValueAt(read_idx + k - 1) \in Value \cup {None}
  BY <1>1, ValuesOfPositions DEF Valued
<1>3. Items \in [1 .. write_idx - read_idx -> Value \cup {None}]
  BY <1>2 DEF Items
<1>4. Items \in Seq(Value \cup {None})
  BY <1>1, <1>3, SeqDef
<1>5. Len(Items) = write_idx - read_idx
  BY <1>1, <1>3, <1>4, LenProperties
<1>6. ASSUME NEW n \in read_idx .. write_idx - 1 PROVE Items[n - read_idx + 1] = ValueAt(n)
  <2>1. n - read_idx + 1 \in 1 .. write_idx - read_idx /\ read_idx + (n - read_idx + 1) - 1 = n
    BY <1>1
  <2> QED
    BY <2>1 DEF Items
<1> QED
  BY <1>4, <1>5, <1>6 DEF Windowed

(* The same after a step that keeps the invariants. *)
LEMMA ItemsWindowNext == (TypeInv /\ RingInv)' => Windowed'
  BY ItemsWindow, PTL

(* A new ring is an empty queue, and nothing is written. *)
LEMMA FifoInit == Init => FifoInv /\ Queue!Init
<1> SUFFICES ASSUME Init PROVE WrittenInv /\ Items = <<>> /\ Hand = [c \in Consumers |-> None]
  BY InitType, RingInit DEF FifoInv, Queue!Init
<1>1. WrittenInv
  BY DEF Init, WrittenInv, Threads
<1>2. Items = <<>>
  <2>1. write_idx - read_idx = 0
    BY DEF Init
  <2>2. Items \in Seq(Value \cup {None}) /\ Len(Items) = 0
    BY <2>1, InitType, RingInit, ItemsWindow DEF Windowed
  <2> QED
    BY <2>2, EmptySeq
<1>3. Hand = [c \in Consumers |-> None]
  BY DEF Init, Hand, Threads
<1> QED
  BY <1>1, <1>2, <1>3

-----------------------------------------------------------------------------
(* A step that neither claims a position nor changes the value of one is no    *)
(* step of the queue.                                                        *)
LEMMA ItemsKept ==
  ASSUME TypeInv, RingInv, TypeInv', RingInv',
         UNCHANGED <<write_idx, read_idx>>,
         \A n \in read_idx .. write_idx - 1 : ValueAt(n)' = ValueAt(n)
  PROVE  Items' = Items
<1>1. write_idx \in Nat /\ read_idx \in Nat
  BY DEF TypeInv, TypeOK
<1>2. \A n \in read_idx .. write_idx - 1 : Items'[n - read_idx + 1] = Items[n - read_idx + 1]
  BY ItemsWindow, ItemsWindowNext DEF Windowed
<1>3. ASSUME NEW k \in 1 .. write_idx - read_idx PROVE Items'[k] = Items[k]
  <2>1. read_idx + k - 1 \in read_idx .. write_idx - 1 /\ (read_idx + k - 1) - read_idx + 1 = k
    BY <1>1
  <2> QED
    BY <1>2, <2>1
<1> QED
  BY <1>3, ItemsWindow, ItemsWindowNext, SeqEqual DEF Windowed

(* The value of a position stays the same with its writer, or with its slot. *)
LEMMA ValueKept ==
  ASSUME TypeInv, RingInv, TypeInv', RingInv', NEW n \in Int, Writing(n)' = Writing(n),
         \A p \in Writing(n) : Arg(p)' = Arg(p),
         Writing(n) = {} => value'[Slot(n)] = value[Slot(n)]
  PROVE  ValueAt(n)' = ValueAt(n)
<1>1. CASE Writing(n) = {}
  BY <1>1 DEF ValueAt, Slot
<1>2. ASSUME NEW p \in Writing(n) PROVE ValueAt(n)' = ValueAt(n)
  <2>1. ValueAt(n) = Arg(p)
    BY ValuesOfPositions DEF Valued
  <2>2. ValueAt(n)' = Arg(p)'
    BY ValuesOfPositionsNext DEF Valued
  <2> QED
    BY <2>1, <2>2
<1> QED
  BY <1>1, <1>2

(* The steps of a thread that is in no slot, before and after. *)
LEMMA OutsideKeepsItems ==
  ASSUME TypeInv, RingInv, TypeInv', RingInv', WrittenInv, NEW t \in Threads,
         UNCHANGED <<queue, done, val>>, ~InSlot(t), ~InSlot(t)',
         \A u \in Threads : u # t => pc'[u] = pc[u] /\ pos'[u] = pos[u]
  PROVE  WrittenInv' /\ Items' = Items /\ Hand' = Hand
<1>1. /\ value' = value /\ write_idx' = write_idx /\ read_idx' = read_idx
  BY DEF queue
<1>2. \A n \in Int : Writing(n)' = Writing(n)
  BY DEF Writing, InSlot, Threads
<1>3. \A n \in Int : ValueAt(n)' = ValueAt(n)
  BY <1>1, <1>2, ValueKept DEF Arg, Slot
<1>4. Items' = Items
  <2>1. \A n \in read_idx .. write_idx - 1 : n \in Int
    BY DEF TypeInv, TypeOK
  <2> QED
    BY <1>1, <1>3, <2>1, ItemsKept
<1>5. Hand' = Hand
  <2>1. \A c \in Consumers : pc'[c] = "pop_read" \/ pc[c] = "pop_read" =>
           pc'[c] = pc[c] /\ pos'[c] = pos[c]
    BY DEF InSlot, Threads
  <2>2. val' = val
    OBVIOUS
  <2> QED
    BY <1>1, <2>1, <2>2 DEF Hand
<1>6. WrittenInv'
  <2>1. \A p \in Producers : pc'[p] = "push_publish" => pc[p] = "push_publish" /\ pos'[p] = pos[p]
    BY DEF InSlot, Threads
  <2> QED
    BY <1>1, <2>1 DEF WrittenInv, Arg
<1> QED
  BY <1>4, <1>5, <1>6

(* A push that wins its swap puts its argument at the end of the queue. *)
LEMMA PushClaimEnqueues ==
  ASSUME TypeInv, RingInv, TypeInv', RingInv', WrittenInv, NEW p \in Producers, PushClaim(p)
  PROVE  WrittenInv' /\ Queue!Enqueue(Arg(p)) /\ Arg(p) \in Value
<1>0. /\ pos \in [Threads -> Nat] /\ pc \in [Threads -> {"idle"} \cup PushPCs \cup PopPCs]
      /\ write_idx \in Nat /\ read_idx \in Nat /\ Size \in Nat \ {0}
      /\ p \in Threads /\ p \notin Consumers
  BY SizeAssumption, ThreadsAssumption DEF TypeInv, TypeOK, Threads
<1>1. /\ pc[p] = "push_cas" /\ pc' = [pc EXCEPT ![p] = "push_write"] /\ pos[p] = write_idx
      /\ write_idx' = write_idx + 1 /\ pos' = pos /\ read_idx' = read_idx
      /\ value' = value /\ done' = done /\ val' = val
  BY DEF PushClaim, Goto
<1>2. read_idx <= write_idx /\ write_idx + 1 <= read_idx + Size
  BY <1>1 DEF RingInv, WithinCapacity
<1>3. ASSUME NEW n \in read_idx .. write_idx - 1 PROVE ValueAt(n)' = ValueAt(n)
  <2>1. n # write_idx
    BY <1>0
  <2>2. Writing(n)' = Writing(n)
    BY <2>1, <1>0, <1>1 DEF Writing, Threads
  <2>3. n \in Int
    BY <1>0
  <2> QED
    BY <2>2, <2>3, <1>1, ValueKept DEF Arg, Slot
<1>4. Arg(p) \in Value /\ Arg(p)' = Arg(p)
  BY <1>0, <1>1, ThreadsAssumption DEF TypeInv, TypeOK, InCall, Arg, Value
<1>5. PICK w \in Nat : w = write_idx
  BY <1>0
<1>6. ValueAt(w)' = Arg(p)
  <2>1. p \in Writing(w)'
    BY <1>0, <1>1, <1>5 DEF Writing
  <2> QED
    BY <2>1, <1>4, ValuesOfPositionsNext DEF Valued
<1>7. Items' = Append(Items, Arg(p))
  <2>1. /\ Items \in Seq(Value \cup {None}) /\ Items' \in Seq(Value \cup {None})
        /\ Len(Items) = write_idx - read_idx /\ Len(Items') = Len(Items) + 1
    BY <1>0, <1>1, ItemsWindow, ItemsWindowNext DEF Windowed
  <2>2. \A n \in read_idx .. write_idx : Items'[n - read_idx + 1] = ValueAt(n)'
    BY <1>0, <1>1, ItemsWindowNext DEF Windowed
  <2>3. \A n \in read_idx .. write_idx - 1 : Items[n - read_idx + 1] = ValueAt(n)
    BY ItemsWindow DEF Windowed
  <2>4. ASSUME NEW n \in read_idx .. write_idx - 1
        PROVE  Items'[n - read_idx + 1] = Items[n - read_idx + 1]
    <3>1. n \in read_idx .. write_idx
      BY <1>0
    <3> QED
      BY <2>2, <2>3, <3>1, <1>3
  <2>5. ASSUME NEW k \in 1 .. Len(Items) PROVE Items'[k] = Items[k]
    <3>1. read_idx + k - 1 \in read_idx .. write_idx - 1 /\ (read_idx + k - 1) - read_idx + 1 = k
      BY <1>0, <1>2, <2>1
    <3> QED
      BY <2>4, <3>1
  <2>6. Items'[Len(Items) + 1] = Arg(p)
    <3>1. w \in read_idx .. write_idx /\ w - read_idx + 1 = Len(Items) + 1
      BY <1>0, <1>2, <1>5, <2>1
    <3> QED
      BY <2>2, <3>1, <1>6
  <2> QED
    BY <2>1, <2>5, <2>6, <1>4, GrownByOne
<1>8. Len(Items) < Size
  BY <1>0, <1>2, ItemsWindow DEF Windowed
<1>9. Hand' = Hand
  BY <1>0, <1>1 DEF Hand, Threads
<1>10. WrittenInv'
  BY <1>0, <1>1 DEF WrittenInv, Arg, Threads
<1> QED
  BY <1>4, <1>7, <1>8, <1>9, <1>10 DEF Queue!Enqueue

(* The value goes where the position's value is looked for from then on. *)
LEMMA PushWriteKeepsItems ==
  ASSUME TypeInv, RingInv, TypeInv', RingInv', WrittenInv, NEW p \in Producers, PushWrite(p)
  PROVE  WrittenInv' /\ Items' = Items /\ Hand' = Hand
<1>0. /\ pos \in [Threads -> Nat] /\ pc \in [Threads -> {"idle"} \cup PushPCs \cup PopPCs]
      /\ write_idx \in Nat /\ read_idx \in Nat /\ Size \in Nat \ {0}
      /\ p \in Threads /\ p \notin Consumers /\ Slot(pos[p]) \in Slots
      /\ value \in [Slots -> Value \cup {None}]
  BY SizeAssumption, ThreadsAssumption, SlotType DEF TypeInv, TypeOK, Threads
<1>1. /\ pc[p] = "push_write" /\ pc' = [pc EXCEPT ![p] = "push_publish"]
      /\ value' = [value EXCEPT ![Slot(pos[p])] = Arg(p)]
      /\ write_idx' = write_idx /\ pos' = pos /\ read_idx' = read_idx
      /\ done' = done /\ val' = val
  BY DEF PushWrite, Goto
<1>2. InSlot(p) /\ read_idx <= pos[p] /\ pos[p] < write_idx /\ write_idx <= read_idx + Size
  BY <1>1 DEF InSlot, RingInv, WriterInv, WithinCapacity
<1>3. \A n \in Int : Writing(n)' = Writing(n)
  BY <1>0, <1>1 DEF Writing, Threads
<1>4. ASSUME NEW n \in read_idx .. write_idx - 1 PROVE ValueAt(n)' = ValueAt(n)
  <2>1. n \in Int
    BY <1>0
  <2>2. CASE Writing(n) # {}
    BY <2>1, <2>2, <1>1, <1>3, ValueKept DEF Arg
  <2>3. CASE Writing(n) = {}
    <3>1. n # pos[p]
      BY <2>3, <1>1 DEF Writing
    <3>2. Slot(n) # Slot(pos[p])
      BY <3>1, <1>0, <1>2, SlotsDiffer
    <3>3. Slot(n) \in Slots
      BY <2>1, SlotType
    <3>4. value'[Slot(n)] = value[Slot(n)]
      BY <3>2, <3>3, <1>0, <1>1
    <3> QED
      BY <2>1, <2>3, <3>4, <1>3 DEF ValueAt, Slot
  <2> QED
    BY <2>2, <2>3
<1>5. Items' = Items
  BY <1>1, <1>4, ItemsKept
<1>6. \A u \in Threads : u # p /\ InSlot(u) => value'[Slot(pos[u])] = value[Slot(pos[u])]
  <2> SUFFICES ASSUME NEW u \in Threads, u # p, InSlot(u)
               PROVE  value'[Slot(pos[u])] = value[Slot(pos[u])]
    OBVIOUS
  <2>1. Slot(pos[u]) # Slot(pos[p]) /\ Slot(pos[u]) \in Slots
    BY <1>0, <1>2, OwnersApart, SlotType
  <2> QED
    BY <2>1, <1>0, <1>1
<1>7. Hand' = Hand
  <2>1. \A c \in Consumers : pc'[c] = pc[c] /\ (pc[c] = "pop_read" =>
           value'[Slot(pos[c])] = value[Slot(pos[c])])
    BY <1>0, <1>1, <1>6 DEF InSlot, Threads
  <2> QED
    BY <2>1, <1>1 DEF Hand
<1>8. WrittenInv'
  <2> SUFFICES ASSUME NEW q \in Producers, pc'[q] = "push_publish"
               PROVE  value'[Slot(pos[q])] = Arg(q)
    BY <1>1 DEF WrittenInv, Arg, Slot
  <2>1. CASE q = p
    BY <2>1, <1>0, <1>1
  <2>2. CASE q # p
    BY <2>2, <1>0, <1>1, <1>6 DEF WrittenInv, InSlot, Threads
  <2> QED
    BY <2>1, <2>2
<1> QED
  BY <1>5, <1>7, <1>8

(* The push is over: its value is now the one in the slot, and the same. *)
LEMMA PushPublishKeepsItems ==
  ASSUME TypeInv, RingInv, TypeInv', RingInv', WrittenInv, NEW p \in Producers, PushPublish(p)
  PROVE  WrittenInv' /\ Items' = Items /\ Hand' = Hand
<1>0. /\ pos \in [Threads -> Nat] /\ pc \in [Threads -> {"idle"} \cup PushPCs \cup PopPCs]
      /\ write_idx \in Nat /\ read_idx \in Nat /\ done \in [Threads -> 0 .. Iterations]
      /\ p \in Threads /\ p \notin Consumers
  BY ThreadsAssumption DEF TypeInv, TypeOK, Threads
<1>1. /\ pc[p] = "push_publish" /\ pc' = [pc EXCEPT ![p] = "idle"]
      /\ value' = value /\ write_idx' = write_idx /\ pos' = pos /\ read_idx' = read_idx
      /\ done' = [done EXCEPT ![p] = @ + 1] /\ val' = val
  BY DEF PushPublish, Goto
<1>2. \A q \in Producers : q # p => Arg(q)' = Arg(q)
  BY <1>0, <1>1 DEF Arg, Threads
<1>3. ASSUME NEW n \in read_idx .. write_idx - 1 PROVE ValueAt(n)' = ValueAt(n)
  <2>0. n \in Int
    BY <1>0
  <2>1. CASE n = pos[p]
    <3>1. p \in Writing(n)
      BY <2>1, <1>1 DEF Writing
    <3>2. ValueAt(n) = Arg(p)
      BY <2>0, <3>1, ValuesOfPositions DEF Valued
    <3>3. \A q \in Writing(n) : q = p
      BY <3>1 DEF Writing, RingInv, OwnersDiffer, InSlot, Threads
    <3>4. Writing(n)' = {}
      BY <3>3, <1>0, <1>1 DEF Writing, Threads
    <3>5. ValueAt(n)' = value[Slot(n)]
      BY <2>0, <3>4, <1>1 DEF ValueAt, Slot
    <3> QED
      BY <2>1, <3>2, <3>5, <1>1 DEF WrittenInv
  <2>2. CASE n # pos[p]
    <3>1. Writing(n)' = Writing(n)
      BY <2>2, <1>0, <1>1 DEF Writing, Threads
    <3>2. CASE Writing(n) = {}
      BY <2>0, <3>1, <3>2, <1>1 DEF ValueAt, Slot
    <3>3. ASSUME NEW q \in Writing(n) PROVE ValueAt(n)' = ValueAt(n)
      <4>1. q \in Producers /\ q # p
        BY <2>2 DEF Writing
      <4>2. ValueAt(n) = Arg(q)
        BY <2>0, ValuesOfPositions DEF Valued
      <4>3. ValueAt(n)' = Arg(q)'
        BY <2>0, <3>1, ValuesOfPositionsNext DEF Valued
      <4> QED
        BY <4>1, <4>2, <4>3, <1>2
    <3> QED
      BY <3>2, <3>3
  <2> QED
    BY <2>1, <2>2
<1>4. Items' = Items
  BY <1>1, <1>3, ItemsKept
<1>5. Hand' = Hand
  BY <1>0, <1>1 DEF Hand, Threads
<1>6. WrittenInv'
  BY <1>0, <1>1, <1>2 DEF WrittenInv, Threads
<1> QED
  BY <1>4, <1>5, <1>6

(* A pop that wins its swap is handed the oldest value: its slot was published, *)
(* so that nobody is writing it any more.                                    *)
LEMMA PopClaimDequeues ==
  ASSUME TypeInv, RingInv, TypeInv', RingInv', WrittenInv, NEW c \in Consumers, PopClaim(c)
  PROVE  WrittenInv' /\ Queue!Dequeue(c)
<1>0. /\ pos \in [Threads -> Nat] /\ pc \in [Threads -> {"idle"} \cup PushPCs \cup PopPCs]
      /\ write_idx \in Nat /\ read_idx \in Nat /\ Size \in Nat \ {0}
      /\ c \in Threads /\ c \notin Producers
      /\ Slot(read_idx) \in Slots /\ sequence[Slot(read_idx)] \in Nat
  BY SizeAssumption, ThreadsAssumption, SlotType DEF TypeInv, TypeOK, Threads
<1>1. /\ pc[c] = "pop_cas" /\ pc' = [pc EXCEPT ![c] = "pop_read"] /\ pos[c] = read_idx
      /\ read_idx' = read_idx + 1 /\ pos' = pos /\ write_idx' = write_idx
      /\ value' = value /\ done' = done /\ val' = val
  BY DEF PopClaim, Goto
<1>2. read_idx + 1 <= write_idx
  BY <1>1 DEF RingInv, WithinCapacity
<1>3. \A n \in Int : Writing(n)' = Writing(n) /\ ValueAt(n)' = ValueAt(n)
  <2>1. \A n \in Int : Writing(n)' = Writing(n)
    BY <1>0, <1>1 DEF Writing, Threads
  <2> QED
    BY <2>1, <1>1, ValueKept DEF Arg, Slot
<1>4. PICK r \in Nat : r = read_idx
  BY <1>0
<1>5. ValueAt(r) = value[Slot(r)]
  <2>1. ASSUME NEW p \in Writing(r) PROVE FALSE
    <3>1. sequence[Slot(r)] = r
      BY <1>4 DEF Writing, RingInv, WriterInv, InSlot
    <3>2. sequence[Slot(r)] >= r + 1
      BY <1>1, <1>4 DEF RingInv, LoadedInv
    <3> QED
      BY <3>1, <3>2, <1>4
  <2> QED
    BY <2>1, <1>4, ValuesOfPositions DEF Valued
<1>6. /\ Items \in Seq(Value \cup {None}) /\ Items' \in Seq(Value \cup {None})
      /\ Len(Items) = write_idx - read_idx /\ Len(Items') = write_idx - read_idx - 1
  BY <1>0, <1>1, ItemsWindow, ItemsWindowNext DEF Windowed
<1>7. ASSUME NEW k \in 1 .. Len(Items') PROVE Items'[k] = Items[k + 1]
  <2>1. /\ read_idx + k \in read_idx + 1 .. write_idx - 1
        /\ (read_idx + k) - (read_idx + 1) + 1 = k
        /\ (read_idx + k) - read_idx + 1 = k + 1
    BY <1>0, <1>6
  <2>2. PICK n \in Nat : n = read_idx + k
    BY <1>0, <2>1
  <2>3. Items'[k] = ValueAt(n)'
    BY <2>1, <2>2, <1>1, ItemsWindowNext DEF Windowed
  <2>4. Items[k + 1] = ValueAt(n)
    <3>1. n \in read_idx .. write_idx - 1
      BY <2>1, <2>2, <1>0
    <3> QED
      BY <3>1, <2>1, <2>2, ItemsWindow DEF Windowed
  <2> QED
    BY <2>3, <2>4, <1>3
<1>8. Items # <<>> /\ Items' = Tail(Items) /\ Head(Items) = Items[1]
  <2>1. Len(Items) = Len(Items') + 1
    BY <1>0, <1>6
  <2> QED
    BY <2>1, <1>6, <1>7, ShrunkByOne
<1>9. Items[1] = value[Slot(read_idx)]
  <2>1. r \in read_idx .. write_idx - 1 /\ r - read_idx + 1 = 1
    BY <1>0, <1>2, <1>4
  <2> QED
    BY <2>1, <1>4, <1>5, ItemsWindow DEF Windowed
<1>10. Hand' = [Hand EXCEPT ![c] = Head(Items)]
  <2>1. \A d \in Consumers : d # c => pc'[d] = pc[d]
    BY <1>0, <1>1 DEF Threads
  <2>2. pc'[c] = "pop_read"
    BY <1>0, <1>1
  <2> QED
    BY <2>1, <2>2, <1>1, <1>8, <1>9 DEF Hand, Slot
<1>11. WrittenInv'
  BY <1>0, <1>1 DEF WrittenInv, Arg, Threads
<1> QED
  BY <1>8, <1>10, <1>11 DEF Queue!Dequeue

(* The value read is the one the pop was handed when it took the slot. *)
LEMMA PopReadKeepsItems ==
  ASSUME TypeInv, RingInv, TypeInv', RingInv', WrittenInv, NEW c \in Consumers, PopRead(c)
  PROVE  WrittenInv' /\ Items' = Items /\ Hand' = Hand
<1>0. /\ pc \in [Threads -> {"idle"} \cup PushPCs \cup PopPCs] /\ val \in [Consumers -> Value \cup {None}]
      /\ c \in Threads /\ c \notin Producers
  BY ThreadsAssumption DEF TypeInv, TypeOK, Threads
<1>1. /\ pc[c] = "pop_read" /\ pc' = [pc EXCEPT ![c] = "pop_release"]
      /\ val' = [val EXCEPT ![c] = value[Slot(pos[c])]]
      /\ value' = value /\ write_idx' = write_idx /\ pos' = pos /\ read_idx' = read_idx
      /\ done' = done
  BY DEF PopRead, Goto
<1>2. \A n \in Int : ValueAt(n)' = ValueAt(n)
  <2>1. \A n \in Int : Writing(n)' = Writing(n)
    BY <1>0, <1>1 DEF Writing, Threads
  <2> QED
    BY <2>1, <1>1, ValueKept DEF Arg, Slot
<1>3. Items' = Items
  <2>1. \A n \in read_idx .. write_idx - 1 : n \in Int
    BY DEF TypeInv, TypeOK
  <2> QED
    BY <1>1, <1>2, <2>1, ItemsKept
<1>4. Hand' = Hand
  <2>1. /\ \A d \in Consumers : d # c => pc'[d] = pc[d] /\ val'[d] = val[d]
        /\ pc'[c] = "pop_release" /\ val'[c] = value[Slot(pos[c])]
    BY <1>0, <1>1 DEF Threads
  <2> QED
    BY <2>1, <1>1 DEF Hand, Slot
<1>5. WrittenInv'
  BY <1>0, <1>1 DEF WrittenInv, Arg, Threads
<1> QED
  BY <1>3, <1>4, <1>5

(* Giving the slot back changes no value. *)
LEMMA PopReleaseKeepsItems ==
  ASSUME TypeInv, RingInv, TypeInv', RingInv', WrittenInv, NEW c \in Consumers, PopRelease(c)
  PROVE  WrittenInv' /\ Items' = Items /\ Hand' = Hand
<1>0. /\ pc \in [Threads -> {"idle"} \cup PushPCs \cup PopPCs]
      /\ done \in [Threads -> 0 .. Iterations]
      /\ c \in Threads /\ c \notin Producers
  BY ThreadsAssumption DEF TypeInv, TypeOK, Threads
<1>1. /\ pc[c] = "pop_release" /\ pc' = [pc EXCEPT ![c] = "idle"]
      /\ value' = value /\ write_idx' = write_idx /\ pos' = pos /\ read_idx' = read_idx
      /\ done' = [done EXCEPT ![c] = @ + 1] /\ val' = val
  BY DEF PopRelease, Goto
<1>2. \A p \in Producers : Arg(p)' = Arg(p) /\ pc'[p] = pc[p]
  BY <1>0, <1>1 DEF Arg, Threads
<1>3. \A n \in Int : ValueAt(n)' = ValueAt(n)
  <2> SUFFICES ASSUME NEW n \in Int PROVE ValueAt(n)' = ValueAt(n)
    OBVIOUS
  <2>1. Writing(n)' = Writing(n)
    BY <1>1, <1>2 DEF Writing
  <2>2. \A p \in Writing(n) : Arg(p)' = Arg(p)
    BY <1>2 DEF Writing
  <2> QED
    BY <2>1, <2>2, <1>1, ValueKept DEF Slot
<1>4. Items' = Items
  <2>1. \A n \in read_idx .. write_idx - 1 : n \in Int
    BY DEF TypeInv, TypeOK
  <2> QED
    BY <1>1, <1>3, <2>1, ItemsKept
<1>5. Hand' = Hand
  BY <1>0, <1>1 DEF Hand, Threads
<1>6. WrittenInv'
  BY <1>1, <1>2 DEF WrittenInv
<1> QED
  BY <1>4, <1>5, <1>6

-----------------------------------------------------------------------------
(* Every step of the ring is a step of the queue, or leaves it alone. *)
LEMMA PushIsQueueStep ==
  ASSUME TypeInv, RingInv, TypeInv', RingInv', WrittenInv, NEW p \in Producers, Push(p)
  PROVE  WrittenInv' /\ [Queue!Next]_(Queue!vars)
<1>0. /\ p \in Threads /\ p \notin Consumers
      /\ pc \in [Threads -> {"idle"} \cup PushPCs \cup PopPCs] /\ pos \in [Threads -> Nat]
  BY ThreadsAssumption DEF Threads, TypeInv, TypeOK
<1>1. CASE PushClaim(p)
  BY <1>1, PushClaimEnqueues DEF Queue!Next
<1>2. CASE PushWrite(p)
  BY <1>2, PushWriteKeepsItems DEF Queue!vars
<1>3. CASE PushPublish(p)
  BY <1>3, PushPublishKeepsItems DEF Queue!vars
<1>4. CASE \/ PushCall(p) \/ PushReady(p) \/ PushFull(p) \/ PushLostRace(p)
           \/ PushReload(p) \/ PushClaimFails(p)
  <2>1. /\ UNCHANGED <<queue, done, val>> /\ ~InSlot(p) /\ ~InSlot(p)'
        /\ \A u \in Threads : u # p => pc'[u] = pc[u] /\ pos'[u] = pos[u]
    BY <1>0, <1>4 DEF PushCall, PushReady, PushFull, PushLostRace, PushReload, PushClaimFails,
       LoadPos, Goto, InSlot
  <2> QED
    BY <1>0, <2>1, OutsideKeepsItems DEF Queue!vars
<1> QED
  BY <1>1, <1>2, <1>3, <1>4 DEF Push

(* The same for the steps of a pop. *)
LEMMA PopIsQueueStep ==
  ASSUME TypeInv, RingInv, TypeInv', RingInv', WrittenInv, NEW c \in Consumers, Pop(c)
  PROVE  WrittenInv' /\ [Queue!Next]_(Queue!vars)
<1>0. /\ c \in Threads /\ c \notin Producers
      /\ pc \in [Threads -> {"idle"} \cup PushPCs \cup PopPCs] /\ pos \in [Threads -> Nat]
  BY ThreadsAssumption DEF Threads, TypeInv, TypeOK
<1>1. CASE PopClaim(c)
  BY <1>1, PopClaimDequeues DEF Queue!Next
<1>2. CASE PopRead(c)
  BY <1>2, PopReadKeepsItems DEF Queue!vars
<1>3. CASE PopRelease(c)
  BY <1>3, PopReleaseKeepsItems DEF Queue!vars
<1>4. CASE \/ PopCall(c) \/ PopReady(c) \/ PopEmpty(c) \/ PopLostRace(c)
           \/ PopReload(c) \/ PopClaimFails(c)
  <2>1. /\ UNCHANGED <<queue, done, val>> /\ ~InSlot(c) /\ ~InSlot(c)'
        /\ \A u \in Threads : u # c => pc'[u] = pc[u] /\ pos'[u] = pos[u]
    BY <1>0, <1>4 DEF PopCall, PopReady, PopEmpty, PopLostRace, PopReload, PopClaimFails,
       LoadPos, Goto, InSlot
  <2> QED
    BY <1>0, <2>1, OutsideKeepsItems DEF Queue!vars
<1> QED
  BY <1>1, <1>2, <1>3, <1>4 DEF Pop

(* A step that changes nothing. *)
LEMMA StutterIsQueueStep ==
  ASSUME WrittenInv, UNCHANGED vars
  PROVE  WrittenInv' /\ [Queue!Next]_(Queue!vars)
<1>1. UNCHANGED <<value, pos, done, pc, val, write_idx, read_idx>>
  BY DEF vars
<1>2. Items' = Items /\ Hand' = Hand
  BY <1>1 DEF Items, Hand, ValueAt, Writing, Arg, Slot
<1>3. WrittenInv'
  BY <1>1 DEF WrittenInv, Arg, Slot
<1> QED
  BY <1>2, <1>3 DEF Queue!vars

(* A ring of two slots or more is a first-in first-out queue of Size values    *)
(* for any number of producers and consumers and under both memory models:   *)
(* nothing is lost, handed out twice, reordered or overwritten.              *)
THEOREM QueueImplemented == ASSUME Size > 1 PROVE Spec => ImplementsQueue
<1>1. Init => WrittenInv /\ Queue!Init
  BY FifoInit DEF FifoInv
<1>2. /\ TypeInv /\ RingInv /\ WrittenInv /\ TypeInv' /\ RingInv' /\ [Next]_vars
      => WrittenInv' /\ [Queue!Next]_(Queue!vars)
  BY PushIsQueueStep, PopIsQueueStep, StutterIsQueueStep DEF Next, Joined
<1> QED
  BY <1>1, <1>2, TypeInvariant, RingCorrect, PTL DEF Spec, ImplementsQueue, Queue!Spec

=============================================================================
