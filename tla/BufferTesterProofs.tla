------------------------- MODULE BufferTesterProofs -------------------------
(***************************************************************************)
(* What holds of BufferTester and its rings for every capacity, number of   *)
(* iterations and of samples: no data race, and the abstract queue.         *)
(***************************************************************************)
EXTENDS BufferTester, SlotArithmetic, SequenceTheorems

(* The values pushed and popped, and those already written and read by a call  *)
(* that has not yet told the other thread.                                   *)
Pushed == done[Pusher]
Popped == done[Popper]
Written == IF pc[Pusher] = "publish" THEN Pushed + 1 ELSE Pushed
Taken == IF pc[Popper] = "publish" THEN Popped + 1 ELSE Popped

(* The plain objects of the queue under test, and the one of a value. *)
Elements == IF queue = "slot" THEN slot_data ELSE data
Mod(n) == n % Capacity

(***************************************************************************)
(* The inductive invariant: first what is true of every queue.             *)
(***************************************************************************)
TypeInv ==
  /\ queue \in Queues
  /\ pc \in [Threads -> {"call", "access", "publish"}]
  /\ done \in [Threads -> 0 .. Iterations]
  /\ released = done
  /\ acquired \in [Threads -> Nat]
  /\ stage \in [Threads -> {"none", "born", "gate", "run", "ended"}]

(* A call belongs to a running thread; when the queue is reset all is done. *)
StageInv ==
  /\ \A t \in Threads : pc[t] # "call" => stage[t] = "run" /\ done[t] < Iterations
  /\ \A t \in Threads : stage[t] = "ended" => done[t] = Iterations
  /\ main = "reset" => \A t \in Threads : stage[t] = "ended"

(* The popper stays behind the pusher, and no more than a lap. *)
OrderInv ==
  /\ Popped <= Pushed /\ Pushed <= Popped + Capacity
  /\ pc[Pusher] # "call" => Pushed < Popped + Capacity
  /\ pc[Popper] # "call" => Popped < Pushed

(* What the elements hold, and which release covers their last access. *)
Element == [v : Nat, by : Threads \cup {None}, at : Nat]

ElementsInv ==
  /\ Elements \in [Slots -> Element]
  /\ \A i \in Slots : Elements[i].by # None /\ Elements[i].by = Pusher => Elements[i].at <= Written
  /\ \A i \in Slots : Elements[i].by # None /\ Elements[i].by = Popper => Elements[i].at <= Taken
  /\ \A j \in Nat : Popped <= j /\ j < Written => Elements[Mod(j)].v = j

Common == TypeInv /\ StageInv /\ OrderInv /\ ElementsInv

(***************************************************************************)
(* The rings with indices: what a thread has acquired is the other's index, *)
(* as it has seen it last; a caching ring keeps it as its slot.             *)
(***************************************************************************)
(* The stores to an index that has been moved n times. *)
Moved(n) == [k \in 1 .. n + 1 |-> Store(Mod(k - 1), k - 1)]

RingInv ==
  /\ \A i \in Slots : data[i].by # None => data[i].at > 0 /\ Mod(data[i].at - 1) = i
  /\ write_idx = Moved(Pushed)
  /\ read_idx = Moved(Popped)
  /\ seen = [t \in Threads |-> acquired[t] + 1]
  /\ acquired[Pusher] <= Popped /\ acquired[Popper] <= Pushed
  /\ Pushed < acquired[Pusher] + Capacity /\ Popped <= acquired[Popper]
  /\ pc[Pusher] # "call" => Pushed + 1 < acquired[Pusher] + Capacity
  /\ pc[Popper] # "call" => Popped < acquired[Popper]
  /\ queue = "caching" => /\ read_idx_cache = Mod(acquired[Pusher])
                          /\ write_idx_cache = Mod(acquired[Popper])

(***************************************************************************)
(* The ring with flags: a slot's flag is set while it holds a value.  A     *)
(* thread may still see the flag as it left it itself, but if it sees its   *)
(* turn then it sees the last store.                                        *)
(***************************************************************************)
Flag == [v : BOOLEAN, n : Nat]
Last(atomic) == atomic[Len(atomic)]

FlagTypes ==
  /\ written \in [Slots -> Seq(Flag)]
  /\ slot_seen \in [Threads -> [Slots -> Nat]]
  /\ \A t \in Threads, i \in Slots : slot_seen[t][i] \in 1 .. Len(written[i])
  /\ slot_write_idx = Pushed
  /\ slot_read_idx = Popped

FlagInv ==
  /\ \A j \in Nat : Popped <= j /\ j < Pushed => Last(written[Mod(j)]).v
  /\ \A i \in Slots : Last(written[i]).v =>
       \E j \in Nat : Popped <= j /\ j < Pushed /\ Mod(j) = i
  /\ \A i \in Slots : \A k \in Visible(written[i], slot_seen[Pusher][i]) :
       ~written[i][k].v => k = Len(written[i])
  /\ \A i \in Slots : \A k \in Visible(written[i], slot_seen[Popper][i]) :
       written[i][k].v => k = Len(written[i])

(* The last access of a thread to an element is covered by the store that gave *)
(* the slot to the other thread, and acquired before the other's access.     *)
CoverInv ==
  /\ \A i \in Slots : ~Last(written[i]).v /\ slot_data[i].by = Popper /\ slot_data[i].by # None =>
       slot_data[i].at <= Last(written[i]).n
  /\ \A i \in Slots : Last(written[i]).v /\ slot_data[i].by = Pusher /\ slot_data[i].by # None =>
       slot_data[i].at <= Last(written[i]).n
  /\ LET i == Mod(Pushed) IN
     pc[Pusher] = "access" /\ slot_data[i].by = Popper /\ slot_data[i].by # None =>
       slot_data[i].at <= acquired[Pusher]
  /\ LET i == Mod(Popped) IN
     pc[Popper] = "access" /\ slot_data[i].by = Pusher /\ slot_data[i].by # None =>
       slot_data[i].at <= acquired[Popper]

SlotInv == FlagTypes /\ FlagInv /\ CoverInv

Inv ==
  /\ Common /\ RaceFree
  /\ queue # "slot" => RingInv
  /\ queue = "slot" => SlotInv

(* The values in the queue, which both kinds of ring show. *)
Between(a, b) == [k \in 1 .. b - a |-> a + k - 1]
Held == Between(Taken, Pushed)

-----------------------------------------------------------------------------
(***************************************************************************)
(* Slots and indices.                                                      *)
(***************************************************************************)
(* The constants, and the slots of positions. *)
LEMMA SlotFacts ==
  /\ Capacity \in Nat \ {0} /\ Capacity > 1 /\ Iterations \in Nat
  /\ \A n \in Nat : Mod(n) \in Slots /\ SlotOf(n) = Mod(n) /\ NextIdx(Mod(n)) = Mod(n + 1)
  /\ \A a, b \in Nat : a < b /\ b < a + Capacity => Mod(a) # Mod(b)
  /\ \A a \in Nat : Mod(a + Capacity) = Mod(a)
  /\ Mod(0) = 0
<1>1. Capacity \in Nat \ {0} /\ Capacity > 1 /\ Iterations \in Nat
  BY BufferAssumption
<1>2. ASSUME NEW n \in Nat PROVE Mod(n) \in Slots /\ SlotOf(n) = Mod(n) /\ NextIdx(Mod(n)) = Mod(n + 1)
  <2>1. n \in Int
    OBVIOUS
  <2>2. n % Capacity \in 0 .. Capacity - 1
    BY <1>1, <2>1, ModRange
  <2>3. (n + 1) % Capacity = IF (n % Capacity) + 1 = Capacity THEN 0 ELSE (n % Capacity) + 1
    BY <1>1, <2>1, ModSucc
  <2> QED
    BY <2>2, <2>3, Zenon DEF Mod, Slots, SlotOf, NextIdx
<1>3. \A a, b \in Nat : a < b /\ b < a + Capacity => Mod(a) # Mod(b)
  <2>1. ASSUME NEW a \in Nat, NEW b \in Nat, a < b, b < a + Capacity
        PROVE  Mod(a) # Mod(b)
    <3>1. a \in Int /\ b \in Int
      OBVIOUS
    <3>2. a % Capacity # b % Capacity
      BY <1>1, <2>1, <3>1, ModInjective, Zenon
    <3> QED
      BY <3>2 DEF Mod
  <2> QED
    BY <2>1
<1>4. \A a \in Nat : Mod(a + Capacity) = Mod(a)
  <2>1. \A a \in Nat : a \in Int
    OBVIOUS
  <2> QED
    BY <1>1, <2>1, ModShift, Zenon DEF Mod
<1>5. Mod(0) = 0
  <2>1. 0 \in 0 .. Capacity - 1
    BY <1>1
  <2> QED
    BY <1>1, <2>1, ModSmall DEF Mod
<1> QED
  BY <1>1, <1>2, <1>3, <1>4, <1>5

(* The stores to an index, and one store more. *)
LEMMA MovedFacts ==
  ASSUME NEW n \in Nat
  PROVE  /\ Len(Moved(n)) = n + 1 /\ Latest(Moved(n)) = Mod(n)
         /\ \A k \in 1 .. n + 1 : Moved(n)[k] = Store(Mod(k - 1), k - 1)
         /\ Append(Moved(n), Store(Mod(n + 1), n + 1)) = Moved(n + 1)
<1>1. /\ \A k \in 1 .. n + 1 : Moved(n)[k] = Store(Mod(k - 1), k - 1)
      /\ Len(Moved(n)) = n + 1
  BY DEF Moved
<1>2. Moved(n)[n + 1] = Store(Mod(n), n)
  BY <1>1
<1>3. Latest(Moved(n)) = Mod(n)
  BY <1>1, <1>2 DEF Latest, Store
<1>4. Append(Moved(n), Store(Mod(n + 1), n + 1)) = Moved(n + 1)
  BY <1>1 DEF Moved
<1> QED
  BY <1>1, <1>3, <1>4

(* The ranges of the counters of a state. *)
LEMMA Counters ==
  ASSUME Common
  PROVE  /\ Pushed \in Nat /\ Popped \in Nat /\ Written \in Nat /\ Taken \in Nat
         /\ Pushed \in 0 .. Iterations /\ Popped \in 0 .. Iterations
         /\ Popped <= Taken /\ Taken <= Pushed /\ Pushed <= Written
         /\ Written <= Popped + Capacity
         /\ acquired[Pusher] \in Nat /\ acquired[Popper] \in Nat
         /\ released[Pusher] = Pushed /\ released[Popper] = Popped
         /\ Pusher \in Threads /\ Popper \in Threads /\ Pusher # Popper
<1>1. Pusher \in Threads /\ Popper \in Threads /\ Pusher # Popper
  BY DEF Threads, Pusher, Popper
<1>2. /\ Pushed \in 0 .. Iterations /\ Popped \in 0 .. Iterations /\ Iterations \in Nat
      /\ acquired[Pusher] \in Nat /\ acquired[Popper] \in Nat /\ released = done
      /\ Capacity \in Nat
  BY <1>1, SlotFacts DEF Common, TypeInv, Pushed, Popped
<1> QED
  BY <1>1, <1>2 DEF Common, OrderInv, Written, Taken, Pushed, Popped

-----------------------------------------------------------------------------
(***************************************************************************)
(* The steps of a call: what they keep in every queue.                     *)
(***************************************************************************)
(* The thread's place, its calls and what it has acquired. *)
LEMMA CallTypes ==
  ASSUME Common, NEW t \in Threads, Running(t), UNCHANGED testerVars,
         acquired' \in [Threads -> Nat],
         NEW to \in {"call", "access", "publish"}, pc' = [pc EXCEPT ![t] = to],
         \/ done' = done /\ released' = released
         \/ /\ done' = [done EXCEPT ![t] = @ + 1] /\ released' = [released EXCEPT ![t] = @ + 1]
            /\ to = "call"
  PROVE  TypeInv' /\ StageInv'
<1>1. /\ pc \in [Threads -> {"call", "access", "publish"}] /\ done \in [Threads -> 0 .. Iterations]
      /\ released = done /\ stage[t] = "run" /\ done[t] < Iterations /\ Iterations \in Nat
      /\ UNCHANGED <<queue, main, stage>>
  BY SlotFacts DEF Common, TypeInv, Running, testerVars
<1>2. done' \in [Threads -> 0 .. Iterations] /\ released' = done'
  BY <1>1
<1>3. \A u \in Threads : u # t => pc'[u] = pc[u] /\ done'[u] = done[u]
  BY <1>1
<1>4. TypeInv'
  BY <1>1, <1>2 DEF Common, TypeInv
<1>5. \A u \in Threads : pc'[u] # "call" => stage[u] = "run" /\ done'[u] < Iterations
  BY <1>1, <1>3 DEF Common, StageInv
<1>6. StageInv'
  BY <1>1, <1>3, <1>5 DEF Common, StageInv
<1> QED
  BY <1>4, <1>6

(* A look at the other thread's index or flag, or at the copy of the index. *)
LEMMA LookCommon ==
  ASSUME Common, NEW t \in Threads, Running(t), UNCHANGED testerVars,
         acquired' \in [Threads -> Nat],
         NEW to \in {"call", "access"}, pc[t] = "call", pc' = [pc EXCEPT ![t] = to],
         UNCHANGED <<done, released, Elements>>,
         t = Pusher /\ to # "call" => Pushed < Popped + Capacity,
         t = Popper /\ to # "call" => Popped < Pushed
  PROVE  Common' /\ UNCHANGED <<Pushed, Popped, Written, Taken>>
<1>1. TypeInv' /\ StageInv'
  BY CallTypes
<1>2. /\ pc \in [Threads -> {"call", "access", "publish"}] /\ UNCHANGED <<Pushed, Popped>>
      /\ \A u \in Threads : u # t => pc'[u] = pc[u]
      /\ Pusher \in Threads /\ Popper \in Threads /\ Pusher # Popper
  BY Counters DEF Common, TypeInv, Pushed, Popped
<1>3. UNCHANGED <<Written, Taken>>
  BY <1>2 DEF Written, Taken
<1>4. OrderInv'
  BY <1>2 DEF Common, OrderInv
<1>5. ElementsInv'
  BY <1>2, <1>3 DEF Common, ElementsInv
<1> QED
  BY <1>1, <1>2, <1>3, <1>4, <1>5 DEF Common

(* The pusher writes its value. *)
LEMMA WriteCommon ==
  ASSUME Common, Running(Pusher), UNCHANGED testerVars,
         pc[Pusher] = "access", pc' = [pc EXCEPT ![Pusher] = "publish"],
         UNCHANGED <<done, released, acquired>>,
         Elements' = [Elements EXCEPT ![Mod(Pushed)] = Touch(Pusher, done[Pusher])]
  PROVE  Common' /\ UNCHANGED <<Pushed, Popped, Taken>>
<1>1. acquired' \in [Threads -> Nat] /\ Pusher \in Threads
  BY Counters DEF Common, TypeInv
<1>2. TypeInv' /\ StageInv'
  BY <1>1, CallTypes
<1>3. /\ pc \in [Threads -> {"call", "access", "publish"}] /\ UNCHANGED <<Pushed, Popped>>
      /\ pc'[Popper] = pc[Popper] /\ pc'[Pusher] = "publish"
  BY Counters DEF Common, TypeInv, Pushed, Popped
<1>4. UNCHANGED Taken /\ Written' = Pushed + 1 /\ Written = Pushed /\ Pushed \in Nat
  BY <1>3, Counters DEF Written, Taken, Pusher, Popper
<1>5. OrderInv'
  BY <1>3 DEF Common, OrderInv
<1>6. Pushed < Popped + Capacity /\ Capacity \in Nat /\ Popped \in Nat
  BY Counters, SlotFacts DEF Common, OrderInv
<1> DEFINE new == Touch(Pusher, Pushed)
<1>7. /\ Elements \in [Slots -> Element] /\ Mod(Pushed) \in Slots
      /\ Elements' = [Elements EXCEPT ![Mod(Pushed)] = new]
      /\ new \in Element /\ new.by = Pusher /\ new.at = Pushed + 1 /\ new.v = Pushed
  <2>1. Elements \in [Slots -> Element] /\ Mod(Pushed) \in Slots
    BY <1>4, SlotFacts DEF Common, ElementsInv
  <2>2. released[Pusher] = Pushed /\ Pusher \in Threads /\ Pushed \in Nat /\ done[Pusher] = Pushed
    BY Counters DEF Pushed
  <2>3. new = [v |-> Pushed, by |-> Pusher, at |-> Pushed + 1]
    BY <2>2 DEF Touch
  <2> QED
    BY <2>1, <2>2, <2>3 DEF Element
<1> HIDE DEF new
<1>8. ElementsInv'
  <2>1. Elements' \in [Slots -> Element]
    BY <1>7
  <2>2. ASSUME NEW i \in Slots
        PROVE  /\ Elements'[i].by # None /\ Elements'[i].by = Pusher => Elements'[i].at <= Written'
               /\ Elements'[i].by # None /\ Elements'[i].by = Popper => Elements'[i].at <= Taken'
    <3>1. CASE i = Mod(Pushed)
      BY <3>1, <1>4, <1>7, Counters
    <3>2. CASE i # Mod(Pushed)
      <4>1. Elements'[i] = Elements[i] /\ Elements[i].at \in Nat
        BY <3>2, <1>7 DEF Element
      <4> QED
        BY <4>1, <1>4 DEF Common, ElementsInv
    <3> QED
      BY <3>1, <3>2
  <2>3. ASSUME NEW j \in Nat, Popped' <= j, j < Written' PROVE Elements'[Mod(j)].v = j
    <3>1. CASE j = Pushed
      BY <3>1, <1>7
    <3>2. CASE j # Pushed
      <4>1. Popped <= j /\ j < Pushed
        BY <3>2, <2>3, <1>3, <1>4
      <4>2. Mod(j) # Mod(Pushed) /\ Mod(j) \in Slots
        BY <4>1, <1>4, <1>6, SlotFacts
      <4>3. Elements'[Mod(j)] = Elements[Mod(j)]
        BY <4>2, <1>7
      <4> QED
        BY <4>1, <4>3, <1>4 DEF Common, ElementsInv
    <3> QED
      BY <3>1, <3>2
  <2> QED
    BY <2>1, <2>2, <2>3 DEF ElementsInv
<1> QED
  BY <1>2, <1>3, <1>4, <1>5, <1>8 DEF Common

(* The popper reads its value, which stays where it is. *)
LEMMA ReadCommon ==
  ASSUME Common, Running(Popper), UNCHANGED testerVars,
         pc[Popper] = "access", pc' = [pc EXCEPT ![Popper] = "publish"],
         UNCHANGED <<done, released, acquired>>,
         Elements' = [Elements EXCEPT ![Mod(Popped)] = Touch(Popper, @.v)]
  PROVE  Common' /\ UNCHANGED <<Pushed, Popped, Written>> /\ Taken = Popped /\ Taken' = Popped + 1
<1>1. acquired' \in [Threads -> Nat] /\ Popper \in Threads
  BY Counters DEF Common, TypeInv
<1>2. TypeInv' /\ StageInv'
  BY <1>1, CallTypes
<1>3. /\ pc \in [Threads -> {"call", "access", "publish"}] /\ UNCHANGED <<Pushed, Popped>>
      /\ pc'[Pusher] = pc[Pusher] /\ pc'[Popper] = "publish"
  BY Counters DEF Common, TypeInv, Pushed, Popped
<1>4. UNCHANGED Written /\ Taken' = Popped + 1 /\ Taken = Popped /\ Popped \in Nat
  BY <1>3, Counters DEF Written, Taken, Pusher, Popper
<1>5. OrderInv'
  BY <1>3 DEF Common, OrderInv
<1> DEFINE new == Touch(Popper, Elements[Mod(Popped)].v)
<1>7. /\ Elements \in [Slots -> Element] /\ Mod(Popped) \in Slots
      /\ Elements' = [Elements EXCEPT ![Mod(Popped)] = new]
      /\ new \in Element /\ new.by = Popper /\ new.at = Popped + 1
      /\ new.v = Elements[Mod(Popped)].v
  <2>1. Elements \in [Slots -> Element] /\ Mod(Popped) \in Slots
    BY <1>4, SlotFacts DEF Common, ElementsInv
  <2>2. released[Popper] = Popped /\ Popper \in Threads /\ Popped \in Nat
    BY Counters
  <2>3. new = [v |-> Elements[Mod(Popped)].v, by |-> Popper, at |-> Popped + 1]
    BY <2>2 DEF Touch
  <2>4. Elements[Mod(Popped)].v \in Nat
    BY <2>1 DEF Element
  <2> QED
    BY <2>1, <2>2, <2>3, <2>4 DEF Element
<1> HIDE DEF new
<1>8. ElementsInv'
  <2>1. Elements' \in [Slots -> Element]
    BY <1>7
  <2>2. ASSUME NEW i \in Slots
        PROVE  /\ Elements'[i].by # None /\ Elements'[i].by = Pusher => Elements'[i].at <= Written'
               /\ Elements'[i].by # None /\ Elements'[i].by = Popper => Elements'[i].at <= Taken'
    <3>1. CASE i = Mod(Popped)
      BY <3>1, <1>4, <1>7, Counters
    <3>2. CASE i # Mod(Popped)
      <4>1. Elements'[i] = Elements[i] /\ Elements[i].at \in Nat
        BY <3>2, <1>7 DEF Element
      <4> QED
        BY <4>1, <1>4 DEF Common, ElementsInv
    <3> QED
      BY <3>1, <3>2
  <2>3. ASSUME NEW j \in Nat, Popped' <= j, j < Written' PROVE Elements'[Mod(j)].v = j
    <3>1. Elements'[Mod(j)].v = Elements[Mod(j)].v
      BY <1>7, SlotFacts
    <3> QED
      BY <2>3, <3>1, <1>3, <1>4 DEF Common, ElementsInv
  <2> QED
    BY <2>1, <2>2, <2>3 DEF ElementsInv
<1> QED
  BY <1>2, <1>3, <1>4, <1>5, <1>8 DEF Common

(* A thread tells the other one and returns. *)
LEMMA PublishCommon ==
  ASSUME Common, NEW t \in Threads, Running(t), UNCHANGED testerVars,
         Return(t), UNCHANGED <<acquired, Elements>>
  PROVE  /\ Common' /\ UNCHANGED <<Written, Taken>>
         /\ t = Pusher => Pushed' = Pushed + 1 /\ Popped' = Popped
         /\ t = Popper => Popped' = Popped + 1 /\ Pushed' = Pushed
<1>1. acquired' \in [Threads -> Nat]
  BY DEF Common, TypeInv
<1>2. /\ pc[t] = "publish" /\ pc' = [pc EXCEPT ![t] = "call"]
      /\ done' = [done EXCEPT ![t] = @ + 1] /\ released' = [released EXCEPT ![t] = @ + 1]
  BY DEF Return, Goto
<1>3. TypeInv' /\ StageInv'
  BY <1>1, <1>2, CallTypes
<1>4. /\ pc \in [Threads -> {"call", "access", "publish"}] /\ done \in [Threads -> 0 .. Iterations]
      /\ Pusher \in Threads /\ Popper \in Threads /\ Pusher # Popper /\ t \in {Pusher, Popper}
      /\ Pushed \in Nat /\ Popped \in Nat /\ Capacity \in Nat
  BY Counters, SlotFacts DEF Common, TypeInv, Threads
<1>5. CASE t = Pusher
  <2>1. /\ Pushed' = Pushed + 1 /\ Popped' = Popped /\ pc'[Pusher] = "call" /\ pc'[Popper] = pc[Popper]
        /\ pc[Pusher] = "publish"
    BY <1>2, <1>4, <1>5 DEF Pushed, Popped
  <2>2. Written = Pushed + 1 /\ Written' = Pushed + 1 /\ Taken' = Taken
    BY <2>1 DEF Written, Taken
  <2>3. OrderInv'
    BY <1>4, <2>1 DEF Common, OrderInv
  <2>4. ElementsInv'
    BY <2>1, <2>2 DEF Common, ElementsInv
  <2> QED
    BY <1>3, <1>4, <1>5, <2>1, <2>2, <2>3, <2>4 DEF Common
<1>6. CASE t = Popper
  <2>1. /\ Popped' = Popped + 1 /\ Pushed' = Pushed /\ pc'[Popper] = "call" /\ pc'[Pusher] = pc[Pusher]
        /\ pc[Popper] = "publish"
    BY <1>2, <1>4, <1>6 DEF Pushed, Popped
  <2>2. Taken = Popped + 1 /\ Taken' = Popped + 1 /\ Written' = Written
    BY <2>1 DEF Written, Taken
  <2>3. OrderInv'
    BY <1>4, <2>1 DEF Common, OrderInv
  <2>4. ElementsInv'
    BY <1>4, <2>1, <2>2 DEF Common, ElementsInv
  <2> QED
    BY <1>3, <1>4, <1>6, <2>1, <2>2, <2>3, <2>4 DEF Common
<1> QED
  BY <1>4, <1>5, <1>6

-----------------------------------------------------------------------------
(***************************************************************************)
(* The rings with indices.                                                 *)
(***************************************************************************)
(* What is known at every step of them. *)
LEMMA RingFacts ==
  ASSUME Inv, queue # "slot"
  PROVE  /\ RingInv /\ Common /\ Elements = data
         /\ Latest(write_idx) = Mod(Pushed) /\ Latest(read_idx) = Mod(Popped)
         /\ NextIdx(Latest(write_idx)) = Mod(Pushed + 1)
         /\ NextIdx(Latest(read_idx)) = Mod(Popped + 1)
         /\ Mod(Pushed) \in Slots /\ Mod(Popped) \in Slots
         /\ acquired \in [Threads -> Nat] /\ seen \in [Threads -> Nat]
         /\ seen[Pusher] = acquired[Pusher] + 1 /\ seen[Popper] = acquired[Popper] + 1
<1>1. RingInv /\ Common /\ Elements = data
  BY DEF Inv, Elements
<1>2. /\ Pushed \in Nat /\ Popped \in Nat /\ acquired \in [Threads -> Nat]
      /\ Pusher \in Threads /\ Popper \in Threads
  BY <1>1, Counters DEF Common, TypeInv
<1>3. Latest(write_idx) = Mod(Pushed) /\ Latest(read_idx) = Mod(Popped)
  BY <1>1, <1>2, MovedFacts DEF RingInv
<1>4. /\ seen[Pusher] = acquired[Pusher] + 1 /\ seen[Popper] = acquired[Popper] + 1
      /\ seen \in [Threads -> Nat]
  BY <1>1, <1>2 DEF RingInv
<1> QED
  BY <1>1, <1>2, <1>3, <1>4, SlotFacts

(* The pusher has seen the popper's index at its a-th move and goes on if its  *)
(* own next slot is not there: then it is less than a lap ahead.             *)
LEMMA RingPushLook ==
  ASSUME Inv, queue # "slot", Running(Pusher), UNCHANGED testerVars,
         NEW a \in Nat, acquired[Pusher] <= a, a <= Popped,
         acquired' = [acquired EXCEPT ![Pusher] = a], seen' = [seen EXCEPT ![Pusher] = a + 1],
         queue = "caching" => read_idx_cache' = Mod(a),
         pc[Pusher] = "call", NEW to, pc' = [pc EXCEPT ![Pusher] = to],
         to = "call" \/ (to = "access" /\ Mod(Pushed + 1) # Mod(a)),
         UNCHANGED <<data, read_idx, write_idx, write_idx_cache, done, released, racy>>
  PROVE  Inv'
<1>1. RingInv /\ Common /\ Elements = data /\ acquired \in [Threads -> Nat] /\ queue' = queue
  BY RingFacts DEF testerVars
<1>2. /\ Pushed \in Nat /\ Popped \in Nat /\ Pusher \in Threads /\ Popper \in Threads
      /\ Pusher # Popper /\ Capacity \in Nat
  BY <1>1, Counters, SlotFacts
<1>3. acquired' \in [Threads -> Nat] /\ acquired'[Pusher] = a /\ acquired'[Popper] = acquired[Popper]
  BY <1>1, <1>2
<1>4. Pushed < a + Capacity
  BY <1>1, <1>2 DEF RingInv
<1>5. to # "call" => Pushed + 1 < a + Capacity
  <2>1. Pushed + 1 = a + Capacity => Mod(Pushed + 1) = Mod(a)
    BY SlotFacts
  <2> QED
    BY <1>2, <1>4, <2>1
<1>6. Elements' = Elements
  BY <1>1 DEF Elements
<1>7. Common' /\ UNCHANGED <<Pushed, Popped, Written, Taken>>
  <2>1. to \in {"call", "access"}
    OBVIOUS
  <2>2. to # "call" => Pushed < Popped + Capacity
    BY <1>2, <1>5
  <2> QED
    BY <1>1, <1>2, <1>3, <1>6, <2>1, <2>2, LookCommon
<1>8. seen' = [t \in Threads |-> acquired'[t] + 1]
  BY <1>1, <1>2 DEF RingInv
<1>9. pc'[Popper] = pc[Popper] /\ pc'[Pusher] = to
  BY <1>1, <1>2 DEF Common, TypeInv
<1>10. RingInv'
  BY <1>1, <1>2, <1>3, <1>4, <1>5, <1>7, <1>8, <1>9 DEF RingInv
<1> QED
  BY <1>1, <1>7, <1>10 DEF Inv, RaceFree

(* The popper has seen the pusher's index at its a-th move and goes on if it is *)
(* not where its own is: then the pusher is ahead.                           *)
LEMMA RingPopLook ==
  ASSUME Inv, queue # "slot", Running(Popper), UNCHANGED testerVars,
         NEW a \in Nat, acquired[Popper] <= a, a <= Pushed,
         acquired' = [acquired EXCEPT ![Popper] = a], seen' = [seen EXCEPT ![Popper] = a + 1],
         queue = "caching" => write_idx_cache' = Mod(a),
         pc[Popper] = "call", NEW to, pc' = [pc EXCEPT ![Popper] = to],
         to = "call" \/ (to = "access" /\ Mod(Popped) # Mod(a)),
         UNCHANGED <<data, read_idx, write_idx, read_idx_cache, done, released, racy>>
  PROVE  Inv'
<1>1. RingInv /\ Common /\ Elements = data /\ acquired \in [Threads -> Nat] /\ queue' = queue
  BY RingFacts DEF testerVars
<1>2. /\ Pushed \in Nat /\ Popped \in Nat /\ Pusher \in Threads /\ Popper \in Threads
      /\ Pusher # Popper
  BY <1>1, Counters
<1>3. acquired' \in [Threads -> Nat] /\ acquired'[Popper] = a /\ acquired'[Pusher] = acquired[Pusher]
  BY <1>1, <1>2
<1>4. Popped <= a
  BY <1>1, <1>2 DEF RingInv
<1>5. to # "call" => Popped < a
  BY <1>2, <1>4
<1>6. Elements' = Elements
  BY <1>1 DEF Elements
<1>7. Common' /\ UNCHANGED <<Pushed, Popped, Written, Taken>>
  <2>1. to \in {"call", "access"}
    OBVIOUS
  <2>2. to # "call" => Popped < Pushed
    BY <1>2, <1>5
  <2> QED
    BY <1>1, <1>2, <1>3, <1>6, <2>1, <2>2, LookCommon
<1>8. seen' = [t \in Threads |-> acquired'[t] + 1]
  BY <1>1, <1>2 DEF RingInv
<1>9. pc'[Pusher] = pc[Pusher] /\ pc'[Popper] = to
  BY <1>1, <1>2 DEF Common, TypeInv
<1>10. RingInv'
  BY <1>1, <1>2, <1>3, <1>4, <1>5, <1>7, <1>8, <1>9 DEF RingInv
<1> QED
  BY <1>1, <1>7, <1>10 DEF Inv, RaceFree

(* The calls that look at the other's index, or at the copy of it. *)
LEMMA RingPushLoadInv ==
  ASSUME Inv, queue # "slot", Running(Pusher), UNCHANGED testerVars,
         \/ RingPushLoad(FALSE) /\ queue # "caching"
         \/ RingPushLoad(TRUE) /\ queue = "caching"
         \/ RingPushHit /\ queue = "caching"
  PROVE  Inv'
<1>1. /\ RingInv /\ acquired \in [Threads -> Nat] /\ seen \in [Threads -> Nat]
      /\ seen[Pusher] = acquired[Pusher] + 1 /\ NextIdx(Latest(write_idx)) = Mod(Pushed + 1)
      /\ Common
  BY RingFacts
<1>2. Pusher \in Threads /\ Pushed \in Nat /\ Popped \in Nat /\ acquired[Pusher] \in Nat
  BY <1>1, Counters
<1>3. CASE RingPushHit /\ queue = "caching"
  <2>1. /\ pc[Pusher] = "call" /\ pc' = [pc EXCEPT ![Pusher] = "access"]
        /\ Mod(Pushed + 1) # read_idx_cache
        /\ UNCHANGED <<data, read_idx, write_idx, read_idx_cache, write_idx_cache, seen,
                       done, released, acquired, racy>>
    BY <1>1, <1>3 DEF RingPushHit, Goto, ringVars
  <2>2. read_idx_cache = Mod(acquired[Pusher]) /\ acquired[Pusher] <= Popped
    BY <1>1, <1>3 DEF RingInv
  <2> DEFINE a == acquired[Pusher]
  <2> DEFINE to == "access"
  <2>3. /\ acquired' = [acquired EXCEPT ![Pusher] = a]
        /\ seen' = [seen EXCEPT ![Pusher] = a + 1]
        /\ a \in Nat /\ acquired[Pusher] <= a /\ a <= Popped
        /\ queue = "caching" => read_idx_cache' = Mod(a)
    BY <1>1, <1>2, <2>1, <2>2
  <2>4. /\ pc' = [pc EXCEPT ![Pusher] = to]
        /\ to = "call" \/ (to = "access" /\ Mod(Pushed + 1) # Mod(a))
        /\ pc[Pusher] = "call"
        /\ UNCHANGED <<data, read_idx, write_idx, write_idx_cache, done, released, racy>>
    BY <2>1, <2>2
  <2> HIDE DEF a, to
  <2> QED
    BY <2>3, <2>4, RingPushLook
<1>4. CASE \/ RingPushLoad(FALSE) /\ queue # "caching"
           \/ RingPushLoad(TRUE) /\ queue = "caching"
  <2>1. PICK k \in Visible(read_idx, seen[Pusher]) :
          /\ seen' = [seen EXCEPT ![Pusher] = k]
          /\ AcquireFrom(Pusher, read_idx[k])
          /\ queue = "caching" => read_idx_cache' = read_idx[k].v
          /\ Goto(Pusher, "call", IF Mod(Pushed + 1) = read_idx[k].v THEN "call" ELSE "access")
          /\ UNCHANGED <<data, read_idx, write_idx, write_idx_cache, done, released, racy>>
    BY <1>1, <1>4 DEF RingPushLoad
  <2> DEFINE a == k - 1
  <2>2. k \in acquired[Pusher] + 1 .. Popped + 1
    BY <1>1, <1>2, MovedFacts DEF Visible, RingInv
  <2>3. a \in Nat /\ acquired[Pusher] <= a /\ a <= Popped /\ k = a + 1
    BY <2>2, <1>2
  <2>4. read_idx[k] = Store(Mod(a), a)
    <3>1. k \in 1 .. Popped + 1 /\ read_idx = Moved(Popped)
      BY <1>1, <1>2, <2>2 DEF RingInv
    <3> QED
      BY <3>1, <1>2, MovedFacts
  <2> HIDE DEF a
  <2>5. read_idx[k].v = Mod(a) /\ read_idx[k].n = a
    BY <2>4 DEF Store
  <2>6. acquired' = [acquired EXCEPT ![Pusher] = a]
    <3>1. (IF a > acquired[Pusher] THEN a ELSE acquired[Pusher]) = a
      BY <1>2, <2>3
    <3> QED
      BY <2>1, <2>5, <3>1 DEF AcquireFrom
  <2> DEFINE to == IF Mod(Pushed + 1) = Mod(a) THEN "call" ELSE "access"
  <2>7. pc[Pusher] = "call" /\ pc' = [pc EXCEPT ![Pusher] = to]
    BY <2>1, <2>5 DEF Goto
  <2>8. to = "call" \/ (to = "access" /\ Mod(Pushed + 1) # Mod(a))
    OBVIOUS
  <2>9. /\ seen' = [seen EXCEPT ![Pusher] = a + 1]
        /\ queue = "caching" => read_idx_cache' = Mod(a)
        /\ UNCHANGED <<data, read_idx, write_idx, write_idx_cache, done, released, racy>>
    BY <2>1, <2>3, <2>5
  <2> HIDE DEF to
  <2> QED
    BY <2>3, <2>6, <2>7, <2>8, <2>9, RingPushLook
<1> QED
  BY <1>3, <1>4

(* The same of the popper's. *)
LEMMA RingPopLoadInv ==
  ASSUME Inv, queue # "slot", Running(Popper), UNCHANGED testerVars,
         \/ RingPopLoad(FALSE) /\ queue # "caching"
         \/ RingPopLoad(TRUE) /\ queue = "caching"
         \/ RingPopHit /\ queue = "caching"
  PROVE  Inv'
<1>1. /\ RingInv /\ acquired \in [Threads -> Nat] /\ seen \in [Threads -> Nat]
      /\ seen[Popper] = acquired[Popper] + 1 /\ Latest(read_idx) = Mod(Popped)
      /\ Common
  BY RingFacts
<1>2. Popper \in Threads /\ Pushed \in Nat /\ Popped \in Nat /\ acquired[Popper] \in Nat
  BY <1>1, Counters
<1>3. CASE RingPopHit /\ queue = "caching"
  <2>1. /\ pc[Popper] = "call" /\ pc' = [pc EXCEPT ![Popper] = "access"]
        /\ Mod(Popped) # write_idx_cache
        /\ UNCHANGED <<data, read_idx, write_idx, read_idx_cache, write_idx_cache, seen,
                       done, released, acquired, racy>>
    BY <1>1, <1>3 DEF RingPopHit, Goto, ringVars
  <2>2. write_idx_cache = Mod(acquired[Popper]) /\ acquired[Popper] <= Pushed
    BY <1>1, <1>3 DEF RingInv
  <2> DEFINE a == acquired[Popper]
  <2> DEFINE to == "access"
  <2>3. /\ acquired' = [acquired EXCEPT ![Popper] = a]
        /\ seen' = [seen EXCEPT ![Popper] = a + 1]
        /\ a \in Nat /\ acquired[Popper] <= a /\ a <= Pushed
        /\ queue = "caching" => write_idx_cache' = Mod(a)
    BY <1>1, <1>2, <2>1, <2>2
  <2>4. /\ pc' = [pc EXCEPT ![Popper] = to]
        /\ to = "call" \/ (to = "access" /\ Mod(Popped) # Mod(a))
        /\ pc[Popper] = "call"
        /\ UNCHANGED <<data, read_idx, write_idx, read_idx_cache, done, released, racy>>
    BY <2>1, <2>2
  <2> HIDE DEF a, to
  <2> QED
    BY <2>3, <2>4, RingPopLook
<1>4. CASE \/ RingPopLoad(FALSE) /\ queue # "caching"
           \/ RingPopLoad(TRUE) /\ queue = "caching"
  <2>1. PICK k \in Visible(write_idx, seen[Popper]) :
          /\ seen' = [seen EXCEPT ![Popper] = k]
          /\ AcquireFrom(Popper, write_idx[k])
          /\ queue = "caching" => write_idx_cache' = write_idx[k].v
          /\ Goto(Popper, "call", IF Mod(Popped) = write_idx[k].v THEN "call" ELSE "access")
          /\ UNCHANGED <<data, read_idx, write_idx, read_idx_cache, done, released, racy>>
    BY <1>1, <1>4 DEF RingPopLoad
  <2> DEFINE a == k - 1
  <2>2. k \in acquired[Popper] + 1 .. Pushed + 1
    BY <1>1, <1>2, MovedFacts DEF Visible, RingInv
  <2>3. a \in Nat /\ acquired[Popper] <= a /\ a <= Pushed /\ k = a + 1
    BY <2>2, <1>2
  <2>4. write_idx[k] = Store(Mod(a), a)
    <3>1. k \in 1 .. Pushed + 1 /\ write_idx = Moved(Pushed)
      BY <1>1, <1>2, <2>2 DEF RingInv
    <3> QED
      BY <3>1, <1>2, MovedFacts
  <2> HIDE DEF a
  <2>5. write_idx[k].v = Mod(a) /\ write_idx[k].n = a
    BY <2>4 DEF Store
  <2>6. acquired' = [acquired EXCEPT ![Popper] = a]
    <3>1. (IF a > acquired[Popper] THEN a ELSE acquired[Popper]) = a
      BY <1>2, <2>3
    <3> QED
      BY <2>1, <2>5, <3>1 DEF AcquireFrom
  <2> DEFINE to == IF Mod(Popped) = Mod(a) THEN "call" ELSE "access"
  <2>7. pc[Popper] = "call" /\ pc' = [pc EXCEPT ![Popper] = to]
    BY <2>1, <2>5 DEF Goto
  <2>8. to = "call" \/ (to = "access" /\ Mod(Popped) # Mod(a))
    OBVIOUS
  <2>9. /\ seen' = [seen EXCEPT ![Popper] = a + 1]
        /\ queue = "caching" => write_idx_cache' = Mod(a)
        /\ UNCHANGED <<data, read_idx, write_idx, read_idx_cache, done, released, racy>>
    BY <2>1, <2>3, <2>5
  <2> HIDE DEF to
  <2> QED
    BY <2>3, <2>6, <2>7, <2>8, <2>9, RingPopLook
<1> QED
  BY <1>3, <1>4

(* The pusher's slot was read last by a pop a lap ago or more, which it has    *)
(* seen published.                                                           *)
LEMMA RingPushWriteInv ==
  ASSUME Inv, queue # "slot", Running(Pusher), UNCHANGED testerVars, RingPushWrite
  PROVE  Inv'
<1> DEFINE i == Mod(Pushed)
<1>1. /\ RingInv /\ Common /\ Elements = data /\ queue' = queue
      /\ i \in Slots /\ data \in [Slots -> Element]
  BY RingFacts DEF Common, ElementsInv, testerVars
<1>2. /\ pc[Pusher] = "access" /\ pc' = [pc EXCEPT ![Pusher] = "publish"]
      /\ racy' = (racy \/ Races(Pusher, data[i]))
      /\ data' = [data EXCEPT ![i] = Touch(Pusher, done[Pusher])]
      /\ UNCHANGED <<read_idx, write_idx, read_idx_cache, write_idx_cache, seen,
                     done, val, released, acquired>>
  BY RingFacts DEF RingPushWrite, Goto
<1>3. /\ Pushed \in Nat /\ Popped \in Nat /\ Taken \in Nat /\ Taken <= Pushed /\ Capacity \in Nat
      /\ acquired[Pusher] \in Nat /\ released[Pusher] = Pushed
      /\ Pusher \in Threads /\ Popper \in Threads /\ Pusher # Popper
  BY <1>1, Counters, SlotFacts
<1>4. ~Races(Pusher, data[i])
  <2> SUFFICES ASSUME data[i].by \notin {Pusher, None} PROVE ~(acquired[Pusher] < data[i].at)
    BY DEF Races
  <2> DEFINE at == data[i].at
  <2>1. data[i].by = Popper /\ at \in Nat
    BY <1>1 DEF Element, Threads
  <2>2. at <= Taken /\ at > 0 /\ Mod(at - 1) = Mod(Pushed)
    BY <1>1, <2>1 DEF Common, ElementsInv, RingInv
  <2> HIDE DEF at
  <2>3. at - 1 \in Nat /\ at - 1 < Pushed
    BY <1>3, <2>1, <2>2
  <2>4. Pushed >= at - 1 + Capacity
    BY <1>3, <2>2, <2>3, SlotFacts
  <2>5. Pushed + 1 < acquired[Pusher] + Capacity
    BY <1>1, <1>2 DEF RingInv
  <2>6. ~(acquired[Pusher] < at)
    BY <1>3, <2>1, <2>4, <2>5
  <2> QED
    BY <2>6 DEF at
<1>5. Elements' = [Elements EXCEPT ![Mod(Pushed)] = Touch(Pusher, done[Pusher])]
  BY <1>1, <1>2 DEF Elements
<1>6. Common' /\ UNCHANGED <<Pushed, Popped, Taken>>
  BY <1>1, <1>2, <1>5, WriteCommon
<1>7. ASSUME NEW k \in Slots, data'[k].by # None
      PROVE  data'[k].at > 0 /\ Mod(data'[k].at - 1) = k
  <2>1. CASE k = i
    <3>1. data'[k].at = Pushed + 1
      BY <1>1, <1>2, <1>3, <2>1 DEF Touch
    <3>2. Pushed + 1 > 0 /\ (Pushed + 1) - 1 = Pushed
      BY <1>3
    <3> QED
      BY <2>1, <3>1, <3>2
  <2>2. CASE k # i
    BY <1>1, <1>2, <1>7, <2>2 DEF RingInv
  <2> QED
    BY <2>1, <2>2
<1>8. pc'[Popper] = pc[Popper] /\ pc'[Pusher] = "publish"
  BY <1>1, <1>2, <1>3 DEF Common, TypeInv
<1> HIDE DEF i
<1>9. RingInv'
  BY <1>1, <1>2, <1>6, <1>7, <1>8 DEF RingInv
<1> QED
  BY <1>1, <1>2, <1>4, <1>6, <1>9 DEF Inv, RaceFree

(* The popper's slot was written last by the push of the value it is to pop,   *)
(* which it has seen published.                                              *)
LEMMA RingPopReadInv ==
  ASSUME Inv, queue # "slot", Running(Popper), UNCHANGED testerVars, RingPopRead
  PROVE  Inv'
<1> DEFINE i == Mod(Popped)
<1>1. /\ RingInv /\ Common /\ Elements = data /\ queue' = queue
      /\ i \in Slots /\ data \in [Slots -> Element]
  BY RingFacts DEF Common, ElementsInv, testerVars
<1>2. /\ pc[Popper] = "access" /\ pc' = [pc EXCEPT ![Popper] = "publish"]
      /\ racy' = (racy \/ Races(Popper, data[i]))
      /\ data' = [data EXCEPT ![i] = Touch(Popper, @.v)]
      /\ UNCHANGED <<read_idx, write_idx, read_idx_cache, write_idx_cache, seen,
                     done, released, acquired>>
  BY RingFacts DEF RingPopRead, Goto
<1>3. /\ Pushed \in Nat /\ Popped \in Nat /\ Written \in Nat /\ Written <= Popped + Capacity
      /\ Capacity \in Nat /\ acquired[Popper] \in Nat /\ released[Popper] = Popped
      /\ Pusher \in Threads /\ Popper \in Threads /\ Pusher # Popper
  BY <1>1, Counters, SlotFacts
<1>4. ~Races(Popper, data[i])
  <2> SUFFICES ASSUME data[i].by \notin {Popper, None} PROVE ~(acquired[Popper] < data[i].at)
    BY DEF Races
  <2> DEFINE at == data[i].at
  <2>1. data[i].by = Pusher /\ at \in Nat
    BY <1>1 DEF Element, Threads
  <2>2. at <= Written /\ at > 0 /\ Mod(at - 1) = Mod(Popped)
    BY <1>1, <2>1 DEF Common, ElementsInv, RingInv
  <2> HIDE DEF at
  <2>3. at - 1 \in Nat /\ at - 1 < Popped + Capacity
    BY <1>3, <2>1, <2>2
  <2>4. at - 1 <= Popped
    BY <1>3, <2>2, <2>3, SlotFacts
  <2>5. Popped < acquired[Popper]
    BY <1>1, <1>2 DEF RingInv
  <2>6. ~(acquired[Popper] < at)
    BY <1>3, <2>1, <2>4, <2>5
  <2> QED
    BY <2>6 DEF at
<1>5. Elements' = [Elements EXCEPT ![Mod(Popped)] = Touch(Popper, @.v)]
  BY <1>1, <1>2 DEF Elements
<1>6. Common' /\ UNCHANGED <<Pushed, Popped, Written>>
  BY <1>1, <1>2, <1>5, ReadCommon
<1>7. ASSUME NEW k \in Slots, data'[k].by # None
      PROVE  data'[k].at > 0 /\ Mod(data'[k].at - 1) = k
  <2>1. CASE k = i
    <3>1. data'[k].at = Popped + 1
      BY <1>1, <1>2, <1>3, <2>1 DEF Touch
    <3>2. Popped + 1 > 0 /\ (Popped + 1) - 1 = Popped
      BY <1>3
    <3> QED
      BY <2>1, <3>1, <3>2
  <2>2. CASE k # i
    BY <1>1, <1>2, <1>7, <2>2 DEF RingInv
  <2> QED
    BY <2>1, <2>2
<1>8. pc'[Pusher] = pc[Pusher] /\ pc'[Popper] = "publish"
  BY <1>1, <1>2, <1>3 DEF Common, TypeInv
<1> HIDE DEF i
<1>9. RingInv'
  BY <1>1, <1>2, <1>6, <1>7, <1>8 DEF RingInv
<1> QED
  BY <1>1, <1>2, <1>4, <1>6, <1>9 DEF Inv, RaceFree

(* The pusher shows its value: one store more to the index. *)
LEMMA RingPushPublishInv ==
  ASSUME Inv, queue # "slot", Running(Pusher), UNCHANGED testerVars, RingPushPublish
  PROVE  Inv'
<1>1. RingInv /\ Common /\ queue' = queue
  BY RingFacts DEF testerVars
<1>2. /\ write_idx' = Append(write_idx, Store(Mod(Pushed + 1), released[Pusher] + 1))
      /\ Return(Pusher)
      /\ UNCHANGED <<data, read_idx, read_idx_cache, write_idx_cache, seen, val, acquired, racy>>
  BY RingFacts DEF RingPushPublish, ReleaseStore
<1>3. /\ Pushed \in Nat /\ Popped \in Nat /\ Capacity \in Nat
      /\ acquired[Pusher] \in Nat /\ acquired[Popper] \in Nat /\ released[Pusher] = Pushed
      /\ Pusher \in Threads /\ Popper \in Threads /\ Pusher # Popper
  BY <1>1, Counters, SlotFacts
<1>4. Elements' = Elements
  BY <1>1, <1>2 DEF Elements
<1>5. Common' /\ Pushed' = Pushed + 1 /\ Popped' = Popped
  BY <1>1, <1>2, <1>3, <1>4, PublishCommon
<1>6. write_idx' = Moved(Pushed')
  BY <1>1, <1>2, <1>3, <1>5, MovedFacts DEF RingInv
<1>7. pc[Pusher] = "publish" /\ pc'[Pusher] = "call" /\ pc'[Popper] = pc[Popper]
  BY <1>1, <1>2, <1>3 DEF Return, Goto, Common, TypeInv
<1>8. RingInv'
  BY <1>1, <1>2, <1>3, <1>5, <1>6, <1>7 DEF RingInv
<1> QED
  BY <1>1, <1>2, <1>5, <1>8 DEF Inv, RaceFree

(* The popper gives its slot back. *)
LEMMA RingPopPublishInv ==
  ASSUME Inv, queue # "slot", Running(Popper), UNCHANGED testerVars, RingPopPublish
  PROVE  Inv'
<1>1. RingInv /\ Common /\ queue' = queue
  BY RingFacts DEF testerVars
<1>2. /\ read_idx' = Append(read_idx, Store(Mod(Popped + 1), released[Popper] + 1))
      /\ Return(Popper)
      /\ UNCHANGED <<data, write_idx, read_idx_cache, write_idx_cache, seen, val, acquired, racy>>
  BY RingFacts DEF RingPopPublish, ReleaseStore
<1>3. /\ Pushed \in Nat /\ Popped \in Nat /\ Capacity \in Nat
      /\ acquired[Pusher] \in Nat /\ acquired[Popper] \in Nat /\ released[Popper] = Popped
      /\ Pusher \in Threads /\ Popper \in Threads /\ Pusher # Popper
  BY <1>1, Counters, SlotFacts
<1>4. Elements' = Elements
  BY <1>1, <1>2 DEF Elements
<1>5. Common' /\ Popped' = Popped + 1 /\ Pushed' = Pushed
  BY <1>1, <1>2, <1>3, <1>4, PublishCommon
<1>6. read_idx' = Moved(Popped')
  BY <1>1, <1>2, <1>3, <1>5, MovedFacts DEF RingInv
<1>7. pc[Popper] = "publish" /\ pc'[Popper] = "call" /\ pc'[Pusher] = pc[Pusher]
  BY <1>1, <1>2, <1>3 DEF Return, Goto, Common, TypeInv
<1>8. RingInv'
  BY <1>1, <1>2, <1>3, <1>5, <1>6, <1>7 DEF RingInv
<1> QED
  BY <1>1, <1>2, <1>5, <1>8 DEF Inv, RaceFree

-----------------------------------------------------------------------------
(***************************************************************************)
(* The ring with flags.                                                    *)
(***************************************************************************)
(* What is known at every step of it: whose turn the flag says it is. *)
LEMMA FlagFacts ==
  ASSUME Inv, queue = "slot"
  PROVE  /\ SlotInv /\ Common /\ Elements = slot_data /\ slot_data \in [Slots -> Element]
         /\ SlotOf(slot_write_idx) = Mod(Pushed) /\ SlotOf(slot_read_idx) = Mod(Popped)
         /\ Mod(Pushed) \in Slots /\ Mod(Popped) \in Slots
         /\ pc[Pusher] # "call" => ~Last(written[Mod(Pushed)]).v
         /\ pc[Popper] # "call" => Last(written[Mod(Popped)]).v
         /\ pc[Pusher] # "call" /\ pc[Popper] # "call" => Mod(Pushed) # Mod(Popped)
<1>1. SlotInv /\ Common /\ Elements = slot_data
  BY DEF Inv, Elements
<1>2. Pushed \in Nat /\ Popped \in Nat /\ Capacity \in Nat
  BY <1>1, Counters, SlotFacts
<1>3. slot_data \in [Slots -> Element]
  BY <1>1 DEF Common, ElementsInv
<1>4. /\ SlotOf(slot_write_idx) = Mod(Pushed) /\ SlotOf(slot_read_idx) = Mod(Popped)
      /\ Mod(Pushed) \in Slots /\ Mod(Popped) \in Slots
  BY <1>1, <1>2, SlotFacts DEF SlotInv, FlagTypes
<1>5. ASSUME pc[Pusher] # "call", Last(written[Mod(Pushed)]).v PROVE FALSE
  <2>1. PICK j \in Nat : Popped <= j /\ j < Pushed /\ Mod(j) = Mod(Pushed)
    BY <1>1, <1>4, <1>5 DEF SlotInv, FlagInv
  <2>2. Pushed < j + Capacity
    BY <1>1, <1>2, <1>5, <2>1 DEF Common, OrderInv
  <2> QED
    BY <1>2, <2>1, <2>2, SlotFacts
<1>6. pc[Popper] # "call" => Last(written[Mod(Popped)]).v
  BY <1>1, <1>2 DEF Common, OrderInv, SlotInv, FlagInv
<1>7. pc[Pusher] # "call" /\ pc[Popper] # "call" => Mod(Pushed) # Mod(Popped)
  BY <1>1, <1>2, SlotFacts DEF Common, OrderInv
<1> QED
  BY <1>1, <1>3, <1>4, <1>5, <1>6, <1>7

(* The pusher looks at the flag of its slot; if it sees that the slot is free  *)
(* then it sees the last store, and acquires what the popper did before it.  *)
LEMMA SlotPushLoadInv ==
  ASSUME Inv, queue = "slot", Running(Pusher), UNCHANGED testerVars, SlotPushLoad
  PROVE  Inv'
<1> DEFINE i == Mod(Pushed)
<1>1. /\ SlotInv /\ Common /\ Elements = slot_data /\ queue' = queue
      /\ SlotOf(slot_write_idx) = i /\ i \in Slots /\ acquired \in [Threads -> Nat]
  BY FlagFacts DEF testerVars, Common, TypeInv
<1>2. /\ Pushed \in Nat /\ Popped \in Nat /\ Pusher \in Threads /\ Popper \in Threads
      /\ Pusher # Popper /\ Capacity \in Nat /\ acquired[Pusher] \in Nat
  BY <1>1, Counters, SlotFacts
<1>3. PICK k \in Visible(written[i], slot_seen[Pusher][i]) :
        /\ slot_seen' = [slot_seen EXCEPT ![Pusher][i] = k]
        /\ AcquireFrom(Pusher, written[i][k])
        /\ Goto(Pusher, "call", IF written[i][k].v = FALSE THEN "access" ELSE "call")
  BY <1>1 DEF SlotPushLoad, LoadFlag
<1>4. UNCHANGED <<written, slot_data, slot_read_idx, slot_write_idx, done, released, racy>>
  BY DEF SlotPushLoad, LoadFlag
<1>5. /\ slot_seen \in [Threads -> [Slots -> Nat]] /\ slot_seen[Pusher][i] \in 1 .. Len(written[i])
      /\ written[i] \in Seq(Flag)
  BY <1>1, <1>2 DEF SlotInv, FlagTypes
<1>6. /\ k \in slot_seen[Pusher][i] .. Len(written[i]) /\ k \in 1 .. Len(written[i])
      /\ Len(written[i]) \in Nat
  BY <1>5, LenProperties DEF Visible
<1>7. written[i][k] \in Flag /\ written[i][k].v \in BOOLEAN /\ written[i][k].n \in Nat
  <2>1. written[i][k] \in Flag
    BY <1>5, <1>6, ElementOfSeq
  <2> QED
    BY <2>1 DEF Flag
<1> DEFINE a == written[i][k].n
<1> DEFINE to == IF written[i][k].v = FALSE THEN "access" ELSE "call"
<1>8. /\ acquired' \in [Threads -> Nat] /\ acquired'[Popper] = acquired[Popper]
      /\ a <= acquired'[Pusher] /\ acquired[Pusher] <= acquired'[Pusher]
  <2>1. acquired' = [acquired EXCEPT ![Pusher] = IF a > acquired[Pusher] THEN a ELSE acquired[Pusher]]
    BY <1>3 DEF AcquireFrom
  <2>2. a \in Nat
    BY <1>7
  <2> HIDE DEF a
  <2> QED
    BY <1>1, <1>2, <2>1, <2>2
<1>9. /\ pc[Pusher] = "call" /\ pc' = [pc EXCEPT ![Pusher] = to] /\ to \in {"call", "access"}
      /\ to = "access" => written[i][k].v = FALSE
  BY <1>3 DEF Goto
<1>10. to = "access" => k = Len(written[i]) /\ ~Last(written[i]).v
  BY <1>1, <1>6, <1>9 DEF SlotInv, FlagInv, Visible, Last
<1> HIDE DEF to
<1>11. to # "call" => Pushed < Popped + Capacity
  <2> SUFFICES ASSUME to # "call", ~(Pushed < Popped + Capacity) PROVE FALSE
    OBVIOUS
  <2>1. Pushed = Popped + Capacity
    BY <1>1, <1>2 DEF Common, OrderInv
  <2>2. Mod(Popped) = i
    BY <1>2, <2>1, SlotFacts
  <2>3. Popped < Pushed
    BY <1>2, <2>1, SlotFacts
  <2>4. Last(written[i]).v
    BY <1>1, <1>2, <2>2, <2>3 DEF SlotInv, FlagInv
  <2> QED
    BY <1>9, <1>10, <2>4
<1>12. Elements' = Elements
  BY <1>1, <1>4 DEF Elements
<1>13. Common' /\ UNCHANGED <<Pushed, Popped, Written, Taken>>
  BY <1>1, <1>2, <1>4, <1>8, <1>9, <1>11, <1>12, LookCommon
<1>14. pc'[Popper] = pc[Popper] /\ pc'[Pusher] = to
  BY <1>1, <1>2, <1>9 DEF Common, TypeInv
<1>15. /\ slot_seen' \in [Threads -> [Slots -> Nat]]
       /\ slot_seen'[Pusher][i] = k /\ slot_seen'[Popper] = slot_seen[Popper]
       /\ \A j \in Slots : j # i => slot_seen'[Pusher][j] = slot_seen[Pusher][j]
  BY <1>1, <1>2, <1>3, <1>5, <1>6
<1> HIDE DEF i
<1>16. FlagTypes'
  BY <1>1, <1>4, <1>6, <1>13, <1>15 DEF SlotInv, FlagTypes, Threads
<1>17. FlagInv'
  <2>1. ASSUME NEW j \in Slots, NEW l \in Visible(written[j], slot_seen'[Pusher][j]), ~written[j][l].v
        PROVE  l = Len(written[j])
    <3>1. CASE j = i
      <4>1. l \in Visible(written[i], slot_seen[Pusher][i])
        BY <1>5, <1>6, <1>15, <2>1, <3>1 DEF Visible
      <4> QED
        BY <1>1, <2>1, <3>1, <4>1 DEF SlotInv, FlagInv
    <3>2. CASE j # i
      BY <1>1, <1>15, <2>1, <3>2 DEF SlotInv, FlagInv
    <3> QED
      BY <3>1, <3>2
  <2> QED
    BY <1>1, <1>4, <1>13, <1>15, <2>1 DEF SlotInv, FlagInv
<1>18. CoverInv'
  <2>1. ASSUME to = "access", slot_data[i].by = Popper, slot_data[i].by # None
        PROVE  slot_data[i].at <= acquired'[Pusher]
    <3>1. slot_data[i].at <= Last(written[i]).n /\ Last(written[i]).n = a
      BY <1>1, <1>10, <2>1 DEF SlotInv, CoverInv, Last
    <3>2. slot_data[i].at \in Nat /\ a \in Nat /\ acquired'[Pusher] \in Nat
      BY <1>1, <1>2, <1>7, <1>8, FlagFacts DEF Element
    <3> QED
      BY <1>8, <3>1, <3>2
  <2> QED
    BY <1>1, <1>4, <1>8, <1>13, <1>14, <2>1 DEF SlotInv, CoverInv, i
<1> QED
  BY <1>1, <1>4, <1>13, <1>16, <1>17, <1>18 DEF Inv, RaceFree, SlotInv

(* The popper's look, at the flag of the slot it is to empty. *)
LEMMA SlotPopLoadInv ==
  ASSUME Inv, queue = "slot", Running(Popper), UNCHANGED testerVars, SlotPopLoad
  PROVE  Inv'
<1> DEFINE i == Mod(Popped)
<1>1. /\ SlotInv /\ Common /\ Elements = slot_data /\ queue' = queue
      /\ SlotOf(slot_read_idx) = i /\ i \in Slots /\ acquired \in [Threads -> Nat]
  BY FlagFacts DEF testerVars, Common, TypeInv
<1>2. /\ Pushed \in Nat /\ Popped \in Nat /\ Pusher \in Threads /\ Popper \in Threads
      /\ Pusher # Popper /\ acquired[Popper] \in Nat
  BY <1>1, Counters
<1>3. PICK k \in Visible(written[i], slot_seen[Popper][i]) :
        /\ slot_seen' = [slot_seen EXCEPT ![Popper][i] = k]
        /\ AcquireFrom(Popper, written[i][k])
        /\ Goto(Popper, "call", IF written[i][k].v = TRUE THEN "access" ELSE "call")
  BY <1>1 DEF SlotPopLoad, LoadFlag
<1>4. UNCHANGED <<written, slot_data, slot_read_idx, slot_write_idx, done, released, racy>>
  BY DEF SlotPopLoad, LoadFlag
<1>5. /\ slot_seen \in [Threads -> [Slots -> Nat]] /\ slot_seen[Popper][i] \in 1 .. Len(written[i])
      /\ written[i] \in Seq(Flag)
  BY <1>1, <1>2 DEF SlotInv, FlagTypes
<1>6. /\ k \in slot_seen[Popper][i] .. Len(written[i]) /\ k \in 1 .. Len(written[i])
      /\ Len(written[i]) \in Nat
  BY <1>5, LenProperties DEF Visible
<1>7. written[i][k] \in Flag /\ written[i][k].v \in BOOLEAN /\ written[i][k].n \in Nat
  <2>1. written[i][k] \in Flag
    BY <1>5, <1>6, ElementOfSeq
  <2> QED
    BY <2>1 DEF Flag
<1> DEFINE a == written[i][k].n
<1> DEFINE to == IF written[i][k].v = TRUE THEN "access" ELSE "call"
<1>8. /\ acquired' \in [Threads -> Nat] /\ acquired'[Pusher] = acquired[Pusher]
      /\ a <= acquired'[Popper] /\ acquired[Popper] <= acquired'[Popper]
  <2>1. acquired' = [acquired EXCEPT ![Popper] = IF a > acquired[Popper] THEN a ELSE acquired[Popper]]
    BY <1>3 DEF AcquireFrom
  <2>2. a \in Nat
    BY <1>7
  <2> HIDE DEF a
  <2> QED
    BY <1>1, <1>2, <2>1, <2>2
<1>9. /\ pc[Popper] = "call" /\ pc' = [pc EXCEPT ![Popper] = to] /\ to \in {"call", "access"}
      /\ to = "access" => written[i][k].v = TRUE
  BY <1>3 DEF Goto
<1>10. to = "access" => k = Len(written[i]) /\ Last(written[i]).v
  BY <1>1, <1>6, <1>9 DEF SlotInv, FlagInv, Visible, Last
<1> HIDE DEF to
<1>11. to # "call" => Popped < Pushed
  BY <1>1, <1>2, <1>9, <1>10 DEF SlotInv, FlagInv
<1>12. Elements' = Elements
  BY <1>1, <1>4 DEF Elements
<1>13. Common' /\ UNCHANGED <<Pushed, Popped, Written, Taken>>
  BY <1>1, <1>2, <1>4, <1>8, <1>9, <1>11, <1>12, LookCommon
<1>14. pc'[Pusher] = pc[Pusher] /\ pc'[Popper] = to
  BY <1>1, <1>2, <1>9 DEF Common, TypeInv
<1>15. /\ slot_seen' \in [Threads -> [Slots -> Nat]]
       /\ slot_seen'[Popper][i] = k /\ slot_seen'[Pusher] = slot_seen[Pusher]
       /\ \A j \in Slots : j # i => slot_seen'[Popper][j] = slot_seen[Popper][j]
  BY <1>1, <1>2, <1>3, <1>5, <1>6
<1> HIDE DEF i
<1>16. FlagTypes'
  BY <1>1, <1>4, <1>6, <1>13, <1>15 DEF SlotInv, FlagTypes, Threads
<1>17. FlagInv'
  <2>1. ASSUME NEW j \in Slots, NEW l \in Visible(written[j], slot_seen'[Popper][j]), written[j][l].v
        PROVE  l = Len(written[j])
    <3>1. CASE j = i
      <4>1. l \in Visible(written[i], slot_seen[Popper][i])
        BY <1>5, <1>6, <1>15, <2>1, <3>1 DEF Visible
      <4> QED
        BY <1>1, <2>1, <3>1, <4>1 DEF SlotInv, FlagInv
    <3>2. CASE j # i
      BY <1>1, <1>15, <2>1, <3>2 DEF SlotInv, FlagInv
    <3> QED
      BY <3>1, <3>2
  <2> QED
    BY <1>1, <1>4, <1>13, <1>15, <2>1 DEF SlotInv, FlagInv
<1>18. CoverInv'
  <2>1. ASSUME to = "access", slot_data[i].by = Pusher, slot_data[i].by # None
        PROVE  slot_data[i].at <= acquired'[Popper]
    <3>1. slot_data[i].at <= Last(written[i]).n /\ Last(written[i]).n = a
      BY <1>1, <1>10, <2>1 DEF SlotInv, CoverInv, Last
    <3>2. slot_data[i].at \in Nat /\ a \in Nat /\ acquired'[Popper] \in Nat
      BY <1>1, <1>2, <1>7, <1>8, FlagFacts DEF Element
    <3> QED
      BY <1>8, <3>1, <3>2
  <2> QED
    BY <1>1, <1>4, <1>8, <1>13, <1>14, <2>1 DEF SlotInv, CoverInv, i
<1> QED
  BY <1>1, <1>4, <1>13, <1>16, <1>17, <1>18 DEF Inv, RaceFree, SlotInv

(* The pusher writes: it has acquired the last read of the slot. *)
LEMMA SlotPushWriteInv ==
  ASSUME Inv, queue = "slot", Running(Pusher), UNCHANGED testerVars, SlotPushWrite
  PROVE  Inv'
<1> DEFINE i == Mod(Pushed)
<1>1. /\ SlotInv /\ Common /\ Elements = slot_data /\ queue' = queue
      /\ i \in Slots /\ slot_data \in [Slots -> Element]
  BY FlagFacts DEF testerVars
<1>2. /\ pc[Pusher] = "access" /\ pc' = [pc EXCEPT ![Pusher] = "publish"]
      /\ racy' = (racy \/ Races(Pusher, slot_data[i]))
      /\ slot_data' = [slot_data EXCEPT ![i] = Touch(Pusher, done[Pusher])]
      /\ UNCHANGED <<written, slot_read_idx, slot_write_idx, slot_seen, done,
                     released, acquired>>
  BY FlagFacts DEF SlotPushWrite, Goto
<1>3. /\ Pushed \in Nat /\ acquired[Pusher] \in Nat
      /\ Pusher \in Threads /\ Popper \in Threads /\ Pusher # Popper
  BY <1>1, Counters
<1>4. ~Races(Pusher, slot_data[i])
  <2> SUFFICES ASSUME slot_data[i].by \notin {Pusher, None}
               PROVE  ~(acquired[Pusher] < slot_data[i].at)
    BY DEF Races
  <2>1. slot_data[i].by = Popper /\ slot_data[i].at \in Nat
    BY <1>1 DEF Element, Threads
  <2>2. slot_data[i].at <= acquired[Pusher]
    BY <1>1, <1>2, <2>1 DEF SlotInv, CoverInv
  <2> QED
    BY <1>3, <2>1, <2>2
<1>5. Elements' = [Elements EXCEPT ![Mod(Pushed)] = Touch(Pusher, done[Pusher])]
  BY <1>1, <1>2 DEF Elements
<1>6. Common' /\ UNCHANGED <<Pushed, Popped, Taken>>
  BY <1>1, <1>2, <1>5, WriteCommon
<1>7. pc'[Popper] = pc[Popper] /\ pc'[Pusher] = "publish"
  BY <1>1, <1>2, <1>3 DEF Common, TypeInv
<1>8. ~Last(written[i]).v /\ (pc[Popper] # "call" => Mod(Popped) # i) /\ Mod(Popped) \in Slots
  BY <1>2, FlagFacts
<1>9. /\ slot_data'[i].by = Pusher
      /\ \A j \in Slots : j # i => slot_data'[j] = slot_data[j]
  BY <1>1, <1>2 DEF Touch
<1> HIDE DEF i
<1>10. FlagTypes' /\ FlagInv'
  BY <1>1, <1>2, <1>6 DEF SlotInv, FlagTypes, FlagInv
<1>11. CoverInv'
  <2>1. ASSUME NEW j \in Slots, slot_data'[j].by # None
        PROVE  /\ ~Last(written[j]).v /\ slot_data'[j].by = Popper =>
                    slot_data'[j].at <= Last(written[j]).n
               /\ Last(written[j]).v /\ slot_data'[j].by = Pusher =>
                    slot_data'[j].at <= Last(written[j]).n
    <3>1. CASE j = i
      BY <1>3, <1>8, <1>9, <3>1
    <3>2. CASE j # i
      BY <1>1, <1>9, <2>1, <3>2 DEF SlotInv, CoverInv
    <3> QED
      BY <3>1, <3>2
  <2>2. pc[Popper] = "access" => slot_data'[Mod(Popped)] = slot_data[Mod(Popped)]
    BY <1>8, <1>9
  <2> QED
    BY <1>1, <1>2, <1>6, <1>7, <2>1, <2>2 DEF SlotInv, CoverInv
<1> QED
  BY <1>1, <1>2, <1>4, <1>6, <1>10, <1>11 DEF Inv, RaceFree, SlotInv

(* The popper reads: it has acquired the write of the value. *)
LEMMA SlotPopReadInv ==
  ASSUME Inv, queue = "slot", Running(Popper), UNCHANGED testerVars, SlotPopRead
  PROVE  Inv'
<1> DEFINE i == Mod(Popped)
<1>1. /\ SlotInv /\ Common /\ Elements = slot_data /\ queue' = queue
      /\ i \in Slots /\ slot_data \in [Slots -> Element]
  BY FlagFacts DEF testerVars
<1>2. /\ pc[Popper] = "access" /\ pc' = [pc EXCEPT ![Popper] = "publish"]
      /\ racy' = (racy \/ Races(Popper, slot_data[i]))
      /\ slot_data' = [slot_data EXCEPT ![i] = Touch(Popper, @.v)]
      /\ UNCHANGED <<written, slot_read_idx, slot_write_idx, slot_seen, done,
                     released, acquired>>
  BY FlagFacts DEF SlotPopRead, Goto
<1>3. /\ Popped \in Nat /\ acquired[Popper] \in Nat
      /\ Pusher \in Threads /\ Popper \in Threads /\ Pusher # Popper
  BY <1>1, Counters
<1>4. ~Races(Popper, slot_data[i])
  <2> SUFFICES ASSUME slot_data[i].by \notin {Popper, None}
               PROVE  ~(acquired[Popper] < slot_data[i].at)
    BY DEF Races
  <2>1. slot_data[i].by = Pusher /\ slot_data[i].at \in Nat
    BY <1>1 DEF Element, Threads
  <2>2. slot_data[i].at <= acquired[Popper]
    BY <1>1, <1>2, <2>1 DEF SlotInv, CoverInv
  <2> QED
    BY <1>3, <2>1, <2>2
<1>5. Elements' = [Elements EXCEPT ![Mod(Popped)] = Touch(Popper, @.v)]
  BY <1>1, <1>2 DEF Elements
<1>6. Common' /\ UNCHANGED <<Pushed, Popped, Written>>
  BY <1>1, <1>2, <1>5, ReadCommon
<1>7. pc'[Pusher] = pc[Pusher] /\ pc'[Popper] = "publish"
  BY <1>1, <1>2, <1>3 DEF Common, TypeInv
<1>8. Last(written[i]).v /\ (pc[Pusher] # "call" => Mod(Pushed) # i) /\ Mod(Pushed) \in Slots
  BY <1>2, FlagFacts
<1>9. /\ slot_data'[i].by = Popper
      /\ \A j \in Slots : j # i => slot_data'[j] = slot_data[j]
  BY <1>1, <1>2 DEF Touch
<1> HIDE DEF i
<1>10. FlagTypes' /\ FlagInv'
  BY <1>1, <1>2, <1>6 DEF SlotInv, FlagTypes, FlagInv
<1>11. CoverInv'
  <2>1. ASSUME NEW j \in Slots, slot_data'[j].by # None
        PROVE  /\ ~Last(written[j]).v /\ slot_data'[j].by = Popper =>
                    slot_data'[j].at <= Last(written[j]).n
               /\ Last(written[j]).v /\ slot_data'[j].by = Pusher =>
                    slot_data'[j].at <= Last(written[j]).n
    <3>1. CASE j = i
      BY <1>3, <1>8, <1>9, <3>1
    <3>2. CASE j # i
      BY <1>1, <1>9, <2>1, <3>2 DEF SlotInv, CoverInv
    <3> QED
      BY <3>1, <3>2
  <2>2. pc[Pusher] = "access" => slot_data'[Mod(Pushed)] = slot_data[Mod(Pushed)]
    BY <1>8, <1>9
  <2> QED
    BY <1>1, <1>2, <1>6, <1>7, <2>1, <2>2 DEF SlotInv, CoverInv
<1> QED
  BY <1>1, <1>2, <1>4, <1>6, <1>10, <1>11 DEF Inv, RaceFree, SlotInv

(* A store to a flag: the flag's last, seen by the thread that made it. *)
LEMMA StoreFacts ==
  ASSUME FlagTypes, NEW t \in Threads, NEW i \in Slots, NEW flag \in BOOLEAN,
         released[t] \in Nat, StoreFlag(t, i, flag)
  PROVE  /\ written' \in [Slots -> Seq(Flag)]
         /\ \A j \in Slots : j # i => written'[j] = written[j]
         /\ Len(written[i]) \in Nat /\ Len(written'[i]) = Len(written[i]) + 1
         /\ Last(written'[i]).v = flag /\ Last(written'[i]).n = released[t] + 1
         /\ \A k \in 1 .. Len(written[i]) : written'[i][k] = written[i][k]
         /\ written'[i][Len(written[i]) + 1].v = flag
         /\ slot_seen' \in [Threads -> [Slots -> Nat]]
         /\ slot_seen'[t][i] = Len(written[i]) + 1
         /\ \A u \in Threads, j \in Slots : u # t \/ j # i => slot_seen'[u][j] = slot_seen[u][j]
         /\ \A u \in Threads, j \in Slots : slot_seen'[u][j] \in 1 .. Len(written'[j])
<1> DEFINE s == Store(flag, released[t] + 1)
<1>1. s \in Flag /\ s.v = flag /\ s.n = released[t] + 1
  BY DEF Store, Flag
<1>2. written' = [written EXCEPT ![i] = Append(@, s)]
      /\ slot_seen' = [slot_seen EXCEPT ![t][i] = Len(written[i]) + 1]
  BY DEF StoreFlag, ReleaseStore
<1> HIDE DEF s
<1>3. /\ written \in [Slots -> Seq(Flag)] /\ slot_seen \in [Threads -> [Slots -> Nat]]
      /\ Len(written[i]) \in Nat
      /\ \A u \in Threads, j \in Slots : slot_seen[u][j] \in 1 .. Len(written[j])
  BY LenProperties DEF FlagTypes
<1>4. /\ Append(written[i], s) \in Seq(Flag) /\ Len(Append(written[i], s)) = Len(written[i]) + 1
      /\ \A k \in 1 .. Len(written[i]) : Append(written[i], s)[k] = written[i][k]
      /\ Append(written[i], s)[Len(written[i]) + 1] = s
  BY <1>1, <1>3, AppendProperties
<1>5. /\ written' \in [Slots -> Seq(Flag)] /\ written'[i] = Append(written[i], s)
      /\ \A j \in Slots : j # i => written'[j] = written[j]
  BY <1>2, <1>3, <1>4
<1>6. /\ slot_seen' \in [Threads -> [Slots -> Nat]] /\ slot_seen'[t][i] = Len(written[i]) + 1
      /\ \A u \in Threads, j \in Slots : u # t \/ j # i => slot_seen'[u][j] = slot_seen[u][j]
  BY <1>2, <1>3
<1>7. Last(written'[i]) = s
  BY <1>4, <1>5 DEF Last
<1>8. ASSUME NEW u \in Threads, NEW j \in Slots PROVE slot_seen'[u][j] \in 1 .. Len(written'[j])
  <2>1. CASE u = t /\ j = i
    BY <1>3, <1>4, <1>5, <1>6, <2>1
  <2>2. CASE u # t /\ j = i
    BY <1>3, <1>4, <1>5, <1>6, <2>2
  <2>3. CASE j # i
    BY <1>3, <1>5, <1>6, <2>3
  <2> QED
    BY <2>1, <2>2, <2>3
<1> QED
  BY <1>1, <1>3, <1>4, <1>5, <1>6, <1>7, <1>8

(* The pusher gives the slot to the popper. *)
LEMMA SlotPushPublishInv ==
  ASSUME Inv, queue = "slot", Running(Pusher), UNCHANGED testerVars, SlotPushPublish
  PROVE  Inv'
<1> DEFINE i == Mod(Pushed)
<1>1. /\ SlotInv /\ Common /\ Elements = slot_data /\ queue' = queue
      /\ i \in Slots /\ slot_data \in [Slots -> Element] /\ SlotOf(slot_write_idx) = i
  BY FlagFacts DEF testerVars
<1>2. /\ Pushed \in Nat /\ Popped \in Nat /\ released[Pusher] = Pushed
      /\ Pusher \in Threads /\ Popper \in Threads /\ Pusher # Popper /\ Capacity \in Nat
  BY <1>1, Counters, SlotFacts
<1>3. /\ StoreFlag(Pusher, i, TRUE) /\ Return(Pusher)
      /\ slot_write_idx' = slot_write_idx + 1
      /\ UNCHANGED <<slot_read_idx, slot_data, val, acquired, racy>>
  BY <1>1 DEF SlotPushPublish, StoreFlag
<1>4. Elements' = Elements
  BY <1>1, <1>3 DEF Elements
<1>5. Common' /\ Pushed' = Pushed + 1 /\ Popped' = Popped
  BY <1>1, <1>2, <1>3, <1>4, PublishCommon
<1>6. pc[Pusher] = "publish" /\ pc'[Pusher] = "call" /\ pc'[Popper] = pc[Popper]
  BY <1>1, <1>2, <1>3 DEF Return, Goto, Common, TypeInv
<1>7. ~Last(written[i]).v
  BY <1>6, FlagFacts
<1>8. Pushed < Popped + Capacity
  BY <1>1, <1>6 DEF Common, OrderInv
<1>9. /\ written' \in [Slots -> Seq(Flag)]
      /\ \A j \in Slots : j # i => written'[j] = written[j]
      /\ Len(written[i]) \in Nat /\ Len(written'[i]) = Len(written[i]) + 1
      /\ Last(written'[i]).v = TRUE /\ Last(written'[i]).n = Pushed + 1
      /\ \A k \in 1 .. Len(written[i]) : written'[i][k] = written[i][k]
      /\ written'[i][Len(written[i]) + 1].v = TRUE
      /\ slot_seen' \in [Threads -> [Slots -> Nat]]
      /\ slot_seen'[Pusher][i] = Len(written[i]) + 1
      /\ \A u \in Threads, j \in Slots : u # Pusher \/ j # i => slot_seen'[u][j] = slot_seen[u][j]
      /\ \A u \in Threads, j \in Slots : slot_seen'[u][j] \in 1 .. Len(written'[j])
  <2>1. FlagTypes
    BY <1>1 DEF SlotInv
  <2> HIDE DEF i
  <2> QED
    BY <1>1, <1>2, <1>3, <2>1, StoreFacts, ZenonT(30)
<1>10. \A j \in Nat : Popped <= j /\ j < Pushed => Mod(j) # i /\ Mod(j) \in Slots
  BY <1>2, <1>8, SlotFacts
<1>11. slot_seen[Popper][i] \in 1 .. Len(written[i])
  BY <1>1, <1>2 DEF SlotInv, FlagTypes
<1>12. FlagTypes'
  BY <1>1, <1>3, <1>5, <1>9 DEF SlotInv, FlagTypes
<1>13. FlagInv'
  <2>1. ASSUME NEW j \in Nat, Popped <= j, j < Pushed + 1 PROVE Last(written'[Mod(j)]).v
    <3>1. CASE j = Pushed
      BY <1>9, <3>1
    <3>2. CASE j # Pushed
      <4>1. j < Pushed
        BY <1>2, <2>1, <3>2
      <4> QED
        BY <1>1, <1>9, <1>10, <2>1, <4>1 DEF SlotInv, FlagInv
    <3> QED
      BY <3>1, <3>2
  <2>2. ASSUME NEW j \in Slots, Last(written'[j]).v
        PROVE  \E l \in Nat : Popped <= l /\ l < Pushed + 1 /\ Mod(l) = j
    <3>1. CASE j = i
      <4>1. Popped <= Pushed /\ Pushed < Pushed + 1
        BY <1>1, <1>2 DEF Common, OrderInv
      <4> QED
        BY <1>2, <3>1, <4>1
    <3>2. CASE j # i
      <4>1. PICK l \in Nat : Popped <= l /\ l < Pushed /\ Mod(l) = j
        BY <1>1, <1>9, <2>2, <3>2 DEF SlotInv, FlagInv
      <4> QED
        BY <1>2, <4>1
    <3> QED
      BY <3>1, <3>2
  <2> HIDE DEF i
  <2>3. ASSUME NEW j \in Slots, NEW k \in Visible(written'[j], slot_seen'[Pusher][j]),
               ~written'[j][k].v
        PROVE  k = Len(written'[j])
    <3>1. CASE j = i
      BY <1>9, <2>3, <3>1 DEF Visible
    <3>2. CASE j # i
      <4>1. written'[j] = written[j] /\ slot_seen'[Pusher][j] = slot_seen[Pusher][j]
        BY <1>2, <1>9, <3>2
      <4> QED
        BY <1>1, <2>3, <4>1 DEF SlotInv, FlagInv
    <3> QED
      BY <3>1, <3>2
  <2>4. ASSUME NEW j \in Slots, NEW k \in Visible(written'[j], slot_seen'[Popper][j]),
               written'[j][k].v
        PROVE  k = Len(written'[j])
    <3>1. CASE j = i
      <4> SUFFICES ASSUME k # Len(written'[j]) PROVE FALSE
        OBVIOUS
      <4>1. /\ slot_seen'[Popper][i] = slot_seen[Popper][i]
            /\ k \in slot_seen[Popper][i] .. Len(written[i]) + 1
        BY <1>2, <1>9, <2>4, <3>1 DEF Visible
      <4>2. k \in slot_seen[Popper][i] .. Len(written[i]) /\ k \in 1 .. Len(written[i])
        BY <1>9, <1>11, <3>1, <4>1
      <4>3. written[i][k].v /\ k \in Visible(written[i], slot_seen[Popper][i])
        BY <1>9, <2>4, <3>1, <4>2 DEF Visible
      <4>4. k = Len(written[i])
        BY <1>1, <4>3 DEF SlotInv, FlagInv
      <4> QED
        BY <1>7, <4>3, <4>4 DEF Last
    <3>2. CASE j # i
      <4>1. written'[j] = written[j] /\ slot_seen'[Popper][j] = slot_seen[Popper][j]
        BY <1>2, <1>9, <3>2
      <4> QED
        BY <1>1, <2>4, <4>1 DEF SlotInv, FlagInv
    <3> QED
      BY <3>1, <3>2
  <2> QED
    BY <1>5, <2>1, <2>2, <2>3, <2>4 DEF FlagInv
<1>14. CoverInv'
  <2>1. slot_data[i].by # None /\ slot_data[i].by = Pusher => slot_data[i].at <= Pushed + 1
    BY <1>1, <1>6 DEF Common, ElementsInv, Written
  <2> HIDE DEF i
  <2>2. ASSUME NEW j \in Slots, slot_data[j].by # None
        PROVE  /\ ~Last(written'[j]).v /\ slot_data[j].by = Popper =>
                    slot_data[j].at <= Last(written'[j]).n
               /\ Last(written'[j]).v /\ slot_data[j].by = Pusher =>
                    slot_data[j].at <= Last(written'[j]).n
    <3>1. CASE j = i
      BY <1>9, <2>1, <2>2, <3>1
    <3>2. CASE j # i
      BY <1>1, <1>9, <2>2, <3>2 DEF SlotInv, CoverInv
    <3> QED
      BY <3>1, <3>2
  <2> QED
    BY <1>1, <1>3, <1>5, <1>6, <2>2 DEF SlotInv, CoverInv
<1> QED
  BY <1>1, <1>3, <1>5, <1>12, <1>13, <1>14 DEF Inv, RaceFree, SlotInv

(* The popper gives the slot back. *)
LEMMA SlotPopPublishInv ==
  ASSUME Inv, queue = "slot", Running(Popper), UNCHANGED testerVars, SlotPopPublish
  PROVE  Inv'
<1> DEFINE i == Mod(Popped)
<1>1. /\ SlotInv /\ Common /\ Elements = slot_data /\ queue' = queue
      /\ i \in Slots /\ slot_data \in [Slots -> Element] /\ SlotOf(slot_read_idx) = i
  BY FlagFacts DEF testerVars
<1>2. /\ Pushed \in Nat /\ Popped \in Nat /\ released[Popper] = Popped
      /\ Pusher \in Threads /\ Popper \in Threads /\ Pusher # Popper /\ Capacity \in Nat
  BY <1>1, Counters, SlotFacts
<1>3. /\ StoreFlag(Popper, i, FALSE) /\ Return(Popper)
      /\ slot_read_idx' = slot_read_idx + 1
      /\ UNCHANGED <<slot_write_idx, slot_data, val, acquired, racy>>
  BY <1>1 DEF SlotPopPublish, StoreFlag
<1>4. Elements' = Elements
  BY <1>1, <1>3 DEF Elements
<1>5. Common' /\ Popped' = Popped + 1 /\ Pushed' = Pushed
  BY <1>1, <1>2, <1>3, <1>4, PublishCommon
<1>6. pc[Popper] = "publish" /\ pc'[Popper] = "call" /\ pc'[Pusher] = pc[Pusher]
  BY <1>1, <1>2, <1>3 DEF Return, Goto, Common, TypeInv
<1>7. Last(written[i]).v
  BY <1>6, FlagFacts
<1>8. Pushed <= Popped + Capacity
  BY <1>1 DEF Common, OrderInv
<1>9. /\ written' \in [Slots -> Seq(Flag)]
      /\ \A j \in Slots : j # i => written'[j] = written[j]
      /\ Len(written[i]) \in Nat /\ Len(written'[i]) = Len(written[i]) + 1
      /\ Last(written'[i]).v = FALSE /\ Last(written'[i]).n = Popped + 1
      /\ \A k \in 1 .. Len(written[i]) : written'[i][k] = written[i][k]
      /\ written'[i][Len(written[i]) + 1].v = FALSE
      /\ slot_seen' \in [Threads -> [Slots -> Nat]]
      /\ slot_seen'[Popper][i] = Len(written[i]) + 1
      /\ \A u \in Threads, j \in Slots : u # Popper \/ j # i => slot_seen'[u][j] = slot_seen[u][j]
      /\ \A u \in Threads, j \in Slots : slot_seen'[u][j] \in 1 .. Len(written'[j])
  <2>1. FlagTypes
    BY <1>1 DEF SlotInv
  <2> HIDE DEF i
  <2> QED
    BY <1>1, <1>2, <1>3, <2>1, StoreFacts
<1>10. \A j \in Nat : Popped < j /\ j < Pushed => Mod(j) # i /\ Mod(j) \in Slots
  BY <1>2, <1>8, SlotFacts
<1>11. slot_seen[Pusher][i] \in 1 .. Len(written[i])
  BY <1>1, <1>2 DEF SlotInv, FlagTypes
<1>12. FlagTypes'
  BY <1>1, <1>3, <1>5, <1>9 DEF SlotInv, FlagTypes
<1>13. FlagInv'
  <2>1. ASSUME NEW j \in Nat, Popped + 1 <= j, j < Pushed PROVE Last(written'[Mod(j)]).v
    <3>1. Popped < j /\ Popped <= j
      BY <1>2, <2>1
    <3> QED
      BY <1>1, <1>9, <1>10, <2>1, <3>1 DEF SlotInv, FlagInv
  <2>2. ASSUME NEW j \in Slots, Last(written'[j]).v
        PROVE  \E l \in Nat : Popped + 1 <= l /\ l < Pushed /\ Mod(l) = j
    <3>1. j # i
      BY <1>9, <2>2
    <3>2. PICK l \in Nat : Popped <= l /\ l < Pushed /\ Mod(l) = j
      BY <1>1, <1>9, <2>2, <3>1 DEF SlotInv, FlagInv
    <3>3. l # Popped
      BY <3>1, <3>2
    <3> QED
      BY <1>2, <3>2, <3>3
  <2> HIDE DEF i
  <2>3. ASSUME NEW j \in Slots, NEW k \in Visible(written'[j], slot_seen'[Popper][j]),
               written'[j][k].v
        PROVE  k = Len(written'[j])
    <3>1. CASE j = i
      BY <1>9, <2>3, <3>1 DEF Visible
    <3>2. CASE j # i
      <4>1. written'[j] = written[j] /\ slot_seen'[Popper][j] = slot_seen[Popper][j]
        BY <1>2, <1>9, <3>2
      <4> QED
        BY <1>1, <2>3, <4>1 DEF SlotInv, FlagInv
    <3> QED
      BY <3>1, <3>2
  <2>4. ASSUME NEW j \in Slots, NEW k \in Visible(written'[j], slot_seen'[Pusher][j]),
               ~written'[j][k].v
        PROVE  k = Len(written'[j])
    <3>1. CASE j = i
      <4> SUFFICES ASSUME k # Len(written'[j]) PROVE FALSE
        OBVIOUS
      <4>1. /\ slot_seen'[Pusher][i] = slot_seen[Pusher][i]
            /\ k \in slot_seen[Pusher][i] .. Len(written[i]) + 1
        BY <1>2, <1>9, <2>4, <3>1 DEF Visible
      <4>2. k \in slot_seen[Pusher][i] .. Len(written[i]) /\ k \in 1 .. Len(written[i])
        BY <1>9, <1>11, <3>1, <4>1
      <4>3. ~written[i][k].v /\ k \in Visible(written[i], slot_seen[Pusher][i])
        BY <1>9, <2>4, <3>1, <4>2 DEF Visible
      <4>4. k = Len(written[i])
        BY <1>1, <4>3 DEF SlotInv, FlagInv
      <4> QED
        BY <1>7, <4>3, <4>4 DEF Last
    <3>2. CASE j # i
      <4>1. written'[j] = written[j] /\ slot_seen'[Pusher][j] = slot_seen[Pusher][j]
        BY <1>2, <1>9, <3>2
      <4> QED
        BY <1>1, <2>4, <4>1 DEF SlotInv, FlagInv
    <3> QED
      BY <3>1, <3>2
  <2> QED
    BY <1>5, <2>1, <2>2, <2>3, <2>4 DEF FlagInv
<1>14. CoverInv'
  <2>1. slot_data[i].by # None /\ slot_data[i].by = Popper => slot_data[i].at <= Popped + 1
    BY <1>1, <1>6 DEF Common, ElementsInv, Taken
  <2> HIDE DEF i
  <2>2. ASSUME NEW j \in Slots, slot_data[j].by # None
        PROVE  /\ ~Last(written'[j]).v /\ slot_data[j].by = Popper =>
                    slot_data[j].at <= Last(written'[j]).n
               /\ Last(written'[j]).v /\ slot_data[j].by = Pusher =>
                    slot_data[j].at <= Last(written'[j]).n
    <3>1. CASE j = i
      BY <1>9, <2>1, <2>2, <3>1
    <3>2. CASE j # i
      BY <1>1, <1>9, <2>2, <3>2 DEF SlotInv, CoverInv
    <3> QED
      BY <3>1, <3>2
  <2> QED
    BY <1>1, <1>3, <1>5, <1>6, <2>2 DEF SlotInv, CoverInv
<1> QED
  BY <1>1, <1>3, <1>5, <1>12, <1>13, <1>14 DEF Inv, RaceFree, SlotInv

-----------------------------------------------------------------------------
(***************************************************************************)
(* The steps of the tester, and the invariance.                            *)
(***************************************************************************)
(* A queue nobody has called yet in this sample. *)
Fresh ==
  /\ queue \in Queues /\ main = "spawn" /\ ~racy
  /\ pc = [t \in Threads |-> "call"] /\ stage = [t \in Threads |-> "none"]
  /\ done = [t \in Threads |-> 0] /\ released = [t \in Threads |-> 0]
  /\ acquired = [t \in Threads |-> 0]
  /\ Elements \in [Slots -> Element] /\ \A i \in Slots : Elements[i].by = None
  /\ read_idx = Initially(0) /\ write_idx = Initially(0)
  /\ read_idx_cache = 0 /\ write_idx_cache = 0
  /\ seen = [t \in Threads |-> 1]
  /\ written = [i \in Slots |-> Initially(FALSE)]
  /\ slot_read_idx = 0 /\ slot_write_idx = 0
  /\ slot_seen = [t \in Threads |-> [i \in Slots |-> 1]]

(* Such a queue satisfies the invariant. *)
LEMMA FreshInv == Fresh => Inv
<1> SUFFICES ASSUME Fresh PROVE Inv
  OBVIOUS
<1> USE DEF Fresh
<1>1. /\ Pusher \in Threads /\ Popper \in Threads /\ 0 \in 0 .. Iterations
      /\ Capacity \in Nat /\ Capacity > 1 /\ Mod(0) = 0
  BY SlotFacts DEF Threads
<1>2. Pushed = 0 /\ Popped = 0 /\ Written = 0 /\ Taken = 0
  BY <1>1 DEF Pushed, Popped, Written, Taken
<1>3. TypeInv
  BY <1>1 DEF TypeInv
<1>4. StageInv
  BY DEF StageInv
<1>5. OrderInv
  BY <1>1, <1>2 DEF OrderInv
<1>6. ElementsInv
  BY <1>2 DEF ElementsInv
<1>7. ASSUME queue # "slot" PROVE RingInv
  <2>1. Elements = data
    BY <1>7 DEF Elements
  <2>2. Moved(0) = Initially(0)
    <3>1. \A k \in 1 .. 1 : Mod(k - 1) = 0 /\ k - 1 = 0
      BY <1>1
    <3>2. Moved(0) = [k \in 1 .. 1 |-> Store(0, 0)]
      BY <3>1 DEF Moved
    <3> QED
      BY <3>2 DEF Initially
  <2>3. seen = [t \in Threads |-> acquired[t] + 1]
    OBVIOUS
  <2>4. acquired[Pusher] = 0 /\ acquired[Popper] = 0 /\ pc[Pusher] = "call" /\ pc[Popper] = "call"
    BY <1>1
  <2> HIDE DEF Fresh
  <2> QED
    BY <1>1, <1>2, <2>1, <2>2, <2>3, <2>4 DEF RingInv, Fresh
<1>8. ASSUME queue = "slot" PROVE SlotInv
  <2>1. \A i \in Slots : /\ written[i] = Initially(FALSE) /\ Len(written[i]) = 1
                         /\ written[i][1].v = FALSE /\ Last(written[i]).v = FALSE
    BY DEF Initially, Store, Last
  <2>2. Initially(FALSE) \in Seq(Flag)
    BY DEF Initially, Store, Flag
  <2>3. /\ written \in [Slots -> Seq(Flag)] /\ slot_seen \in [Threads -> [Slots -> Nat]]
        /\ slot_read_idx = 0 /\ slot_write_idx = 0
        /\ \A t \in Threads, i \in Slots : slot_seen[t][i] = 1
    BY <2>2
  <2>5. \A i \in Slots : slot_data[i].by = None
    BY <1>8 DEF Elements
  <2> HIDE DEF Fresh
  <2>8. \A i \in Slots : Len(written[i]) = 1
    BY <2>1
  <2>4. FlagTypes
    <3>1. ASSUME NEW t \in Threads, NEW i \in Slots PROVE slot_seen[t][i] \in 1 .. Len(written[i])
      <4>1. slot_seen[t][i] = 1 /\ Len(written[i]) = 1
        BY <2>3, <2>8, Zenon
      <4> QED
        BY <4>1
    <3> QED
      BY <1>2, <2>3, <3>1 DEF FlagTypes
  <2>7. FlagInv
    <3>1. ASSUME NEW i \in Slots, NEW t \in Threads, NEW k \in Visible(written[i], slot_seen[t][i])
          PROVE  k = Len(written[i])
      <4>1. slot_seen[t][i] = 1 /\ Len(written[i]) = 1
        BY <2>3, <2>8, Zenon
      <4> QED
        BY <4>1 DEF Visible
    <3>2. \A i \in Slots : ~Last(written[i]).v
      BY <2>1
    <3>3. \A j \in Nat : ~(Popped <= j /\ j < Pushed)
      BY <1>2
    <3> QED
      BY <1>1, <3>1, <3>2, <3>3 DEF FlagInv
  <2>6. CoverInv
    <3>1. Mod(Pushed) \in Slots /\ Mod(Popped) \in Slots
      BY <1>2, SlotFacts
    <3> QED
      BY <2>5, <3>1 DEF CoverInv
  <2> QED
    BY <2>4, <2>6, <2>7 DEF SlotInv
<1> QED
  BY <1>3, <1>4, <1>5, <1>6, <1>7, <1>8 DEF Inv, Common, RaceFree

(* The same after a step. *)
LEMMA FreshInvNext == Fresh' => Inv'
  BY FreshInv, PTL

(* The first sample starts with a fresh queue. *)
LEMMA InitFresh == Init => Fresh
<1> SUFFICES ASSUME Init PROVE Fresh
  OBVIOUS
<1>1. Plain(0) \in Element /\ Plain(0).by = None
  BY DEF Plain, Element
<1> QED
  BY <1>1 DEF Init, ThreadInit, RingInit, SlotInit, Fresh, Elements

(* So does every other. *)
LEMMA ResetFresh == ASSUME Inv, Reset PROVE Fresh' /\ Pushed = Popped /\ val' = val
<1>1. /\ main = "reset" /\ main' = "spawn" /\ RingReset /\ SlotReset
      /\ done' = [t \in Threads |-> 0] /\ released' = [t \in Threads |-> 0]
      /\ acquired' = [t \in Threads |-> 0] /\ stage' = [t \in Threads |-> "none"]
      /\ UNCHANGED <<pc, val, racy, queue>>
  BY DEF Reset
<1>2. /\ TypeInv /\ StageInv /\ ElementsInv /\ ~racy
  BY DEF Inv, Common, RaceFree
<1>3. \A t \in Threads : stage[t] = "ended" /\ done[t] = Iterations /\ pc[t] = "call"
  BY <1>1, <1>2 DEF StageInv
<1>4. pc = [t \in Threads |-> "call"]
  BY <1>2, <1>3 DEF TypeInv
<1>5. Elements' = [i \in Slots |-> Plain(Elements[i].v)]
  BY <1>1 DEF Elements, RingReset, SlotReset
<1>6. Elements' \in [Slots -> Element] /\ \A i \in Slots : Elements'[i].by = None
  BY <1>2, <1>5 DEF ElementsInv, Plain, Element
<1>7. Pushed = Popped
  BY <1>3 DEF Pushed, Popped, Threads
<1> QED
  BY <1>1, <1>2, <1>4, <1>6, <1>7 DEF Fresh, TypeInv, RingReset, SlotReset

(* A step outside the calls. *)
LEMMA OutsideCalls ==
  ASSUME Inv, UNCHANGED <<threadVars, ringVars, slotVars, queue>>, TypeInv', StageInv'
  PROVE  Inv'
<1> USE DEF threadVars, ringVars, slotVars
<1>1. UNCHANGED <<Pushed, Popped, Written, Taken, Elements>>
  BY DEF Pushed, Popped, Written, Taken, Elements
<1>2. OrderInv' /\ ElementsInv'
  BY <1>1 DEF Inv, Common, OrderInv, ElementsInv
<1>3. queue # "slot" => RingInv'
  BY <1>1 DEF Inv, RingInv
<1>4. queue = "slot" => SlotInv'
  BY <1>1 DEF Inv, SlotInv, FlagTypes, FlagInv, CoverInv
<1> QED
  BY <1>2, <1>3, <1>4 DEF Inv, Common, RaceFree

(* The steps of the main thread but the reset, and of the threads but push and *)
(* pop.                                                                      *)
LEMMA StageStep ==
  ASSUME Inv, \/ \E t \in Threads : Spawn(t) \/ ReportReady(t) \/ PassGate(t) \/ End(t)
              \/ OpenGate \/ Join
              \/ UNCHANGED vars
  PROVE  Inv'
<1>1. TypeInv /\ StageInv
  BY DEF Inv, Common
<1>2. ASSUME NEW t \in Threads, Spawn(t) \/ ReportReady(t) \/ PassGate(t) \/ End(t)
      PROVE  Inv'
  <2>1. /\ UNCHANGED <<threadVars, ringVars, slotVars, queue>>
        /\ UNCHANGED <<pc, done, released, acquired>>
    BY <1>2 DEF Spawn, ReportReady, PassGate, End, threadVars
  <2>2. PICK s \in {"born", "gate", "run", "ended"} :
          /\ stage' = [stage EXCEPT ![t] = s] /\ pc[t] = "call"
          /\ s = "ended" => done[t] = Iterations
    <3>1. pc[t] = "call"
      BY <1>1, <1>2, SlotFacts DEF Spawn, ReportReady, PassGate, End, StageInv
    <3> QED
      BY <1>2, <3>1 DEF Spawn, ReportReady, PassGate, End
  <2>3. TypeInv'
    BY <1>1, <2>1, <2>2 DEF TypeInv
  <2>4. stage[t] # "ended" /\ (main = "reset" => FALSE)
    BY <1>1, <1>2 DEF Spawn, ReportReady, PassGate, End, StageInv
  <2>5. main' # "reset"
    BY <1>2, <2>4 DEF Spawn, ReportReady, PassGate, End
  <2>6. StageInv'
    BY <1>1, <2>1, <2>2, <2>5 DEF StageInv, TypeInv
  <2> QED
    BY <2>1, <2>3, <2>6, OutsideCalls
<1>3. CASE OpenGate \/ Join \/ UNCHANGED vars
  <2>1. /\ UNCHANGED <<threadVars, ringVars, slotVars, queue, stage>>
        /\ UNCHANGED <<pc, done, released, acquired>>
        /\ main' = "reset" => \A t \in Threads : stage[t] = "ended"
    BY <1>1, <1>3 DEF OpenGate, Join, vars, testerVars, threadVars, StageInv
  <2>2. TypeInv' /\ StageInv'
    BY <1>1, <2>1 DEF TypeInv, StageInv
  <2> QED
    BY <2>1, <2>2, OutsideCalls
<1> QED
  BY <1>2, <1>3

(* The steps of push and pop, of all three queues. *)
LEMMA PushInv == ASSUME Inv, Push PROVE Inv'
<1>1. Running(Pusher) /\ UNCHANGED testerVars
  BY DEF Push
<1>2. CASE queue = "classic" /\ ClassicPush
  BY <1>1, <1>2, RingPushLoadInv, RingPushWriteInv, RingPushPublishInv DEF ClassicPush
<1>3. CASE queue = "caching" /\ CachingPush
  BY <1>1, <1>3, RingPushLoadInv, RingPushWriteInv, RingPushPublishInv DEF CachingPush
<1>4. CASE queue = "slot" /\ SlotPush
  BY <1>1, <1>4, SlotPushLoadInv, SlotPushWriteInv, SlotPushPublishInv DEF SlotPush
<1> QED
  BY <1>2, <1>3, <1>4 DEF Push

(* The popper's. *)
LEMMA PopInv == ASSUME Inv, Pop PROVE Inv'
<1>1. Running(Popper) /\ UNCHANGED testerVars
  BY DEF Pop
<1>2. CASE queue = "classic" /\ ClassicPop
  BY <1>1, <1>2, RingPopLoadInv, RingPopReadInv, RingPopPublishInv DEF ClassicPop
<1>3. CASE queue = "caching" /\ CachingPop
  BY <1>1, <1>3, RingPopLoadInv, RingPopReadInv, RingPopPublishInv DEF CachingPop
<1>4. CASE queue = "slot" /\ SlotPop
  BY <1>1, <1>4, SlotPopLoadInv, SlotPopReadInv, SlotPopPublishInv DEF SlotPop
<1> QED
  BY <1>2, <1>3, <1>4 DEF Pop

(* Every step keeps the invariant. *)
LEMMA NextInv == Inv /\ [Next]_vars => Inv'
<1> SUFFICES ASSUME Inv, [Next]_vars PROVE Inv'
  OBVIOUS
<1>1. CASE Reset
  BY <1>1, ResetFresh, FreshInvNext
<1>2. CASE \E t \in Threads : Thread(t)
  BY <1>2, StageStep, PushInv, PopInv DEF Thread
<1>3. CASE (\E t \in Threads : Spawn(t)) \/ OpenGate \/ Join \/ UNCHANGED vars
  BY <1>3, StageStep
<1> QED
  BY <1>1, <1>2, <1>3 DEF Next, Main, Finished

(* The invariant holds in every run. *)
LEMMA Invariance == Spec => []Inv
<1>1. Init => Inv
  BY InitFresh, FreshInv
<1> QED
  BY <1>1, NextInv, PTL DEF Spec

(* None of the rings has a data race: for every capacity and in every sample,  *)
(* the plain accesses of the two threads to an element are ordered by the     *)
(* acquire loads and release stores, although a caching ring makes most of    *)
(* its calls without a load of the other thread's index.                     *)
THEOREM NoDataRace == Spec => []RaceFree
<1>1. Inv => RaceFree
  BY DEF Inv
<1> QED
  BY <1>1, Invariance, PTL

-----------------------------------------------------------------------------
(***************************************************************************)
(* The refinement.                                                         *)
(***************************************************************************)
(* The numbers from one up to another: one more, and one less. *)
LEMMA BetweenFacts ==
  ASSUME NEW a \in Nat, NEW b \in Nat, a <= b
  PROVE  /\ Between(a, b) \in Seq(Int) /\ Len(Between(a, b)) = b - a
         /\ Append(Between(a, b), b) = Between(a, b + 1)
         /\ a < b => /\ Between(a, b) # <<>> /\ Head(Between(a, b)) = a
                     /\ Tail(Between(a, b)) = Between(a + 1, b)
<1>1. /\ Between(a, b) \in Seq(Int) /\ Len(Between(a, b)) = b - a
      /\ \A k \in 1 .. b - a : Between(a, b)[k] = a + k - 1
  BY DEF Between
<1>2. /\ Between(a, b + 1) \in Seq(Int) /\ Len(Between(a, b + 1)) = b - a + 1
      /\ \A k \in 1 .. b - a + 1 : Between(a, b + 1)[k] = a + k - 1
  BY DEF Between
<1>3. Append(Between(a, b), b) = Between(a, b + 1)
  <2>1. /\ Append(Between(a, b), b) \in Seq(Int)
        /\ Len(Append(Between(a, b), b)) = b - a + 1
        /\ \A k \in 1 .. b - a + 1 : Append(Between(a, b), b)[k] = a + k - 1
    <3> DEFINE s == Between(a, b)
    <3>1. s \in Seq(Int) /\ Len(s) = b - a /\ b \in Int /\ \A k \in 1 .. b - a : s[k] = a + k - 1
      BY <1>1
    <3> HIDE DEF s
    <3>2. /\ Append(s, b) \in Seq(Int) /\ Len(Append(s, b)) = b - a + 1
          /\ \A k \in 1 .. b - a : Append(s, b)[k] = s[k]
          /\ Append(s, b)[b - a + 1] = b
      BY <3>1, AppendProperties
    <3>3. \A k \in 1 .. b - a + 1 : Append(s, b)[k] = a + k - 1
      BY <3>1, <3>2
    <3> QED
      BY <3>2, <3>3 DEF s
  <2> QED
    BY <1>2, <2>1, SeqEqual
<1>4. ASSUME a < b
      PROVE  /\ Between(a, b) # <<>> /\ Head(Between(a, b)) = a
             /\ Tail(Between(a, b)) = Between(a + 1, b)
  <2>1. /\ Between(a + 1, b) \in Seq(Int) /\ Len(Between(a + 1, b)) = b - a - 1
        /\ \A k \in 1 .. b - a - 1 : Between(a + 1, b)[k] = a + k
    BY <1>4 DEF Between
  <2>2. Between(a, b) # <<>> /\ Between(a, b)[1] = a
    BY <1>1, <1>4, EmptySeq
  <2>3. /\ Head(Between(a, b)) = a /\ Tail(Between(a, b)) \in Seq(Int)
        /\ Len(Tail(Between(a, b))) = b - a - 1
        /\ \A k \in 1 .. b - a - 1 : Tail(Between(a, b))[k] = a + k
    BY <1>1, <1>4, <2>2, HeadTailProperties
  <2>4. Tail(Between(a, b)) = Between(a + 1, b)
    BY <2>1, <2>3, SeqEqual
  <2> QED
    BY <2>2, <2>3, <2>4
<1> QED
  BY <1>1, <1>3, <1>4

(* The values in the ring are those pushed and not yet taken, in order. *)
ShowsHeld == Items = Held

(* What the refinement mapping shows of either kind of ring is what is held ... *)
LEMMA ItemsHeld == Inv => ShowsHeld
<1> SUFFICES ASSUME Inv PROVE Items = Held
  BY DEF ShowsHeld
<1>1. /\ Common /\ Pushed \in Nat /\ Popped \in Nat /\ Taken \in Nat /\ Capacity \in Nat \ {0}
      /\ Popped <= Taken /\ Taken <= Pushed /\ Pushed <= Written /\ Written \in Nat
  BY Counters, SlotFacts DEF Inv
<1>2. ASSUME NEW j \in Nat, Popped <= j, j < Pushed PROVE Elements[Mod(j)].v = j
  BY <1>1, <1>2 DEF Common, ElementsInv
<1>3. CASE queue = "slot"
  <2>1. slot_read_idx = Popped /\ slot_write_idx = Pushed /\ Elements = slot_data
    BY <1>3, FlagFacts DEF SlotInv, FlagTypes
  <2>2. Items = [k \in 1 .. Pushed - Taken |-> slot_data[SlotOf(Taken + k - 1)].v]
    <3>1. slot_read_idx + (IF pc[Popper] = "publish" THEN 1 ELSE 0) = Taken
      BY <1>1, <2>1 DEF Taken
    <3> QED
      BY <1>3, <2>1, <3>1, Zenon DEF Items, SlotItems
  <2>3. ASSUME NEW k \in 1 .. Pushed - Taken
        PROVE  slot_data[SlotOf(Taken + k - 1)].v = Taken + k - 1
    <3> DEFINE j == Taken + k - 1
    <3>1. j \in Nat /\ Popped <= j /\ j < Pushed
      BY <1>1
    <3> HIDE DEF j
    <3>2. slot_data[SlotOf(j)].v = j
      BY <1>2, <2>1, <3>1, SlotFacts
    <3> QED
      BY <3>2 DEF j
  <2> QED
    BY <2>2, <2>3, Zenon DEF Held, Between
<1>4. CASE queue # "slot"
  <2>1. Latest(read_idx) = Mod(Popped) /\ Latest(write_idx) = Mod(Pushed) /\ Elements = data
    BY <1>4, RingFacts
  <2> DEFINE n == Pushed - Popped
  <2> DEFINE all == [k \in 1 .. n |-> data[(Mod(Popped) + k - 1) % Capacity].v]
  <2>2. (Mod(Pushed) + Capacity - Mod(Popped)) % Capacity = n
    <3>1. Pushed < Popped + Capacity
      <4>1. Pushed < acquired[Pusher] + Capacity /\ acquired[Pusher] <= Popped
        BY <1>4, RingFacts DEF RingInv
      <4> QED
        BY <1>1, <4>1, Counters
    <3>2. Pushed \in Int /\ Popped \in Int /\ Popped <= Pushed
      BY <1>1
    <3> QED
      BY <1>1, <3>1, <3>2, ModDistance, Zenon DEF Mod
  <2>3. Items = IF pc[Popper] = "publish" THEN SubSeq(all, 2, n) ELSE all
    BY <1>4, <2>1, <2>2, Zenon DEF Items, RingItems
  <2>4. ASSUME NEW k \in 1 .. n PROVE data[(Mod(Popped) + k - 1) % Capacity].v = Popped + k - 1
    <3> DEFINE j == Popped + (k - 1)
    <3>1. j \in Nat /\ Popped <= j /\ j < Pushed /\ k - 1 \in Int /\ Popped \in Int
      BY <1>1
    <3>2. Mod(Popped) \in Nat
      BY <1>1, SlotFacts DEF Slots
    <3>3. Mod(Popped) + k - 1 = Mod(Popped) + (k - 1) /\ Popped + k - 1 = j
      BY <1>1, <3>1, <3>2
    <3>4. (Mod(Popped) + (k - 1)) % Capacity = j % Capacity
      BY <1>1, <3>1, ModPlus, Zenon DEF Mod
    <3> HIDE DEF j
    <3>5. data[Mod(j)].v = j
      BY <1>2, <2>1, <3>1
    <3> QED
      BY <3>3, <3>4, <3>5 DEF Mod
  <2>5. all = [k \in 1 .. n |-> Popped + k - 1]
    BY <2>4, Zenon
  <2>6. CASE pc[Popper] # "publish"
    <3>1. Taken = Popped
      BY <2>6 DEF Taken
    <3> QED
      BY <2>3, <2>5, <2>6, <3>1, Zenon DEF Held, Between
  <2>7. CASE pc[Popper] = "publish"
    <3>1. Taken = Popped + 1 /\ n \in Nat /\ Pushed - Taken = n - 1 /\ n > 0
      BY <1>1, <2>7 DEF Taken
    <3> DEFINE one == [k \in 1 .. n |-> Popped + k - 1]
    <3>2. one \in Seq(Int) /\ Len(one) = n
      BY <1>1, <3>1
    <3>3. SubSeq(one, 2, n) = [k \in 1 .. n - 1 |-> Popped + k]
      BY <1>1, <3>1
    <3>4. Held = [k \in 1 .. n - 1 |-> Popped + k]
      BY <1>1, <3>1 DEF Held, Between
    <3> HIDE DEF one
    <3> QED
      BY <2>3, <2>5, <2>7, <3>3, <3>4 DEF one
  <2> QED
    BY <2>6, <2>7
<1> QED
  BY <1>3, <1>4

(* ... and so in the next state. *)
LEMMA ItemsHeldNext == Inv' => ShowsHeld'
  BY ItemsHeld, PTL

(* What a step of the pusher does to the values: nothing, or one more. *)
LEMMA PushEffect ==
  ASSUME Inv, Push
  PROVE  \/ UNCHANGED <<Pushed, Taken, val>>
         \/ /\ Pushed' = Pushed + 1 /\ UNCHANGED <<Taken, val>>
            /\ pc[Pusher] # "call" /\ Pushed < Iterations
<1>1. /\ Common /\ Running(Pusher) /\ UNCHANGED testerVars
      /\ pc \in [Threads -> {"call", "access", "publish"}]
      /\ done \in [Threads -> 0 .. Iterations]
      /\ Pusher \in Threads /\ Popper \in Threads /\ Pusher # Popper
  BY Counters DEF Inv, Push, Common, TypeInv
<1>2. CASE \/ RingPushLoad(FALSE) \/ RingPushLoad(TRUE) \/ RingPushHit \/ RingPushWrite
           \/ SlotPushLoad \/ SlotPushWrite
  <2>1. pc'[Popper] = pc[Popper] /\ done' = done /\ val' = val
    BY <1>1, <1>2 DEF RingPushLoad, RingPushHit, RingPushWrite, SlotPushLoad, LoadFlag,
                      SlotPushWrite, Goto
  <2> QED
    BY <2>1 DEF Pushed, Taken, Popped
<1>3. CASE RingPushPublish \/ SlotPushPublish
  <2>1. Return(Pusher) /\ val' = val
    BY <1>3 DEF RingPushPublish, SlotPushPublish, StoreFlag
  <2>2. /\ pc[Pusher] = "publish" /\ pc'[Popper] = pc[Popper]
        /\ done'[Pusher] = done[Pusher] + 1 /\ done'[Popper] = done[Popper]
    BY <1>1, <2>1 DEF Return, Goto
  <2> QED
    BY <1>1, <2>1, <2>2 DEF Pushed, Popped, Taken, Running
<1> QED
  BY <1>2, <1>3 DEF Push, ClassicPush, CachingPush, SlotPush

(* And one of the popper: nothing, or it takes the oldest. *)
LEMMA PopEffect ==
  ASSUME Inv, Pop
  PROVE  \/ UNCHANGED <<Pushed, Taken, val>>
         \/ /\ Taken' = Taken + 1 /\ Pushed' = Pushed
            /\ val' = Taken /\ Taken < Pushed
<1>1. /\ Common /\ Running(Popper) /\ UNCHANGED testerVars
      /\ pc \in [Threads -> {"call", "access", "publish"}]
      /\ done \in [Threads -> 0 .. Iterations]
      /\ Pusher \in Threads /\ Popper \in Threads /\ Pusher # Popper
      /\ Pushed \in Nat /\ Popped \in Nat /\ Written \in Nat /\ Pushed <= Written
  BY Counters DEF Inv, Pop, Common, TypeInv
<1>2. CASE RingPopLoad(FALSE) \/ RingPopLoad(TRUE) \/ RingPopHit \/ SlotPopLoad
  <2>1. /\ pc'[Popper] # "publish" /\ pc[Popper] = "call" /\ done' = done /\ val' = val
    BY <1>1, <1>2 DEF RingPopLoad, RingPopHit, SlotPopLoad, LoadFlag, Goto
  <2> QED
    BY <2>1 DEF Pushed, Taken, Popped
<1>3. CASE \/ RingPopRead /\ queue # "slot"
           \/ SlotPopRead /\ queue = "slot"
  <2>1. /\ pc[Popper] = "access" /\ pc'[Popper] = "publish" /\ done' = done
        /\ val' = Elements[Mod(Popped)].v
    BY <1>1, <1>3, RingFacts, FlagFacts DEF RingPopRead, SlotPopRead, Goto
  <2>2. Popped < Pushed
    BY <1>1, <2>1 DEF Common, OrderInv
  <2>3. Elements[Mod(Popped)].v = Popped
    BY <1>1, <2>2 DEF Common, ElementsInv
  <2> QED
    BY <2>1, <2>2, <2>3 DEF Pushed, Popped, Taken
<1>4. CASE RingPopPublish \/ SlotPopPublish
  <2>1. Return(Popper) /\ val' = val
    BY <1>4 DEF RingPopPublish, SlotPopPublish, StoreFlag
  <2>2. /\ pc[Popper] = "publish" /\ pc'[Popper] = "call"
        /\ done'[Popper] = done[Popper] + 1 /\ done'[Pusher] = done[Pusher]
    BY <1>1, <2>1 DEF Return, Goto
  <2> QED
    BY <2>1, <2>2 DEF Pushed, Popped, Taken
<1> QED
  BY <1>2, <1>3, <1>4 DEF Pop, ClassicPop, CachingPop, SlotPop

(* Every step is one of the abstract queue's, or none. *)
LEMMA StepRefines ==
  ASSUME Inv, Inv', [Next]_vars
  PROVE  [Queue!Next]_Queue!vars
<1>1. Items = Held /\ Items' = Held'
  BY ItemsHeld, ItemsHeldNext DEF ShowsHeld
<1>2. /\ Pushed \in Nat /\ Taken \in Nat /\ Popped \in Nat /\ Taken <= Pushed /\ Popped <= Taken
      /\ Capacity \in Nat /\ Common
  BY Counters, SlotFacts DEF Inv
<1>3. Len(Held) = Pushed - Taken
  BY <1>2, BetweenFacts DEF Held
<1>4. ASSUME UNCHANGED <<Pushed, Taken, val>> PROVE [Queue!Next]_Queue!vars
  BY <1>1, <1>4 DEF Held, Between, Hand, Queue!vars
<1>5. CASE Push
  <2>1. CASE /\ Pushed' = Pushed + 1 /\ UNCHANGED <<Taken, val>>
             /\ pc[Pusher] # "call" /\ Pushed < Iterations
    <3>1. Pushed \in Value
      BY <1>2, <2>1, SlotFacts DEF Value
    <3>2. Len(Items) < Capacity
      BY <1>1, <1>2, <1>3, <2>1 DEF Common, OrderInv
    <3>3. Held' = Append(Held, Pushed)
      <4>1. Held' = Between(Taken, Pushed + 1)
        BY <2>1 DEF Held, Between
      <4> QED
        BY <1>2, <4>1, BetweenFacts DEF Held
    <3>4. Queue!Enqueue(Pushed)
      BY <1>1, <2>1, <3>2, <3>3 DEF Queue!Enqueue, Hand
    <3> QED
      BY <3>1, <3>4 DEF Queue!Next
  <2> QED
    BY <1>4, <1>5, <2>1, PushEffect
<1>6. CASE Pop
  <2>1. CASE /\ Taken' = Taken + 1 /\ Pushed' = Pushed
             /\ val' = Taken /\ Taken < Pushed
    <3>1. Held # <<>> /\ Head(Held) = Taken /\ Tail(Held) = Between(Taken + 1, Pushed)
      BY <1>2, <2>1, BetweenFacts DEF Held
    <3>3. Held' = Tail(Held)
      BY <2>1, <3>1 DEF Held, Between
    <3>4. Hand' = [Hand EXCEPT ![Popper] = Head(Items)]
      BY <1>1, <2>1, <3>1 DEF Hand
    <3>5. Queue!Dequeue(Popper)
      BY <1>1, <3>1, <3>3, <3>4 DEF Queue!Dequeue
    <3> QED
      BY <3>5 DEF Queue!Next
  <2> QED
    BY <1>4, <1>6, <2>1, PopEffect
<1>7. CASE Reset
  <2>1. Fresh' /\ Pushed = Popped /\ val' = val
    BY <1>7, ResetFresh
  <2>2. Pushed' = 0 /\ Taken' = 0
    BY <2>1 DEF Fresh, Pushed, Popped, Taken, Threads
  <2>3. Pushed - Taken = 0
    BY <1>2, <2>1
  <2>4. Held = <<>> /\ Held' = <<>>
    BY <2>2, <2>3 DEF Held, Between
  <2> QED
    BY <1>1, <2>1, <2>4 DEF Hand, Queue!vars
<1>8. CASE UNCHANGED threadVars
  BY <1>4, <1>8 DEF threadVars, Pushed, Popped, Taken
<1>9. Push \/ Pop \/ Reset \/ UNCHANGED threadVars
  BY DEF Next, Main, Thread, Finished, vars, Spawn, OpenGate, Join, ReportReady, PassGate, End
<1> QED
  BY <1>5, <1>6, <1>7, <1>8, <1>9

(* Each ring implements the abstract queue of its capacity, for every capacity *)
(* and number of iterations and samples: what is pushed is popped once and in *)
(* order, never more than fits is held, and a reset drops nothing.           *)
THEOREM QueueImplemented == Spec => ImplementsQueue
<1>1. Init => Queue!Init
  <2> SUFFICES ASSUME Init PROVE Queue!Init
    OBVIOUS
  <2>1. Inv
    BY InitFresh, FreshInv
  <2>2. Items = Held
    BY <2>1, ItemsHeld DEF ShowsHeld
  <2>3. Pushed = 0 /\ Taken = 0 /\ val = None
    BY DEF Init, ThreadInit, Pushed, Popped, Taken, Threads
  <2>4. Held = <<>>
    BY <2>3 DEF Held, Between
  <2> QED
    BY <2>2, <2>3, <2>4 DEF Queue!Init, Hand
<1>2. Inv /\ Inv' /\ [Next]_vars => [Queue!Next]_Queue!vars
  BY StepRefines
<1> QED
  BY <1>1, <1>2, Invariance, PTL DEF Spec, ImplementsQueue, Queue!Spec
=============================================================================
