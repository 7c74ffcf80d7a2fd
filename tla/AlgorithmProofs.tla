-------------------------- MODULE AlgorithmProofs --------------------------
(***************************************************************************)
(* Proofs about the parts that run on their own.  The fills of XoroshiroRNG   *)
(* and the buffered generators, for every width of a register and every       *)
(* bound on addresses and batches; the bits of advance(), from every state a  *)
(* constructor may make; jump(), from every state, as from those with one bit; *)
(* the arena, for any types, numbers of objects and beginning of its memory;   *)
(* and the reader of CSV files, for any tables, spaces and empty lines, and    *)
(* any width of a size_t.                                                    *)
(***************************************************************************)
EXTENDS XoroshiroRNG, XoroshiroAdvance, Xoroshiro128plus, Arena, CompileTimeCsv, SlotArithmetic,
        SequenceTheorems

(***************************************************************************)
(* W is what a fill wrote that put the first k batches, or some lanes of       *)
(* them, into the elements from low to below high.                           *)
(***************************************************************************)
Covers(W, low, high, k) ==
  /\ \A w \in W : /\ w[1] \in low .. high - 1
                  /\ w[2] \in 1 .. k
                  /\ w = <<w[1], w[2], w[3]>>
  /\ \A a \in low .. high - 1 : \E w \in W : w[1] = a
  /\ \A v, w \in W : v # w => v[1] # w[1] /\ <<v[2], v[3]>> # <<w[2], w[3]>>

(* What is true while a fill is under way and when it has returned.            *)
FillInv ==
  /\ array \in Nat /\ num_elements \in Nat /\ dst \in Nat /\ batches \in Nat
  /\ filling \in BOOLEAN
  /\ Covers(writes, array, IF filling THEN dst ELSE End, batches)
  /\ filling => dst % BATCH_SIZE = 0 /\ array <= dst /\ dst <= AlignedEnd

(***************************************************************************)
(* S was returned of the m batches made, of which one buffer holds batch b     *)
(* from lane l on, the other batch c from lane k on: a number was returned if  *)
(* and only if it is in neither, and none came from a later batch.             *)
(***************************************************************************)
Returned(S, m, b, l, c, k) ==
  /\ m \in Nat
  /\ b \in Int /\ b <= m
  /\ c \in Int /\ c <= m
  /\ b # c
  /\ l \in 0 .. BATCH_SIZE /\ k \in 0 .. BATCH_SIZE
  /\ \A w \in S : w[1] \in Int /\ w[1] <= m
  /\ \A x \in 1 .. m, lane \in Lane :
       <<x, lane>> \in S <=> ~((x = b /\ l <= lane) \/ (x = c /\ k <= lane))

(* What is always true of the buffered generators. *)
BufferInv == Returned(served, made, int_buffer, int_idx, float_buffer, float_idx)

-----------------------------------------------------------------------------
(* The lanes of a batch copied to d are the elements from d on.               *)
LEMMA CopiedCovers ==
  ASSUME NEW d \in Int, NEW b \in Nat \ {0}, NEW count \in Nat
  PROVE  /\ \A w \in Copied(d, b, count) :
              w[1] \in d .. d + count - 1 /\ w[2] = b /\ w = <<w[1], w[2], w[3]>>
         /\ \A a \in d .. d + count - 1 : \E w \in Copied(d, b, count) : w[1] = a
         /\ \A v, w \in Copied(d, b, count) :
              v # w => v[1] # w[1] /\ <<v[2], v[3]>> # <<w[2], w[3]>>
<1>1. ASSUME NEW w \in Copied(d, b, count)
      PROVE  \E lane \in 0 .. count - 1 : w = <<d + lane, b, lane>>
  BY <1>1 DEF Copied
<1>2. \A w \in Copied(d, b, count) :
        w[1] \in d .. d + count - 1 /\ w[2] = b /\ w = <<w[1], w[2], w[3]>>
  BY <1>1
<1>3. ASSUME NEW a \in d .. d + count - 1
      PROVE  \E w \in Copied(d, b, count) : w[1] = a
  <2>1. a - d \in 0 .. count - 1 /\ d + (a - d) = a
    OBVIOUS
  <2>2. <<d + (a - d), b, a - d>> \in Copied(d, b, count)
    BY <2>1 DEF Copied
  <2> QED
    BY <2>1, <2>2
<1>4. ASSUME NEW v \in Copied(d, b, count), NEW w \in Copied(d, b, count), v # w
      PROVE  v[1] # w[1] /\ <<v[2], v[3]>> # <<w[2], w[3]>>
  <2>1. PICK l \in 0 .. count - 1 : v = <<d + l, b, l>>
    BY <1>1
  <2>2. PICK m \in 0 .. count - 1 : w = <<d + m, b, m>>
    BY <1>1
  <2>3. l # m
    BY <2>1, <2>2, <1>4
  <2>4. v[1] = d + l /\ w[1] = d + m /\ v[3] = l /\ w[3] = m
    BY <2>1, <2>2
  <2> QED
    BY <2>3, <2>4
<1> QED
  BY <1>2, <1>3, <1>4

(* Nothing is written to no elements. *)
LEMMA NothingCovered ==
  ASSUME NEW low \in Int, NEW k \in Nat
  PROVE  Covers({}, low, low, k)
BY DEF Covers

(* The next batch, copied to the first elements not yet written.               *)
LEMMA NextCovered ==
  ASSUME NEW W, NEW low \in Int, NEW high \in Int, NEW k \in Nat, NEW count \in Nat,
         low <= high, Covers(W, low, high, k)
  PROVE  Covers(W \cup Copied(high, k + 1, count), low, high + count, k + 1)
<1> DEFINE C == Copied(high, k + 1, count)
<1>0. k + 1 \in Nat \ {0} /\ k + 1 \in 1 .. k + 1 /\ 1 .. k \subseteq 1 .. k + 1 /\ k + 1 \notin 1 .. k
  OBVIOUS
<1>1. /\ \A w \in C : w[1] \in high .. high + count - 1 /\ w[2] = k + 1 /\ w = <<w[1], w[2], w[3]>>
      /\ \A a \in high .. high + count - 1 : \E w \in C : w[1] = a
      /\ \A v, w \in C : v # w => v[1] # w[1] /\ <<v[2], v[3]>> # <<w[2], w[3]>>
  BY <1>0, CopiedCovers
<1>2. /\ \A w \in W : w[1] \in low .. high - 1 /\ w[2] \in 1 .. k /\ w = <<w[1], w[2], w[3]>>
      /\ \A a \in low .. high - 1 : \E w \in W : w[1] = a
      /\ \A v, w \in W : v # w => v[1] # w[1] /\ <<v[2], v[3]>> # <<w[2], w[3]>>
  BY DEF Covers
<1> HIDE DEF C
<1>3. ASSUME NEW w \in W \cup C
      PROVE  w[1] \in low .. high + count - 1 /\ w[2] \in 1 .. k + 1 /\ w = <<w[1], w[2], w[3]>>
  <2>1. CASE w \in W
    BY <2>1, <1>2, <1>0
  <2>2. CASE w \in C
    BY <2>2, <1>1, <1>0
  <2> QED
    BY <2>1, <2>2
<1>4. ASSUME NEW a \in low .. high + count - 1
      PROVE  \E w \in W \cup C : w[1] = a
  <2>1. a \in low .. high - 1 \/ a \in high .. high + count - 1
    OBVIOUS
  <2> QED
    BY <2>1, <1>1, <1>2
<1>5. ASSUME NEW v \in W, NEW w \in C
      PROVE  v[1] # w[1] /\ <<v[2], v[3]>> # <<w[2], w[3]>>
  <2>1. v[1] \in low .. high - 1 /\ w[1] \in high .. high + count - 1
    BY <1>1, <1>2
  <2>2. v[2] # w[2]
    BY <1>0, <1>1, <1>2
  <2> QED
    BY <2>1, <2>2
<1>6. ASSUME NEW v \in W \cup C, NEW w \in W \cup C, v # w
      PROVE  v[1] # w[1] /\ <<v[2], v[3]>> # <<w[2], w[3]>>
  <2>1. CASE v \in W /\ w \in W
    BY <2>1, <1>6, <1>2
  <2>2. CASE v \in C /\ w \in C
    BY <2>2, <1>6, <1>1
  <2>3. CASE v \in W /\ w \in C
    BY <2>3, <1>5
  <2>4. CASE v \in C /\ w \in W
    <3>1. w[1] # v[1] /\ <<w[2], w[3]>> # <<v[2], v[3]>>
      BY <2>4, <1>5
    <3> QED
      BY <3>1
  <2> QED
    BY <2>1, <2>2, <2>3, <2>4
<1>7. Covers(W \cup C, low, high + count, k + 1)
  BY <1>3, <1>4, <1>6 DEF Covers
<1> QED
  BY <1>7 DEF C

(* The first batch. *)
LEMMA FirstCovered ==
  ASSUME NEW low \in Int, NEW count \in Nat
  PROVE  Covers(Copied(low, 1, count), low, low + count, 1)
<1>1. Covers({}, low, low, 0)
  BY NothingCovered
<1>2. 0 \in Nat /\ low <= low
  OBVIOUS
<1>3. Covers({} \cup Copied(low, 0 + 1, count), low, low + count, 0 + 1)
  BY <1>1, <1>2, NextCovered
<1>4. 0 + 1 = 1 /\ {} \cup Copied(low, 1, count) = Copied(low, 1, count)
  OBVIOUS
<1> QED
  BY <1>3, <1>4, Zenon

-----------------------------------------------------------------------------
(* As many elements as are needed lead to a boundary.                         *)
LEMMA NeededAligns ==
  ASSUME NEW d \in Nat
  PROVE  /\ NeededToAlign(d) \in 0 .. BATCH_SIZE - 1
         /\ (d + NeededToAlign(d)) % BATCH_SIZE = 0
<1> DEFINE r == d % BATCH_SIZE
<1> DEFINE q == d \div BATCH_SIZE
<1>1. BATCH_SIZE \in Nat \ {0} /\ d \in Int
  BY XoroshiroAssumption
<1>2. r \in 0 .. BATCH_SIZE - 1
  BY <1>1, ModRange
<1>3. q \in Int /\ d = BATCH_SIZE * q + r
  BY <1>1, DivMod
<1>4. NeededToAlign(d) = (BATCH_SIZE - r) % BATCH_SIZE
  BY DEF NeededToAlign
<1> HIDE DEF r, q
<1>5. CASE r = 0
  <2>1. BATCH_SIZE - r = BATCH_SIZE * 1 + 0 /\ 0 \in 0 .. BATCH_SIZE - 1 /\ BATCH_SIZE - r \in Int
    BY <1>5, <1>1
  <2>2. NeededToAlign(d) = 0
    BY <2>1, <1>1, <1>4, ModUnique
  <2>3. d + 0 = BATCH_SIZE * q + 0
    BY <1>3, <1>5, <1>1
  <2>4. d + 0 \in Int
    BY <1>1
  <2>5. (d + 0) % BATCH_SIZE = 0
    BY <2>3, <2>4, <2>1, <1>1, <1>3, ModUnique
  <2> QED
    BY <2>2, <2>5, <2>1
<1>6. CASE r # 0
  <2>1. BATCH_SIZE - r \in 0 .. BATCH_SIZE - 1
    BY <1>6, <1>1, <1>2
  <2>2. NeededToAlign(d) = BATCH_SIZE - r
    BY <2>1, <1>1, <1>4, ModSmall
  <2>3. d + (BATCH_SIZE - r) = BATCH_SIZE * q + BATCH_SIZE
    BY <1>3, <1>1, <1>2
  <2>4. BATCH_SIZE * (q + 1) = BATCH_SIZE * q + BATCH_SIZE
    BY <1>1, <1>3, MulSucc
  <2>5. /\ d + (BATCH_SIZE - r) = BATCH_SIZE * (q + 1) + 0
        /\ d + (BATCH_SIZE - r) \in Int /\ q + 1 \in Int /\ 0 \in 0 .. BATCH_SIZE - 1
    BY <2>3, <2>4, <1>1, <1>2, <1>3
  <2>6. (d + (BATCH_SIZE - r)) % BATCH_SIZE = 0
    BY <2>5, <1>1, ModUnique
  <2> QED
    BY <2>1, <2>2, <2>6
<1> QED
  BY <1>5, <1>6

(* The last boundary before an end e: none lies between it and e, and a         *)
(* boundary before it is at least one register before it.                     *)
LEMMA LastBoundary ==
  ASSUME NEW e \in Nat
  PROVE  /\ e % BATCH_SIZE \in 0 .. BATCH_SIZE - 1
         /\ e - (e % BATCH_SIZE) \in Int
         /\ \A d \in Nat : d % BATCH_SIZE = 0 =>
              /\ d <= e => d <= e - (e % BATCH_SIZE)
              /\ d < e - (e % BATCH_SIZE) => d + BATCH_SIZE <= e - (e % BATCH_SIZE)
<1> DEFINE r == e % BATCH_SIZE
<1> DEFINE last == e - r
<1>1. BATCH_SIZE \in Nat \ {0} /\ e \in Int
  BY XoroshiroAssumption
<1>2. r \in 0 .. BATCH_SIZE - 1
  BY <1>1, ModRange
<1>3. \E q \in Int : e = BATCH_SIZE * q + r
  <2>1. e \div BATCH_SIZE \in Int /\ e = BATCH_SIZE * (e \div BATCH_SIZE) + r
    BY <1>1, DivMod
  <2> QED
    BY <2>1
<1> HIDE DEF r
<1>4. last \in Int /\ e < last + BATCH_SIZE
  BY <1>1, <1>2
<1>5. PICK q \in Int : last = BATCH_SIZE * q
  BY <1>1, <1>2, <1>3
<1> HIDE DEF last
<1>6. ASSUME NEW d \in Nat, d % BATCH_SIZE = 0
      PROVE  /\ d <= e => d <= last
             /\ d < last => d + BATCH_SIZE <= last
  <2>1. PICK j \in Int : d = BATCH_SIZE * j
    <3>1. d \div BATCH_SIZE \in Int /\ d = BATCH_SIZE * (d \div BATCH_SIZE) + (d % BATCH_SIZE)
      BY <1>1, DivMod
    <3>2. ASSUME NEW p \in Int, d = BATCH_SIZE * p + (d % BATCH_SIZE)
          PROVE  d = BATCH_SIZE * p
      BY <3>2, <1>6, <1>1
    <3> QED
      BY <3>1, <3>2
  <2>2. BATCH_SIZE * (j - q) = d - last /\ BATCH_SIZE * (q - j) = last - d
    BY <1>1, <1>5, <2>1, MulSub
  <2>3. ASSUME d <= e PROVE d <= last
    <3>1. d - last < BATCH_SIZE
      BY <2>3, <1>1, <1>4
    <3>2. j - q < 1
      BY <3>1, <2>2, <1>1, MulBelow
    <3>3. ~(0 < BATCH_SIZE * (j - q))
      BY <3>2, <1>1, MulAbove
    <3> QED
      BY <3>3, <2>2, <1>4
  <2>4. ASSUME d < last PROVE d + BATCH_SIZE <= last
    <3>1. 0 < BATCH_SIZE * (q - j)
      BY <2>2, <2>4, <1>4
    <3>2. 0 < q - j
      BY <3>1, <1>1, MulAbove
    <3>3. ~(BATCH_SIZE * (q - j) < BATCH_SIZE)
      BY <3>2, <1>1, MulBelow
    <3> QED
      BY <3>3, <2>2, <1>1, <1>4
  <2> QED
    BY <2>3, <2>4
<1> QED
  BY <1>2, <1>4, <1>6 DEF last, r

-----------------------------------------------------------------------------
(* No fill is under way at first. *)
LEMMA FillStarts == FillInit => FillInv
<1> SUFFICES ASSUME FillInit PROVE FillInv
  OBVIOUS
<1>1. /\ array = 0 /\ num_elements = 0 /\ dst = 0 /\ batches = 0 /\ writes = {}
      /\ filling = FALSE /\ End = 0
  BY DEF FillInit, End
<1>2. Covers({}, 0, 0, 0)
  BY NothingCovered
<1>3. Covers(writes, array, IF filling THEN dst ELSE End, batches)
  BY <1>1, <1>2, Zenon
<1> QED
  BY <1>1, <1>3 DEF FillInv

(* Each step of a fill keeps FillInv. *)
LEMMA ShortKeeps ==
  ASSUME NEW d \in Nat, NEW n \in Nat, FillInv, FillShort(d, n)
  PROVE  FillInv'
<1>1. /\ array' = d /\ num_elements' = n /\ dst' = d /\ batches' = 1
      /\ writes' = Copied(d, 1, n) /\ filling' = FALSE
  BY Zenon DEF FillInv, FillShort, Call
<1>2. End' = d + n
  BY <1>1 DEF End
<1>3. Covers(Copied(d, 1, n), d, d + n, 1)
  BY FirstCovered
<1>4. Covers(writes, array, IF filling THEN dst ELSE End, batches)'
  BY <1>1, <1>2, <1>3, Zenon DEF Covers
<1> QED
  BY <1>1, <1>4 DEF FillInv

(* A head of the first register up to the first aligned element. *)
LEMMA HeadKeeps ==
  ASSUME NEW d \in Nat, NEW n \in Nat, FillInv, FillHead(d, n)
  PROVE  FillInv'
<1> DEFINE k == NeededToAlign(d)
<1>1. /\ array' = d /\ num_elements' = n /\ dst' = d + k /\ batches' = 1
      /\ writes' = Copied(d, 1, k) /\ filling' = TRUE /\ n > k
  BY Zenon DEF FillHead, Call
<1>2. k \in Nat /\ (d + k) % BATCH_SIZE = 0
  <2>1. k \in 0 .. BATCH_SIZE - 1 /\ (d + k) % BATCH_SIZE = 0
    BY NeededAligns
  <2>2. 0 .. BATCH_SIZE - 1 \subseteq Nat
    BY XoroshiroAssumption
  <2> QED
    BY <2>1, <2>2
<1> HIDE DEF k
<1>3. Covers(Copied(d, 1, k), d, d + k, 1)
  BY <1>2, FirstCovered
<1>4. Covers(writes, array, IF filling THEN dst ELSE End, batches)'
  BY <1>1, <1>3, Zenon DEF Covers
<1>5. d + k \in Nat /\ d <= d + k
  BY <1>2
<1>6. d + k <= AlignedEnd'
  <2>1. End' = d + n /\ d + n \in Nat /\ d + k <= d + n
    BY <1>1, <1>2 DEF End
  <2>2. d + k <= (d + n) - ((d + n) % BATCH_SIZE)
    BY <2>1, <1>2, <1>5, LastBoundary
  <2> QED
    BY <2>1, <2>2, Zenon DEF AlignedEnd, Remainder
<1> QED
  BY <1>1, <1>2, <1>4, <1>5, <1>6 DEF FillInv

(* A fill that starts aligned has written nothing yet. *)
LEMMA AlignedKeeps ==
  ASSUME NEW d \in Nat, NEW n \in Nat, FillInv, FillAligned(d, n)
  PROVE  FillInv'
<1>1. /\ array' = d /\ num_elements' = n /\ dst' = d /\ batches' = 0
      /\ writes' = {} /\ filling' = TRUE /\ d % BATCH_SIZE = 0
  BY Zenon DEF FillAligned, Call
<1>2. Covers({}, d, d, 0)
  BY NothingCovered
<1>3. Covers(writes, array, IF filling THEN dst ELSE End, batches)'
  BY <1>1, <1>2, Zenon DEF Covers
<1>4. d <= AlignedEnd'
  <2>1. End' = d + n /\ d + n \in Nat /\ d <= d + n
    BY <1>1 DEF End
  <2>2. d <= (d + n) - ((d + n) % BATCH_SIZE)
    BY <2>1, <1>1, LastBoundary
  <2> QED
    BY <2>1, <2>2, Zenon DEF AlignedEnd, Remainder
<1> QED
  BY <1>1, <1>3, <1>4 DEF FillInv

(* A whole register is stored after what is written. *)
LEMMA StoreKeeps ==
  ASSUME FillInv, StoreBatch
  PROVE  FillInv'
<1> DEFINE k == batches + 1
<1>1. /\ array' = array /\ num_elements' = num_elements /\ filling' = filling /\ filling
      /\ dst < AlignedEnd /\ dst' = dst + BATCH_SIZE /\ batches' = k
      /\ writes' = writes \cup Copied(dst, k, BATCH_SIZE)
  BY Zenon DEF StoreBatch
<1>2. /\ array \in Nat /\ num_elements \in Nat /\ dst \in Nat /\ batches \in Nat
      /\ dst % BATCH_SIZE = 0 /\ array <= dst /\ filling \in BOOLEAN
      /\ Covers(writes, array, dst, batches)
  BY <1>1 DEF FillInv
<1>3. BATCH_SIZE \in Nat \ {0} /\ BATCH_SIZE \in Nat
  BY XoroshiroAssumption
<1>A. array \in Int /\ dst \in Int
  BY <1>2
<1>4. Covers(writes \cup Copied(dst, k, BATCH_SIZE), array, dst + BATCH_SIZE, k)
  BY <1>2, <1>3, <1>A, NextCovered, Zenon
<1>5. Covers(writes, array, IF filling THEN dst ELSE End, batches)'
  BY <1>1, <1>4, Zenon DEF Covers
<1>6. dst + BATCH_SIZE \in Nat /\ array <= dst + BATCH_SIZE /\ k \in Nat
  BY <1>2, <1>3
<1>7. (dst + BATCH_SIZE) % BATCH_SIZE = 0
  <2>1. (dst + BATCH_SIZE) % BATCH_SIZE = dst % BATCH_SIZE
    BY <1>A, <1>3, ModShift, Zenon
  <2> QED
    BY <2>1, <1>2
<1>8. dst + BATCH_SIZE <= AlignedEnd
  <2>1. End \in Nat
    BY <1>2 DEF End
  <2> QED
    BY <2>1, <1>1, <1>2, LastBoundary DEF AlignedEnd, Remainder
<1>9. AlignedEnd' = AlignedEnd
  BY <1>1, Zenon DEF AlignedEnd, Remainder, End
<1> QED
  BY <1>1, <1>2, <1>5, <1>6, <1>7, <1>8, <1>9 DEF FillInv

(* The tail ends where the array ends. *)
LEMMA RemainderKeeps ==
  ASSUME FillInv, FillRemainder
  PROVE  FillInv'
<1> DEFINE k == batches + 1
<1>1. /\ array' = array /\ num_elements' = num_elements /\ dst' = dst
      /\ filling /\ dst >= AlignedEnd /\ filling' = FALSE
      /\ End' = End
  BY Zenon DEF FillRemainder, End
<1>2. /\ array \in Nat /\ num_elements \in Nat /\ dst \in Nat /\ batches \in Nat
      /\ array <= dst /\ dst <= AlignedEnd /\ Covers(writes, array, dst, batches)
  BY <1>1 DEF FillInv
<1>3. Remainder \in Nat /\ dst + Remainder = End
  <2>1. /\ Remainder \in 0 .. BATCH_SIZE - 1 /\ AlignedEnd \in Int
        /\ AlignedEnd + Remainder = End
    <3>1. End \in Nat
      BY <1>2 DEF End
    <3>2. /\ Remainder \in 0 .. BATCH_SIZE - 1 /\ AlignedEnd \in Int
          /\ AlignedEnd = End - Remainder
      BY <3>1, LastBoundary DEF Remainder, AlignedEnd
    <3>3. BATCH_SIZE \in Nat
      BY XoroshiroAssumption
    <3> QED
      BY <3>1, <3>2, <3>3
  <2>2. dst = AlignedEnd
    BY <2>1, <1>1, <1>2
  <2>3. BATCH_SIZE \in Nat
    BY XoroshiroAssumption
  <2> QED
    BY <2>1, <2>2, <2>3
<1>4. CASE Remainder # 0
  <2>1. writes' = writes \cup Copied(dst, k, Remainder) /\ batches' = k
    BY <1>4, Zenon DEF FillRemainder
  <2>6. array \in Int /\ dst \in Int
    BY <1>2
  <2>2. Covers(writes \cup Copied(dst, k, Remainder), array, dst + Remainder, k)
    BY <1>2, <1>3, <2>6, NextCovered, Zenon
  <2>3. Covers(writes \cup Copied(dst, k, Remainder), array, End, k)
    BY <2>2, <1>3, Zenon
  <2>4. Covers(writes, array, IF filling THEN dst ELSE End, batches)'
    BY <2>1, <2>3, <1>1, Zenon DEF Covers
  <2>5. k \in Nat
    BY <1>2
  <2> QED
    BY <2>1, <2>4, <2>5, <1>1, <1>2 DEF FillInv
<1>5. CASE Remainder = 0
  <2>1. writes' = writes /\ batches' = batches
    BY <1>5, Zenon DEF FillRemainder
  <2>2. dst = End
    BY <1>3, <1>5, <1>2
  <2>3. Covers(writes, array, End, batches)
    BY <2>2, <1>2, Zenon
  <2>4. Covers(writes, array, IF filling THEN dst ELSE End, batches)'
    BY <2>1, <2>3, <1>1, Zenon DEF Covers
  <2> QED
    BY <2>1, <2>4, <1>1, <1>2 DEF FillInv
<1> QED
  BY <1>4, <1>5

(* What FillInv says implies FillExact. *)
LEMMA FillInvExact == FillInv => FillExact
<1> SUFFICES ASSUME FillInv PROVE FillExact
  OBVIOUS
<1> DEFINE high == IF filling THEN dst ELSE End
<1>1. /\ \A w \in writes : w[1] \in array .. high - 1
      /\ \A a \in array .. high - 1 : \E w \in writes : w[1] = a
      /\ \A v, w \in writes : v # w => v[1] # w[1] /\ <<v[2], v[3]>> # <<w[2], w[3]>>
  BY DEF FillInv, Covers
<1> HIDE DEF high
<1>2. {w[1] : w \in writes} = array .. high - 1
  BY <1>1, ZenonT(30)
<1>3. filling => dst % BATCH_SIZE = 0
  BY DEF FillInv
<1> QED
  BY <1>1, <1>2, <1>3, Zenon DEF FillExact, high

-----------------------------------------------------------------------------
(* Neither buffer comes first. *)
LEMMA ReturnedSymmetric ==
  ASSUME NEW S, NEW m, NEW b, NEW l, NEW c, NEW k, Returned(S, m, b, l, c, k)
  PROVE  Returned(S, m, c, k, b, l)
BY Zenon DEF Returned

(* The next number of a buffer that is not used up. *)
LEMMA NextOfBuffer ==
  ASSUME NEW S, NEW m, NEW b, NEW l, NEW c, NEW k, Returned(S, m, b, l, c, k),
         l # BATCH_SIZE
  PROVE  Returned(S \cup {<<b, l>>}, m, b, l + 1, c, k)
<1> DEFINE T == S \cup {<<b, l>>}
<1>1. /\ m \in Nat /\ b \in Int /\ b <= m /\ c \in Int /\ c <= m /\ b # c
      /\ l \in 0 .. BATCH_SIZE /\ k \in 0 .. BATCH_SIZE /\ BATCH_SIZE \in Nat \ {0}
      /\ \A w \in S : w[1] \in Int /\ w[1] <= m
  BY XoroshiroAssumption DEF Returned
<1>2. l \in Lane /\ l + 1 \in 0 .. BATCH_SIZE
  BY <1>1 DEF Lane
<1>3. \A w \in T : w[1] \in Int /\ w[1] <= m
  BY <1>1
<1>4. ASSUME NEW x \in 1 .. m, NEW lane \in Lane
      PROVE  <<x, lane>> \in T <=> ~((x = b /\ l + 1 <= lane) \/ (x = c /\ k <= lane))
  <2>1. <<x, lane>> \in S <=> ~((x = b /\ l <= lane) \/ (x = c /\ k <= lane))
    BY DEF Returned
  <2>2. lane \in Int /\ l \in Int
    BY <1>1 DEF Lane
  <2>3. (l <= lane) <=> (l = lane \/ l + 1 <= lane)
    BY <2>2
  <2>4. ~(l + 1 <= l)
    BY <2>2
  <2>5. <<x, lane>> \in T <=> (<<x, lane>> \in S \/ (x = b /\ lane = l))
    OBVIOUS
  <2> QED
    BY <2>1, <2>3, <2>4, <2>5, <1>1, Zenon
<1> QED
  BY <1>1, <1>2, <1>3, <1>4 DEF Returned

(* A buffer that is used up gets a new batch, and its first number is next. *)
LEMMA NextBatch ==
  ASSUME NEW S, NEW m, NEW b, NEW c, NEW k, Returned(S, m, b, BATCH_SIZE, c, k)
  PROVE  Returned(S \cup {<<m + 1, 0>>}, m + 1, m + 1, 1, c, k)
<1> DEFINE T == S \cup {<<m + 1, 0>>}
<1>1. /\ m \in Nat /\ b \in Int /\ b <= m /\ c \in Int /\ c <= m
      /\ k \in 0 .. BATCH_SIZE /\ BATCH_SIZE \in Nat \ {0}
      /\ \A w \in S : w[1] \in Int /\ w[1] <= m
  BY XoroshiroAssumption DEF Returned
<1>2. /\ m + 1 \in Nat /\ m + 1 \in Int /\ m + 1 # c /\ c <= m + 1 /\ m + 1 <= m + 1
      /\ 1 \in 0 .. BATCH_SIZE
  BY <1>1
<1>3. \A w \in T : w[1] \in Int /\ w[1] <= m + 1
  BY <1>1
<1>4. ASSUME NEW x \in 1 .. m + 1, NEW lane \in Lane
      PROVE  <<x, lane>> \in T <=> ~((x = m + 1 /\ 1 <= lane) \/ (x = c /\ k <= lane))
  <2>0. lane \in Nat /\ ~(BATCH_SIZE <= lane) /\ (lane = 0 <=> ~(1 <= lane))
    BY <1>1 DEF Lane
  <2>1. CASE x = m + 1
    <3>1. <<x, lane>> \notin S
      <4>1. ASSUME <<x, lane>> \in S PROVE FALSE
        <5>1. <<x, lane>>[1] <= m
          BY <4>1, <1>1
        <5> QED
          BY <5>1, <2>1, <1>1
      <4> QED
        BY <4>1
    <3>2. <<x, lane>> \in T <=> lane = 0
      BY <3>1, <2>1
    <3> QED
      BY <3>2, <2>0, <2>1, <1>2, Zenon
  <2>2. CASE x # m + 1
    <3>1. x \in 1 .. m
      BY <2>2, <1>1
    <3>2. <<x, lane>> \in S <=> ~((x = b /\ BATCH_SIZE <= lane) \/ (x = c /\ k <= lane))
      BY <3>1 DEF Returned
    <3>3. <<x, lane>> \in T <=> <<x, lane>> \in S
      BY <2>2
    <3> QED
      BY <3>2, <3>3, <2>0, <2>2, Zenon
  <2> QED
    BY <2>1, <2>2
<1> QED
  BY <1>1, <1>2, <1>3, <1>4 DEF Returned

(* What a constructor leaves. *)
LEMMA BufferStarts == SequentialInit => BufferInv
<1> SUFFICES ASSUME SequentialInit PROVE BufferInv
  OBVIOUS
<1>1. /\ int_idx = 0 /\ float_idx = 0 /\ served = {}
      /\ \/ made = 2 /\ int_buffer = 1 /\ float_buffer = 2
         \/ made = 0 /\ int_buffer = 0 /\ float_buffer = -1
  BY DEF SequentialInit, ConstructFilled, ConstructEmpty
<1>2. BATCH_SIZE \in Nat \ {0}
  BY XoroshiroAssumption
<1>3. /\ made \in Nat /\ int_buffer \in Int /\ float_buffer \in Int
      /\ int_buffer <= made /\ float_buffer <= made /\ int_buffer # float_buffer
      /\ 0 \in 0 .. BATCH_SIZE
  BY <1>1, <1>2
<1>4. ASSUME NEW x \in 1 .. made, NEW lane \in Lane
      PROVE  (x = int_buffer /\ 0 <= lane) \/ (x = float_buffer /\ 0 <= lane)
  BY <1>1, <1>2 DEF Lane
<1> QED
  BY <1>1, <1>3, <1>4 DEF BufferInv, Returned

(* Each number returned keeps BufferInv. *)
LEMMA IntKeeps ==
  ASSUME BufferInv, FromIntBuffer
  PROVE  BufferInv'
<1>1. Returned(served, made, int_buffer, int_idx, float_buffer, float_idx)
  BY DEF BufferInv
<1>2. float_buffer' = float_buffer /\ float_idx' = float_idx
  BY DEF FromIntBuffer
<1>3. CASE int_idx = BATCH_SIZE
  <2>1. /\ made' = made + 1 /\ int_buffer' = made + 1 /\ int_idx' = 0 + 1
        /\ served' = served \cup {<<made + 1, 0>>}
    BY <1>3, Zenon DEF FromIntBuffer, UsedUp, GetBatch
  <2>2. Returned(served \cup {<<made + 1, 0>>}, made + 1, made + 1, 1, float_buffer, float_idx)
    BY <1>1, <1>3, NextBatch, Zenon
  <2>3. int_idx' = 1
    BY <2>1
  <2> QED
    BY <2>1, <2>2, <2>3, <1>2, Zenon DEF BufferInv, Returned
<1>4. CASE int_idx # BATCH_SIZE
  <2>1. /\ made' = made /\ int_buffer' = int_buffer /\ int_idx' = int_idx + 1
        /\ served' = served \cup {<<int_buffer, int_idx>>}
    BY <1>4, Zenon DEF FromIntBuffer, UsedUp, GetBatch
  <2>2. Returned(served \cup {<<int_buffer, int_idx>>}, made, int_buffer, int_idx + 1,
                 float_buffer, float_idx)
    BY <1>1, <1>4, NextOfBuffer, Zenon
  <2> QED
    BY <2>1, <2>2, <1>2, Zenon DEF BufferInv, Returned
<1> QED
  BY <1>3, <1>4

(* The same of a float. *)
LEMMA FloatKeeps ==
  ASSUME BufferInv, GetFloat
  PROVE  BufferInv'
<1>1. Returned(served, made, float_buffer, float_idx, int_buffer, int_idx)
  BY ReturnedSymmetric DEF BufferInv
<1>2. int_buffer' = int_buffer /\ int_idx' = int_idx
  BY DEF GetFloat
<1>3. CASE float_idx = BATCH_SIZE
  <2>1. /\ made' = made + 1 /\ float_buffer' = made + 1 /\ float_idx' = 0 + 1
        /\ served' = served \cup {<<made + 1, 0>>}
    BY <1>3, Zenon DEF GetFloat, UsedUp, GetBatch
  <2>2. Returned(served \cup {<<made + 1, 0>>}, made + 1, made + 1, 1, int_buffer, int_idx)
    BY <1>1, <1>3, NextBatch, Zenon
  <2>3. Returned(served \cup {<<made + 1, 0>>}, made + 1, int_buffer, int_idx, made + 1, 1)
    BY <2>2, ReturnedSymmetric, Zenon
  <2>4. float_idx' = 1
    BY <2>1
  <2> QED
    BY <2>1, <2>3, <2>4, <1>2, Zenon DEF BufferInv, Returned
<1>4. CASE float_idx # BATCH_SIZE
  <2>1. /\ made' = made /\ float_buffer' = float_buffer /\ float_idx' = float_idx + 1
        /\ served' = served \cup {<<float_buffer, float_idx>>}
    BY <1>4, Zenon DEF GetFloat, UsedUp, GetBatch
  <2>2. Returned(served \cup {<<float_buffer, float_idx>>}, made, float_buffer, float_idx + 1,
                 int_buffer, int_idx)
    BY <1>1, <1>4, NextOfBuffer, Zenon
  <2>3. Returned(served \cup {<<float_buffer, float_idx>>}, made, int_buffer, int_idx,
                 float_buffer, float_idx + 1)
    BY <2>2, ReturnedSymmetric, Zenon
  <2> QED
    BY <2>1, <2>3, <1>2, Zenon DEF BufferInv, Returned
<1> QED
  BY <1>3, <1>4

(* What BufferInv says implies EveryNumberOnce. *)
LEMMA BufferInvOnce == BufferInv => EveryNumberOnce
<1> SUFFICES ASSUME BufferInv PROVE EveryNumberOnce
  OBVIOUS
<1> DEFINE OfGenerator == (1 .. made) \X Lane
<1> DEFINE pending == {<<int_buffer, lane>> : lane \in int_idx .. BATCH_SIZE - 1} \cap OfGenerator
<1> DEFINE floats == {<<float_buffer, lane>> : lane \in float_idx .. BATCH_SIZE - 1} \cap OfGenerator
<1> DEFINE returned == served \cap OfGenerator
<1>1. /\ int_buffer # float_buffer /\ BATCH_SIZE \in Nat
      /\ int_idx \in 0 .. BATCH_SIZE /\ float_idx \in 0 .. BATCH_SIZE
  BY XoroshiroAssumption DEF BufferInv, Returned
<1>2. \A x \in 1 .. made, lane \in Lane :
        <<x, lane>> \in served <=>
          ~((x = int_buffer /\ int_idx <= lane) \/ (x = float_buffer /\ float_idx <= lane))
  BY DEF BufferInv, Returned
<1>3. ASSUME NEW l \in 0 .. BATCH_SIZE, NEW lane \in Lane
      PROVE  lane \in l .. BATCH_SIZE - 1 <=> l <= lane
  BY <1>1 DEF Lane
<1>4. ASSUME NEW x \in 1 .. made, NEW lane \in Lane
      PROVE  /\ <<x, lane>> \in pending <=> (x = int_buffer /\ int_idx <= lane)
             /\ <<x, lane>> \in floats <=> (x = float_buffer /\ float_idx <= lane)
             /\ <<x, lane>> \in returned <=> <<x, lane>> \in served
  BY <1>1, <1>3, Zenon
<1>5. /\ pending \subseteq OfGenerator /\ floats \subseteq OfGenerator
      /\ returned \subseteq OfGenerator
  OBVIOUS
<1>6. \A w \in OfGenerator : w = <<w[1], w[2]>> /\ w[1] \in 1 .. made /\ w[2] \in Lane
  OBVIOUS
<1> HIDE DEF pending, floats, returned
<1>7. ASSUME NEW w \in OfGenerator
      PROVE  w \in returned <=> ~(w \in pending \/ w \in floats)
  <2>1. PICK x \in 1 .. made, lane \in Lane : w = <<x, lane>>
    BY <1>6
  <2> QED
    BY <2>1, <1>2, <1>4, Zenon
<1> HIDE DEF OfGenerator
<1>8. returned \cap (pending \cup floats) = {} /\ returned \cup pending \cup floats = OfGenerator
  BY <1>5, <1>7
<1>9. int_idx <= BATCH_SIZE /\ float_idx <= BATCH_SIZE
  BY <1>1
<1> QED
  BY <1>1, <1>8, <1>9, Zenon DEF EveryNumberOnce, OfGenerator, pending, floats, returned

-----------------------------------------------------------------------------
(* Both invariants hold at first ... *)
LEMMA FillsStart == Init => FillInv /\ BufferInv
BY FillStarts, BufferStarts DEF Init

(* ... a step of a fill or of a buffered generator keeps the one ... *)
LEMMA FillStep ==
  ASSUME FillInv, [FillNext \/ SequentialNext]_vars
  PROVE  FillInv'
<1>1. CASE FillNext
  <2>1. ASSUME NEW d \in 0 .. MaxAddress, NEW n \in 0 .. MaxElements,
               FillShort(d, n) \/ FillHead(d, n) \/ FillAligned(d, n)
        PROVE  FillInv'
    <3>1. d \in Nat /\ n \in Nat
      BY XoroshiroAssumption
    <3> QED
      BY <2>1, <3>1, ShortKeeps, HeadKeeps, AlignedKeeps, Zenon
  <2> QED
    BY <1>1, <2>1, StoreKeeps, RemainderKeeps, Zenon DEF FillNext
<1>2. CASE UNCHANGED fillVars
  BY <1>2 DEF FillInv, Covers, fillVars, End, AlignedEnd, Remainder
<1>3. CASE SequentialNext
  <2>1. UNCHANGED fillVars
    BY <1>3 DEF SequentialNext, GetUint32, GetInt32, FromIntBuffer, GetFloat
  <2> QED
    BY <2>1, <1>2
<1> QED
  BY <1>1, <1>2, <1>3 DEF vars

(* ... and the other. *)
LEMMA BufferStep ==
  ASSUME BufferInv, [FillNext \/ SequentialNext]_vars
  PROVE  BufferInv'
<1>1. CASE SequentialNext
  BY <1>1, IntKeeps, FloatKeeps, Zenon DEF SequentialNext, GetUint32, GetInt32
<1>2. CASE UNCHANGED sequentialVars
  BY <1>2, Zenon DEF BufferInv, Returned, sequentialVars
<1>3. CASE FillNext
  <2>1. UNCHANGED sequentialVars
    BY <1>3, Zenon DEF FillNext, FillShort, FillHead, FillAligned, StoreBatch, FillRemainder
  <2> QED
    BY <2>1, <1>2
<1> QED
  BY <1>1, <1>2, <1>3, Zenon DEF vars

(***************************************************************************)
(* Every fill, of any length and from any address, aligned or not and with     *)
(* any width of a register, writes each element of the array exactly once,     *)
(* with numbers it uses once, and nothing else: the head, the whole registers  *)
(* and the remainder of fill_partial_aligned_* and fill_aligned_* meet.         *)
(***************************************************************************)
THEOREM FillsAreExact == Spec => []FillExact
<1>1. Init => FillInv
  BY FillsStart
<1>2. FillInv /\ [FillNext \/ SequentialNext]_vars => FillInv'
  BY FillStep
<1> QED
  BY <1>1, <1>2, FillInvExact, PTL DEF Spec

(***************************************************************************)
(* The buffered generators return no number twice and lose none, though the    *)
(* integers and the floats draw from one generator in any order: what was not  *)
(* returned of the batches made is in the two buffers.                        *)
(***************************************************************************)
THEOREM NumbersReturnedOnce == Spec => []EveryNumberOnce
<1>1. Init => BufferInv
  BY FillsStart
<1>2. BufferInv /\ [FillNext \/ SequentialNext]_vars => BufferInv'
  BY BufferStep
<1> QED
  BY <1>1, <1>2, BufferInvOnce, PTL DEF Spec

-----------------------------------------------------------------------------
(* advance() on its own, after a constructor. *)
AdvanceSpec == AdvanceInit /\ [][AdvanceNext]_advanceVars

(* Which bit a rotation by k takes to bit n. *)
Source(n, k, w) == IF n % w >= k THEN n - k ELSE n + w - k

(* What a bit's place in its lane becomes when it stays in the lane. *)
LEMMA ModInLane ==
  ASSUME NEW w \in Nat \ {0}, NEW n \in Int, NEW j \in Int, (n % w) + j \in 0 .. w - 1
  PROVE  (n + j) % w = (n % w) + j
<1> DEFINE q == n \div w
<1> DEFINE r == n % w
<1>1. q \in Int /\ r \in 0 .. w - 1 /\ n = w * q + r
  BY DivMod, ModRange
<1> DEFINE p == w * q
<1>2. p \in Int
  BY <1>1
<1> HIDE DEF q, r, p
<1>3. n + j = p + (r + j)
  BY <1>1, <1>2 DEF p
<1>4. n + j \in Int /\ r + j \in 0 .. w - 1 /\ n + j = w * q + (r + j)
  BY <1>1, <1>3 DEF p, r
<1>5. (n + j) % w = r + j
  BY <1>1, <1>4, ModUnique
<1> QED
  BY <1>5 DEF r

(* The two ways out of a lane are closed. *)
LEMMA ShiftLeftBit ==
  ASSUME NEW w \in Nat \ {0}, NEW k \in 1 .. w - 1, NEW x \in SUBSET Int, NEW n \in Int
  PROVE  n \in ShiftLeft(x, k, w) <=> n % w >= k /\ n - k \in x
<1>1. n % w \in 0 .. w - 1 /\ k \in Int /\ n - k \in Int /\ (n - k) % w \in 0 .. w - 1
  BY ModRange
<1>2. n \in ShiftLeft(x, k, w) <=> n - k \in x /\ ((n - k) % w) + k < w
  <2>1. ASSUME n \in ShiftLeft(x, k, w) PROVE n - k \in x /\ ((n - k) % w) + k < w
    <3>1. PICK b \in x : (b % w) + k < w /\ n = b + k
      BY <2>1 DEF ShiftLeft
    <3>2. b = n - k
      BY <3>1
    <3> QED
      BY <3>1, <3>2
  <2>2. ASSUME n - k \in x, ((n - k) % w) + k < w PROVE n \in ShiftLeft(x, k, w)
    <3>1. n = (n - k) + k
      BY <1>1
    <3> QED
      BY <2>2, <3>1 DEF ShiftLeft
  <2> QED
    BY <2>1, <2>2
<1>3. ASSUME ((n - k) % w) + k < w PROVE n % w >= k
  <2>1. ((n - k) % w) + k \in 0 .. w - 1 /\ (n - k) + k = n
    BY <1>1, <1>3
  <2>2. n % w = ((n - k) % w) + k
    BY <1>1, <2>1, ModInLane
  <2> QED
    BY <1>1, <2>2
<1>4. ASSUME n % w >= k PROVE ((n - k) % w) + k < w
  <2>1. (n % w) + (-k) \in 0 .. w - 1 /\ -k \in Int /\ n + (-k) = n - k
    BY <1>1, <1>4
  <2>2. (n - k) % w = (n % w) + (-k)
    BY <2>1, ModInLane
  <2> QED
    BY <1>1, <2>2
<1> QED
  BY <1>2, <1>3, <1>4

(* The part of a rotation that a shift to the right brings round. *)
LEMMA ShiftRightBit ==
  ASSUME NEW w \in Nat \ {0}, NEW k \in 1 .. w - 1, NEW x \in SUBSET Int, NEW n \in Int
  PROVE  n \in ShiftRight(x, w - k, w) <=> n % w < k /\ n + w - k \in x
<1> DEFINE j == w - k
<1>1. /\ n % w \in 0 .. w - 1 /\ j \in 1 .. w - 1 /\ n + j \in Int /\ (n + j) % w \in 0 .. w - 1
      /\ n + j = n + w - k
  BY ModRange
<1>2. n \in ShiftRight(x, j, w) <=> n + j \in x /\ (n + j) % w >= j
  <2> HIDE DEF j
  <2>1. ASSUME n \in ShiftRight(x, j, w) PROVE n + j \in x /\ (n + j) % w >= j
    <3>1. PICK b \in x : b % w >= j /\ n = b - j
      BY <2>1 DEF ShiftRight
    <3>2. b = n + j
      BY <1>1, <3>1
    <3> QED
      BY <3>1, <3>2
  <2>2. ASSUME n + j \in x, (n + j) % w >= j PROVE n \in ShiftRight(x, j, w)
    <3>1. n = (n + j) - j
      BY <1>1
    <3> QED
      BY <2>2, <3>1 DEF ShiftRight
  <2> QED
    BY <2>1, <2>2
<1>3. ASSUME (n + j) % w >= j PROVE n % w < k
  <2>1. ((n + j) % w) + (-j) \in 0 .. w - 1 /\ -j \in Int /\ (n + j) + (-j) = n
    BY <1>1, <1>3
  <2>2. n % w = ((n + j) % w) + (-j)
    BY <1>1, <2>1, ModInLane
  <2> QED
    BY <1>1, <2>2
<1>4. ASSUME n % w < k PROVE (n + j) % w >= j
  <2>1. (n % w) + j \in 0 .. w - 1 /\ j \in Int
    BY <1>1, <1>4
  <2>2. (n + j) % w = (n % w) + j
    BY <2>1, ModInLane
  <2> QED
    BY <1>1, <2>2
<1> QED
  BY <1>1, <1>2, <1>3, <1>4

(* Shifts and rotations of bits are bits. *)
LEMMA ShiftsAreBits ==
  ASSUME NEW w \in Nat \ {0}, NEW k \in 1 .. w - 1, NEW x \in SUBSET Int
  PROVE  ShiftLeft(x, k, w) \in SUBSET Int /\ ShiftRight(x, k, w) \in SUBSET Int
         /\ Rotl(x, k, w) \in SUBSET Int
BY DEF ShiftLeft, ShiftRight, Rotl

(* A rotation takes each bit from its source within the word. *)
LEMMA RotlBit ==
  ASSUME NEW w \in Nat \ {0}, NEW k \in 1 .. w - 1, NEW x \in SUBSET Int, NEW n \in Int
  PROVE  n \in Rotl(x, k, w) <=> Source(n, k, w) \in x
<1>1. n % w \in 0 .. w - 1
  BY ModRange
<1>2. n \in Rotl(x, k, w) <=> n \in ShiftLeft(x, k, w) \/ n \in ShiftRight(x, w - k, w)
  BY DEF Rotl
<1> QED
  BY <1>1, <1>2, ShiftLeftBit, ShiftRightBit DEF Source

(* A rotation by k and one by w - k cancel. *)
LEMMA RotlBack ==
  ASSUME NEW w \in Nat \ {0}, NEW k \in 1 .. w - 1, NEW x \in SUBSET Int
  PROVE  Rotl(Rotl(x, k, w), w - k, w) = x
<1> DEFINE j == w - k
<1>1. j \in 1 .. w - 1 /\ k \in Int /\ j \in Int
  OBVIOUS
<1>2. Rotl(x, k, w) \in SUBSET Int /\ Rotl(Rotl(x, k, w), j, w) \in SUBSET Int
  BY <1>1, ShiftsAreBits
<1>3. ASSUME NEW n \in Int
      PROVE  Source(n, j, w) \in Int /\ Source(Source(n, j, w), k, w) = n
  <2>1. n % w \in 0 .. w - 1
    BY ModRange
  <2>2. CASE n % w >= j
    <3>1. Source(n, j, w) = n - j /\ n - j \in Int
      BY <1>1, <2>2 DEF Source
    <3>2. (n % w) + (-j) \in 0 .. w - 1 /\ -j \in Int /\ n + (-j) = n - j
      BY <1>1, <2>1, <2>2
    <3>3. (n - j) % w = (n % w) + (-j)
      BY <3>2, ModInLane
    <3>4. ~((n - j) % w >= k)
      BY <2>1, <3>3
    <3>5. Source(n - j, k, w) = (n - j) + w - k
      BY <3>4, Zenon DEF Source
    <3> QED
      BY <3>1, <3>5
  <2>3. CASE ~(n % w >= j)
    <3>1. Source(n, j, w) = n + w - j /\ n + w - j = n + k
      BY <1>1, <2>3 DEF Source
    <3>2. (n % w) + k \in 0 .. w - 1
      BY <1>1, <2>1, <2>3
    <3>3. (n + k) % w = (n % w) + k
      BY <1>1, <3>2, ModInLane
    <3>4. (n + k) % w >= k
      BY <2>1, <3>3
    <3>5. Source(n + k, k, w) = (n + k) - k
      BY <3>4, Zenon DEF Source
    <3> QED
      BY <3>1, <3>5
  <2> QED
    BY <2>2, <2>3
<1>4. ASSUME NEW n \in Int PROVE n \in Rotl(Rotl(x, k, w), j, w) <=> n \in x
  <2>1. n \in Rotl(Rotl(x, k, w), j, w) <=> Source(n, j, w) \in Rotl(x, k, w)
    BY <1>1, <1>2, RotlBit
  <2>2. Source(n, j, w) \in Rotl(x, k, w) <=> Source(Source(n, j, w), k, w) \in x
    BY <1>3, RotlBit
  <2> QED
    BY <1>3, <2>1, <2>2
<1>5. Rotl(Rotl(x, k, w), j, w) = x
  BY <1>2, <1>4
<1> QED
  BY <1>5

(* Exclusive or of what is known gives the rest. *)
LEMMA SymDiffBack ==
  ASSUME NEW x, NEW y
  PROVE  SymDiff(SymDiff(x, y), y) = x /\ SymDiff(x, SymDiff(x, y)) = y
BY DEF SymDiff

(* advance() can be undone, in lanes of any width beyond 26. *)
LEMMA AdvancedBack ==
  ASSUME NEW w \in Nat, w > 26, NEW a \in SUBSET Int, NEW b \in SUBSET Int
  PROVE  LET after == Advanced(a, b, w) IN <<a, b>> = Before(after[1], after[2], w)
<1> DEFINE b1 == SymDiff(a, b)
<1> DEFINE shifted == ShiftLeft(b1, 9, w)
<1> DEFINE a1 == SymDiff(SymDiff(Rotl(a, 26, w), b1), shifted)
<1> DEFINE b2 == Rotl(b1, 13, w)
<1>1. b1 \in SUBSET Int
  BY DEF SymDiff
<1>2. w \in Nat \ {0} /\ 26 \in 1 .. w - 1 /\ 13 \in 1 .. w - 1
  OBVIOUS
<1>3. Rotl(b2, w - 13, w) = b1
  BY <1>1, <1>2, RotlBack
<1>4. SymDiff(SymDiff(a1, shifted), b1) = Rotl(a, 26, w)
  BY SymDiffBack
<1>5. SymDiff(SymDiff(a1, b1), shifted) = SymDiff(SymDiff(a1, shifted), b1)
  BY DEF SymDiff
<1>6. Rotl(Rotl(a, 26, w), w - 26, w) = a
  BY <1>2, RotlBack
<1>7. SymDiff(a, b1) = b
  BY SymDiffBack
<1>8. Advanced(a, b, w) = <<a1, b2>>
  BY DEF Advanced
<1>9. Before(a1, b2, w) = <<a, b>>
  <2> HIDE DEF b1, shifted, a1, b2
  <2>1. Before(a1, b2, w)
          = LET b3 == Rotl(b2, w - 13, w)
                a2 == Rotl(SymDiff(SymDiff(a1, b3), ShiftLeft(b3, 9, w)), w - 26, w)
            IN  <<a2, SymDiff(a2, b3)>>
    BY Zenon DEF Before
  <2>2. ShiftLeft(b1, 9, w) = shifted
    BY Zenon DEF shifted
  <2>3. Before(a1, b2, w)
          = <<Rotl(SymDiff(SymDiff(a1, b1), shifted), w - 26, w),
              SymDiff(Rotl(SymDiff(SymDiff(a1, b1), shifted), w - 26, w), b1)>>
    BY <2>1, <2>2, <1>3, Zenon
  <2>4. Rotl(SymDiff(SymDiff(a1, b1), shifted), w - 26, w) = a
    BY <1>4, <1>5, <1>6, Zenon
  <2> QED
    BY <2>3, <2>4, <1>7, Zenon
<1> HIDE DEF b1, shifted, a1, b2
<1>10. Advanced(a, b, w)[1] = a1 /\ Advanced(a, b, w)[2] = b2
  BY <1>8
<1> QED
  BY <1>9, <1>10, Zenon

-----------------------------------------------------------------------------
(* The bits of the word in a lane, and what the operations do to it.           *)
LEMMA WordBit ==
  ASSUME NEW x \in SUBSET Int, NEW lane \in Int, NEW m \in Int
  PROVE  m \in Word(x, lane) <=> m \in 0 .. 31 /\ 32 * lane + m \in x
<1>1. ASSUME m \in Word(x, lane) PROVE m \in 0 .. 31 /\ 32 * lane + m \in x
  <2>1. PICK b \in x : b \div 32 = lane /\ m = b - 32 * lane
    BY <1>1 DEF Word
  <2>2. b \in Int /\ b = 32 * lane + m
    BY <2>1
  <2>3. 32 \in Nat \ {0} /\ b = 32 * (b \div 32) + (b % 32) /\ b % 32 \in 0 .. 31
    BY <2>2, DivMod, ModRange
  <2> QED
    BY <2>1, <2>2, <2>3
<1>2. ASSUME m \in 0 .. 31, 32 * lane + m \in x PROVE m \in Word(x, lane)
  <2> DEFINE b == 32 * lane + m
  <2>1. b \in x /\ b \in Int /\ b \div 32 = lane /\ m = b - 32 * lane
    BY <1>2
  <2> HIDE DEF b
  <2> QED
    BY <2>1 DEF Word
<1> QED
  BY <1>1, <1>2

(* A lane of a register is a word of its own ... *)
LEMMA WordIsBits ==
  ASSUME NEW x \in SUBSET Int, NEW lane \in Int
  PROVE  Word(x, lane) \in SUBSET Int
BY DEF Word

(* ... which a rotation of all lanes rotates ... *)
LEMMA WordRotl ==
  ASSUME NEW x \in SUBSET Int, NEW lane \in Int, NEW k \in 1 .. 31
  PROVE  Word(Rotl(x, k, 32), lane) = Rotl(Word(x, lane), k, 32)
<1>1. /\ 32 \in Nat \ {0} /\ k \in 1 .. 32 - 1
      /\ Rotl(x, k, 32) \in SUBSET Int /\ Word(x, lane) \in SUBSET Int
  BY ShiftsAreBits, WordIsBits
<1>2. Word(Rotl(x, k, 32), lane) \in SUBSET Int /\ Rotl(Word(x, lane), k, 32) \in SUBSET Int
  BY <1>1, ShiftsAreBits, WordIsBits
<1>3. ASSUME NEW m \in Int
      PROVE  m \in Word(Rotl(x, k, 32), lane) <=> m \in Rotl(Word(x, lane), k, 32)
  <2> DEFINE n == 32 * lane + m
  <2> DEFINE from == Source(m, k, 32)
  <2>1. n \in Int /\ from \in Int
    BY DEF Source
  <2>2. m \in Word(Rotl(x, k, 32), lane) <=> m \in 0 .. 31 /\ Source(n, k, 32) \in x
    <3>1. m \in Word(Rotl(x, k, 32), lane) <=> m \in 0 .. 31 /\ n \in Rotl(x, k, 32)
      BY <1>1, WordBit
    <3>2. n \in Rotl(x, k, 32) <=> Source(n, k, 32) \in x
      BY <1>1, <2>1, RotlBit
    <3> QED
      BY <3>1, <3>2
  <2>3. m \in Rotl(Word(x, lane), k, 32) <=> from \in 0 .. 31 /\ 32 * lane + from \in x
    <3>1. m \in Rotl(Word(x, lane), k, 32) <=> from \in Word(x, lane)
      BY <1>1, RotlBit
    <3> QED
      BY <2>1, <3>1, WordBit
  <2>4. from \in 0 .. 31 <=> m \in 0 .. 31
    <3>1. /\ 32 \in Nat \ {0} /\ m \div 32 \in Int
          /\ m = 32 * (m \div 32) + (m % 32) /\ m % 32 \in 0 .. 31
      BY DivMod, ModRange
    <3>2. CASE m % 32 >= k
      <4>1. from = m - k
        BY <3>2, Zenon DEF Source
      <4> HIDE DEF from
      <4> QED
        BY <3>1, <3>2, <4>1
    <3>3. CASE ~(m % 32 >= k)
      <4>1. from = m + 32 - k
        BY <3>3, Zenon DEF Source
      <4> HIDE DEF from
      <4> QED
        BY <3>1, <3>3, <4>1
    <3> QED
      BY <3>2, <3>3
  <2>5. m \in 0 .. 31 => Source(n, k, 32) = 32 * lane + from
    BY DEF Source
  <2> QED
    BY <2>2, <2>3, <2>4, <2>5
<1> QED
  BY <1>2, <1>3

(* ... a shift of all lanes shifts ... *)
LEMMA WordShiftLeft ==
  ASSUME NEW x \in SUBSET Int, NEW lane \in Int, NEW k \in 1 .. 31
  PROVE  Word(ShiftLeft(x, k, 32), lane) = ShiftLeft(Word(x, lane), k, 32)
<1>1. /\ 32 \in Nat \ {0} /\ k \in 1 .. 32 - 1
      /\ ShiftLeft(x, k, 32) \in SUBSET Int /\ Word(x, lane) \in SUBSET Int
  BY ShiftsAreBits, WordIsBits
<1>2. /\ Word(ShiftLeft(x, k, 32), lane) \in SUBSET Int
      /\ ShiftLeft(Word(x, lane), k, 32) \in SUBSET Int
  BY <1>1, ShiftsAreBits, WordIsBits
<1>3. ASSUME NEW m \in Int
      PROVE  m \in Word(ShiftLeft(x, k, 32), lane) <=> m \in ShiftLeft(Word(x, lane), k, 32)
  <2> DEFINE n == 32 * lane + m
  <2>1. n \in Int /\ m - k \in Int /\ n - k = 32 * lane + (m - k)
    OBVIOUS
  <2>2. m \in Word(ShiftLeft(x, k, 32), lane) <=> m \in 0 .. 31 /\ n % 32 >= k /\ n - k \in x
    <3>1. m \in Word(ShiftLeft(x, k, 32), lane) <=> m \in 0 .. 31 /\ n \in ShiftLeft(x, k, 32)
      BY <1>1, WordBit
    <3>2. n \in ShiftLeft(x, k, 32) <=> n % 32 >= k /\ n - k \in x
      BY <1>1, <2>1, ShiftLeftBit
    <3> QED
      BY <3>1, <3>2
  <2>3. m \in ShiftLeft(Word(x, lane), k, 32) <=> m % 32 >= k /\ m - k \in 0 .. 31 /\ n - k \in x
    <3>1. m \in ShiftLeft(Word(x, lane), k, 32) <=> m % 32 >= k /\ m - k \in Word(x, lane)
      BY <1>1, ShiftLeftBit
    <3> QED
      BY <2>1, <3>1, WordBit
  <2>4. m \in 0 .. 31 /\ n % 32 >= k <=> m % 32 >= k /\ m - k \in 0 .. 31
    OBVIOUS
  <2> QED
    BY <2>2, <2>3, <2>4
<1> QED
  BY <1>2, <1>3

(* ... and an xor of registers xors. *)
LEMMA WordSymDiff ==
  ASSUME NEW x \in SUBSET Int, NEW y \in SUBSET Int, NEW lane \in Int
  PROVE  Word(SymDiff(x, y), lane) = SymDiff(Word(x, lane), Word(y, lane))
<1>1. SymDiff(x, y) \in SUBSET Int
  BY DEF SymDiff
<1>2. /\ Word(SymDiff(x, y), lane) \in SUBSET Int
      /\ Word(x, lane) \in SUBSET Int /\ Word(y, lane) \in SUBSET Int
  BY <1>1, WordIsBits
<1>3. SymDiff(Word(x, lane), Word(y, lane)) \in SUBSET Int
  BY <1>2 DEF SymDiff
<1>4. ASSUME NEW m \in Int
      PROVE  m \in Word(SymDiff(x, y), lane) <=> m \in SymDiff(Word(x, lane), Word(y, lane))
  <2>1. m \in Word(SymDiff(x, y), lane) <=> m \in 0 .. 31 /\ 32 * lane + m \in SymDiff(x, y)
    BY <1>1, WordBit
  <2>2. /\ m \in Word(x, lane) <=> m \in 0 .. 31 /\ 32 * lane + m \in x
        /\ m \in Word(y, lane) <=> m \in 0 .. 31 /\ 32 * lane + m \in y
    BY WordBit
  <2> QED
    BY <2>1, <2>2 DEF SymDiff
<1> QED
  BY <1>2, <1>3, <1>4

(* A lane of advance() without weaving is next_u32() of its words. *)
LEMMA WordAdvanced ==
  ASSUME NEW a \in SUBSET Int, NEW b \in SUBSET Int, NEW lane \in Int
  PROVE  LET after == Advanced(a, b, 32) IN
         NextU32(<<Word(a, lane), Word(b, lane)>>) = <<Word(after[1], lane), Word(after[2], lane)>>
<1> DEFINE b1 == SymDiff(a, b)
<1> DEFINE a2 == SymDiff(Rotl(a, 26, 32), b1)
<1> DEFINE shifted == ShiftLeft(b1, 9, 32)
<1> DEFINE a1 == SymDiff(a2, shifted)
<1> DEFINE b2 == Rotl(b1, 13, 32)
<1> DEFINE u == Word(a, lane)
<1> DEFINE v == Word(b, lane)
<1> DEFINE s1 == SymDiff(u, v)
<1>1. /\ 32 \in Nat \ {0} /\ 26 \in 1 .. 32 - 1 /\ 13 \in 1 .. 32 - 1 /\ 9 \in 1 .. 32 - 1
      /\ 26 \in 1 .. 31 /\ 13 \in 1 .. 31 /\ 9 \in 1 .. 31
  OBVIOUS
<1>2. \A x, y \in SUBSET Int : SymDiff(x, y) \in SUBSET Int
  BY DEF SymDiff
<1>3. b1 \in SUBSET Int /\ Word(b1, lane) = s1
  BY <1>2, WordSymDiff
<1> HIDE DEF b1, s1
<1>4. Rotl(a, 26, 32) \in SUBSET Int /\ Word(Rotl(a, 26, 32), lane) = Rotl(u, 26, 32)
  BY <1>1, ShiftsAreBits, WordRotl
<1>5. a2 \in SUBSET Int /\ Word(a2, lane) = SymDiff(Rotl(u, 26, 32), s1)
  BY <1>2, <1>3, <1>4, WordSymDiff
<1>6. shifted \in SUBSET Int /\ Word(shifted, lane) = ShiftLeft(s1, 9, 32)
  BY <1>1, <1>3, ShiftsAreBits, WordShiftLeft
<1> HIDE DEF a2, shifted
<1>7. Word(a1, lane) = SymDiff(SymDiff(Rotl(u, 26, 32), s1), ShiftLeft(s1, 9, 32))
  BY <1>5, <1>6, WordSymDiff
<1>8. Word(b2, lane) = Rotl(s1, 13, 32)
  BY <1>1, <1>3, WordRotl
<1>9. NextU32(<<u, v>>)
        = <<SymDiff(SymDiff(Rotl(u, 26, 32), s1), ShiftLeft(s1, 9, 32)), Rotl(s1, 13, 32)>>
  <2>1. <<u, v>>[1] = u /\ <<u, v>>[2] = v
    OBVIOUS
  <2> HIDE DEF u, v
  <2> QED
    BY <2>1, Zenon DEF NextU32, s1
<1>10. Advanced(a, b, 32) = <<a1, b2>>
  BY Zenon DEF Advanced, b1, a2, shifted
<1> HIDE DEF a1, b2, u, v
<1>11. Advanced(a, b, 32)[1] = a1 /\ Advanced(a, b, 32)[2] = b2
  BY <1>10
<1>12. NextU32(<<u, v>>) = <<Word(a1, lane), Word(b2, lane)>>
  BY <1>7, <1>8, <1>9, Zenon
<1> QED
  BY <1>11, <1>12, Zenon DEF u, v

(* The nine bits above the fraction are those of a one. *)
LEMMA FloatOfWord ==
  ASSUME NEW x \in SUBSET Int, NEW lane \in Int
  PROVE  FloatBits(Word(x, lane)) \cap 23 .. 31 = 23 .. 29
<1> DEFINE fraction == ShiftRight(Word(x, lane), 9, 32)
<1>1. \A b \in Word(x, lane) : b \in 0 .. 31
  BY WordIsBits, WordBit
<1>2. \A n \in fraction : n \in 0 .. 22
  BY <1>1 DEF ShiftRight
<1> HIDE DEF fraction
<1>3. SymDiff(fraction, 23 .. 29) \cap 23 .. 31 = 23 .. 29
  BY <1>2 DEF SymDiff
<1> QED
  BY <1>3 DEF FloatBits, fraction

-----------------------------------------------------------------------------
(* The registers hold bits, and each scalar generator its lane's words.        *)
AdvanceInv ==
  /\ instructions \in {"", "NONE", "AVX128", "AVX256", "AVX512"} /\ weaving \in BOOLEAN
  /\ a_states \in SUBSET Int /\ b_states \in SUBSET Int
  /\ DOMAIN s \subseteq Int
  /\ LanesMatchScalar

(* There is no generator at first. *)
LEMMA AdvanceStarts == AdvanceInit => AdvanceInv
<1> SUFFICES ASSUME AdvanceInit PROVE AdvanceInv
  OBVIOUS
<1>1. instructions = "" /\ weaving = TRUE /\ a_states = {} /\ b_states = {} /\ s = <<>>
  BY DEF AdvanceInit
<1>2. DOMAIN s = {}
  <2>1. DOMAIN <<>> = {}
    OBVIOUS
  <2> QED
    BY <1>1, <2>1, Zenon
<1>3. LanesMatchScalar
  BY <1>2, Zenon DEF LanesMatchScalar
<1> QED
  BY <1>1, <1>2, <1>3 DEF AdvanceInv

(* The scalar generators are given the words of the lanes. *)
LEMMA ConstructKeepsLanes ==
  ASSUME Construct
  PROVE  AdvanceInv'
<1>1. PICK seed \in Seeded(instructions') :
        /\ instructions' \in InstructionSet /\ weaving' \in BOOLEAN
        /\ a_states' = seed[1] /\ b_states' = seed[2]
        /\ s' = [lane \in LanesOf(instructions') |-> <<Word(seed[1], lane), Word(seed[2], lane)>>]
  BY DEF Construct
<1>2. /\ instructions' \in {"NONE", "AVX128", "AVX256", "AVX512"}
      /\ seed[1] \subseteq 0 .. Bits(instructions') - 1
      /\ seed[2] \subseteq 0 .. Bits(instructions') - 1
  BY <1>1, AdvanceAssumption
<1>3. Bits(instructions') \in {32, 128, 256, 512}
  BY <1>2 DEF Bits
<1>4. LanesOf(instructions') \subseteq Int
  BY <1>3 DEF LanesOf
<1>5. a_states' \in SUBSET Int /\ b_states' \in SUBSET Int
  BY <1>1, <1>2, <1>3
<1>6. DOMAIN s' = LanesOf(instructions')
  BY <1>1
<1>7. \A lane \in DOMAIN s' : s'[lane] = <<Word(a_states', lane), Word(b_states', lane)>>
  BY <1>1, <1>6
<1> QED
  BY <1>1, <1>2, <1>4, <1>5, <1>6, <1>7 DEF AdvanceInv, LanesMatchScalar

(* A step of the registers is one of every scalar generator. *)
LEMMA AdvanceKeepsLanes ==
  ASSUME AdvanceInv, Advance
  PROVE  AdvanceInv'
<1> DEFINE after == Advanced(a_states, b_states, LaneBits)
<1>1. /\ instructions \in {"NONE", "AVX128", "AVX256", "AVX512"}
      /\ instructions' = instructions /\ weaving' = weaving /\ weaving \in BOOLEAN
      /\ a_states' = after[1] /\ b_states' = after[2]
      /\ s' = [lane \in DOMAIN s |-> NextU32(s[lane])]
      /\ a_states \in SUBSET Int /\ b_states \in SUBSET Int /\ DOMAIN s \subseteq Int
  BY DEF Advance, AdvanceInv
<1>2. LaneBits \in {32, 64} /\ (LaneBits = 64 => weaving /\ instructions # "NONE")
  BY <1>1 DEF LaneBits, Epi64
<1>3. a_states' \in SUBSET Int /\ b_states' \in SUBSET Int
  <2> DEFINE w == LaneBits
  <2> DEFINE b1 == SymDiff(a_states, b_states)
  <2>1. w \in Nat \ {0} /\ 26 \in 1 .. w - 1 /\ 9 \in 1 .. w - 1 /\ 13 \in 1 .. w - 1
    BY <1>2
  <2> HIDE DEF w
  <2>2. \A x, y \in SUBSET Int : SymDiff(x, y) \in SUBSET Int
    BY DEF SymDiff
  <2>3. b1 \in SUBSET Int
    BY <1>1, <2>2
  <2> HIDE DEF b1
  <2>4. /\ Rotl(a_states, 26, w) \in SUBSET Int /\ ShiftLeft(b1, 9, w) \in SUBSET Int
        /\ Rotl(b1, 13, w) \in SUBSET Int
    BY <1>1, <2>1, <2>3, ShiftsAreBits
  <2>5. after = <<SymDiff(SymDiff(Rotl(a_states, 26, w), b1), ShiftLeft(b1, 9, w)),
                  Rotl(b1, 13, w)>>
    BY Zenon DEF Advanced, w, b1
  <2> HIDE DEF after
  <2>6. /\ after[1] = SymDiff(SymDiff(Rotl(a_states, 26, w), b1), ShiftLeft(b1, 9, w))
        /\ after[2] = Rotl(b1, 13, w)
    BY <2>5
  <2>7. SymDiff(Rotl(a_states, 26, w), b1) \in SUBSET Int
    BY <2>2, <2>3, <2>4
  <2>8. SymDiff(SymDiff(Rotl(a_states, 26, w), b1), ShiftLeft(b1, 9, w)) \in SUBSET Int
    BY <2>2, <2>4, <2>7
  <2> QED
    BY <1>1, <2>4, <2>6, <2>8, Zenon
<1>4. LanesMatchScalar'
  <2>1. CASE LaneBits = 64
    BY <1>1, <1>2, <2>1 DEF LanesMatchScalar
  <2>2. CASE LaneBits = 32 /\ weaving /\ instructions # "NONE"
    BY <1>1, <2>2 DEF LanesMatchScalar
  <2>3. CASE LaneBits = 32 /\ ~(weaving /\ instructions # "NONE")
    <3>1. \A lane \in DOMAIN s : s[lane] = <<Word(a_states, lane), Word(b_states, lane)>>
      BY <2>3 DEF AdvanceInv, LanesMatchScalar
    <3>2. ASSUME NEW lane \in DOMAIN s
          PROVE  s'[lane] = <<Word(a_states', lane), Word(b_states', lane)>>
      <4>1. s'[lane] = NextU32(s[lane])
        BY <1>1
      <4>2. after = Advanced(a_states, b_states, 32) /\ lane \in Int
        BY <1>1, <2>3
      <4>a. a_states \in SUBSET Int /\ b_states \in SUBSET Int
        BY <1>1
      <4> DEFINE g == Advanced(a_states, b_states, 32)
      <4>b. NextU32(<<Word(a_states, lane), Word(b_states, lane)>>)
              = <<Word(g[1], lane), Word(g[2], lane)>>
        BY <4>a, <4>2, WordAdvanced, ZenonT(30)
      <4>3. NextU32(<<Word(a_states, lane), Word(b_states, lane)>>)
              = <<Word(after[1], lane), Word(after[2], lane)>>
        <5> HIDE DEF after
        <5> QED
          BY <4>b, <4>2, Zenon
      <4> QED
        BY <1>1, <3>1, <4>1, <4>3, Zenon
    <3>3. DOMAIN s' = DOMAIN s
      BY <1>1
    <3> QED
      BY <3>2, <3>3 DEF LanesMatchScalar
  <2> QED
    BY <1>2, <2>1, <2>2, <2>3
<1>5. DOMAIN s' \subseteq Int
  BY <1>1
<1> QED
  BY <1>1, <1>3, <1>4, <1>5 DEF AdvanceInv

(* So every step keeps the invariant ... *)
LEMMA AdvanceStep ==
  ASSUME AdvanceInv, [AdvanceNext]_advanceVars
  PROVE  AdvanceInv'
<1>1. CASE UNCHANGED advanceVars
  <2>1. /\ instructions' = instructions /\ weaving' = weaving /\ s' = s
        /\ a_states' = a_states /\ b_states' = b_states
    BY <1>1 DEF advanceVars
  <2>2. LanesMatchScalar'
    BY <2>1, Zenon DEF AdvanceInv, LanesMatchScalar
  <2> QED
    BY <2>1, <2>2 DEF AdvanceInv
<1> QED
  BY <1>1, ConstructKeepsLanes, AdvanceKeepsLanes DEF AdvanceNext

(* ... which implies the properties of the numbers ... *)
LEMMA AdvanceInvSound == AdvanceInv => NumbersSound
<1> SUFFICES ASSUME AdvanceInv PROVE NumbersSound
  OBVIOUS
<1>1. \A lane \in DOMAIN s : FloatBits(Word(a_states, lane)) \cap 23 .. 31 = 23 .. 29
  BY FloatOfWord DEF AdvanceInv
<1> QED
  BY <1>1 DEF NumbersSound, AdvanceInv

(* ... and that a step can be taken back. *)
LEMMA AdvanceUndone ==
  ASSUME AdvanceInv, Advance
  PROVE  <<a_states, b_states>> = Before(a_states', b_states', LaneBits)
<1>1. LaneBits \in Nat /\ LaneBits > 26
  BY DEF LaneBits, Epi64
<1>2. /\ a_states \in SUBSET Int /\ b_states \in SUBSET Int
      /\ a_states' = Advanced(a_states, b_states, LaneBits)[1]
      /\ b_states' = Advanced(a_states, b_states, LaneBits)[2]
  BY DEF AdvanceInv, Advance
<1> QED
  BY <1>1, <1>2, AdvancedBack

(***************************************************************************)
(* Whatever the words a constructor makes, the generator's lanes are the       *)
(* scalar generators of the same words after any number of advances, for all   *)
(* four instruction sets, where lanes are not woven; and float_convert makes   *)
(* a float in [1, 2) of each number.                                         *)
(***************************************************************************)
THEOREM LanesAreScalar == AdvanceSpec => []NumbersSound
<1>1. AdvanceInv /\ [AdvanceNext]_advanceVars => AdvanceInv'
  BY AdvanceStep
<1> QED
  BY <1>1, AdvanceStarts, AdvanceInvSound, PTL DEF AdvanceSpec

(***************************************************************************)
(* advance() can be undone from every state, with every instruction set and   *)
(* weaving: it never takes two states to one.                                *)
(***************************************************************************)
THEOREM NoStateLost == AdvanceSpec => AdvanceReversible
<1>1. AdvanceInv /\ [AdvanceNext]_advanceVars => AdvanceInv'
  BY AdvanceStep
<1>2. AdvanceInv /\ [AdvanceNext]_advanceVars
        => [Advance => <<a_states, b_states>> = Before(a_states', b_states', LaneBits)]_advanceVars
  BY AdvanceUndone
<1> QED
  BY <1>1, <1>2, AdvanceStarts, PTL DEF AdvanceSpec, AdvanceReversible

-----------------------------------------------------------------------------
(***************************************************************************)
(* All the states of Xoroshiro128plus, and the xor of two.                    *)
(***************************************************************************)
AllStates == (SUBSET (0 .. 63)) \X (SUBSET (0 .. 63))
Xor(u, v) == <<SymDiff(u[1], v[1]), SymDiff(u[2], v[2])>>

(* A map from states to states that commutes with xor.                        *)
Linear(f) ==
  /\ f \in [AllStates -> AllStates]
  /\ \A u, v \in AllStates : f[Xor(u, v)] = Xor(f[u], f[v])

(* The linear map leap takes the state u to f[u].                             *)
Leaps(f, u) == Flat(f[u]) = Image(leap, Flat(u))

(* jump() is linear all along.                                               *)
JumpInv == Linear(state) /\ Linear(local)

(* A shift or a rotation of an xor is the xor of those of the words.           *)
LEMMA ShiftsOfXor ==
  ASSUME NEW w \in Nat \ {0}, NEW k \in 1 .. w - 1, NEW x \in SUBSET Int, NEW y \in SUBSET Int
  PROVE  /\ ShiftLeft(SymDiff(x, y), k, w) = SymDiff(ShiftLeft(x, k, w), ShiftLeft(y, k, w))
         /\ Rotl(SymDiff(x, y), k, w) = SymDiff(Rotl(x, k, w), Rotl(y, k, w))
<1> DEFINE z == SymDiff(x, y)
<1>1. z \in SUBSET Int /\ \A n : n \in z <=> (n \in x /\ n \notin y) \/ (n \in y /\ n \notin x)
  BY DEF SymDiff
<1>2. /\ ShiftLeft(x, k, w) \in SUBSET Int /\ ShiftLeft(y, k, w) \in SUBSET Int
      /\ ShiftLeft(z, k, w) \in SUBSET Int
      /\ Rotl(x, k, w) \in SUBSET Int /\ Rotl(y, k, w) \in SUBSET Int
      /\ Rotl(z, k, w) \in SUBSET Int
  BY <1>1, ShiftsAreBits
<1> HIDE DEF z
<1>3. ASSUME NEW n \in Int
      PROVE  /\ n \in ShiftLeft(z, k, w) <=> n \in SymDiff(ShiftLeft(x, k, w), ShiftLeft(y, k, w))
             /\ n \in Rotl(z, k, w) <=> n \in SymDiff(Rotl(x, k, w), Rotl(y, k, w))
  <2>1. /\ n \in ShiftLeft(x, k, w) <=> n % w >= k /\ n - k \in x
        /\ n \in ShiftLeft(y, k, w) <=> n % w >= k /\ n - k \in y
        /\ n \in ShiftLeft(z, k, w) <=> n % w >= k /\ n - k \in z
    BY <1>1, ShiftLeftBit
  <2>2. /\ n \in Rotl(x, k, w) <=> Source(n, k, w) \in x
        /\ n \in Rotl(y, k, w) <=> Source(n, k, w) \in y
        /\ n \in Rotl(z, k, w) <=> Source(n, k, w) \in z
    BY <1>1, RotlBit
  <2> QED
    BY <1>1, <2>1, <2>2 DEF SymDiff
<1>4. /\ SymDiff(ShiftLeft(x, k, w), ShiftLeft(y, k, w)) \in SUBSET Int
      /\ SymDiff(Rotl(x, k, w), Rotl(y, k, w)) \in SUBSET Int
  BY <1>2 DEF SymDiff
<1>5. /\ ShiftLeft(z, k, w) = SymDiff(ShiftLeft(x, k, w), ShiftLeft(y, k, w))
      /\ Rotl(z, k, w) = SymDiff(Rotl(x, k, w), Rotl(y, k, w))
  BY <1>2, <1>3, <1>4
<1> QED
  BY <1>5 DEF z

(* A word stays a word.                                                      *)
LEMMA ShiftsOfWord ==
  ASSUME NEW k \in 1 .. 63, NEW x \in SUBSET (0 .. 63)
  PROVE  ShiftLeft(x, k, 64) \in SUBSET (0 .. 63) /\ Rotl(x, k, 64) \in SUBSET (0 .. 63)
<1>1. ShiftLeft(x, k, 64) \in SUBSET (0 .. 63)
  BY DEF ShiftLeft
<1>2. ShiftRight(x, 64 - k, 64) \in SUBSET (0 .. 63)
  BY DEF ShiftRight
<1> QED
  BY <1>1, <1>2 DEF Rotl

(* Of xors: they commute, and those of words are words.                       *)
LEMMA XorsOfWords ==
  ASSUME NEW x \in SUBSET (0 .. 63), NEW y \in SUBSET (0 .. 63)
  PROVE  SymDiff(x, y) \in SUBSET (0 .. 63)
BY DEF SymDiff

LEMMA XorFour ==
  ASSUME NEW a, NEW b, NEW c, NEW d
  PROVE  SymDiff(SymDiff(a, b), SymDiff(c, d)) = SymDiff(SymDiff(a, c), SymDiff(b, d))
BY DEF SymDiff

LEMMA XorState ==
  ASSUME NEW u \in AllStates, NEW v \in AllStates
  PROVE  /\ Xor(u, v) \in AllStates
         /\ u[1] \in SUBSET (0 .. 63) /\ u[2] \in SUBSET (0 .. 63) /\ u = <<u[1], u[2]>>
         /\ Xor(u, v)[1] = SymDiff(u[1], v[1]) /\ Xor(u, v)[2] = SymDiff(u[2], v[2])
BY XorsOfWords DEF Xor, AllStates

(* A number drawn from the xor of two states.                                 *)
LEMMA RandomOfXor ==
  ASSUME NEW u \in AllStates, NEW v \in AllStates
  PROVE  /\ RandomUint(u) \in AllStates
         /\ RandomUint(Xor(u, v)) = Xor(RandomUint(u), RandomUint(v))
<1>1. \A t \in AllStates : t[1] \in SUBSET (0 .. 63) /\ t[2] \in SUBSET (0 .. 63)
  BY DEF AllStates
<1>2. \A x \in SUBSET (0 .. 63) : x \in SUBSET Int
  OBVIOUS
<1> DEFINE Low(t) == SymDiff(SymDiff(Rotl(t[1], 24, 64), SymDiff(t[1], t[2])),
                             ShiftLeft(SymDiff(t[1], t[2]), 16, 64))
<1> DEFINE High(t) == Rotl(SymDiff(t[1], t[2]), 37, 64)
<1>3. \A t : RandomUint(t) = <<Low(t), High(t)>>
  BY DEF RandomUint
<1>4. ASSUME NEW t \in AllStates
      PROVE  Low(t) \in SUBSET (0 .. 63) /\ High(t) \in SUBSET (0 .. 63)
  <2>1. SymDiff(t[1], t[2]) \in SUBSET (0 .. 63)
    BY <1>1, XorsOfWords
  <2>2. /\ Rotl(t[1], 24, 64) \in SUBSET (0 .. 63) /\ High(t) \in SUBSET (0 .. 63)
        /\ ShiftLeft(SymDiff(t[1], t[2]), 16, 64) \in SUBSET (0 .. 63)
    BY <1>1, <2>1, ShiftsOfWord
  <2>3. SymDiff(Rotl(t[1], 24, 64), SymDiff(t[1], t[2])) \in SUBSET (0 .. 63)
    BY <2>1, <2>2, XorsOfWords
  <2> QED
    BY <2>2, <2>3, XorsOfWords
<1> DEFINE a == u[1]
<1> DEFINE b == u[2]
<1> DEFINE c == v[1]
<1> DEFINE d == v[2]
<1> DEFINE z == Xor(u, v)
<1>5. z[1] = SymDiff(a, c) /\ z[2] = SymDiff(b, d)
  BY XorState
<1>6. /\ a \in SUBSET Int /\ b \in SUBSET Int /\ c \in SUBSET Int /\ d \in SUBSET Int
      /\ SymDiff(a, b) \in SUBSET Int /\ SymDiff(c, d) \in SUBSET Int
  BY <1>1, <1>2, XorsOfWords
<1> HIDE DEF a, b, c, d, z
<1>7. SymDiff(z[1], z[2]) = SymDiff(SymDiff(a, b), SymDiff(c, d))
  BY <1>5, XorFour
<1>8. /\ Rotl(z[1], 24, 64) = SymDiff(Rotl(a, 24, 64), Rotl(c, 24, 64))
      /\ ShiftLeft(SymDiff(z[1], z[2]), 16, 64)
           = SymDiff(ShiftLeft(SymDiff(a, b), 16, 64), ShiftLeft(SymDiff(c, d), 16, 64))
      /\ Rotl(SymDiff(z[1], z[2]), 37, 64)
           = SymDiff(Rotl(SymDiff(a, b), 37, 64), Rotl(SymDiff(c, d), 37, 64))
  BY <1>5, <1>6, <1>7, ShiftsOfXor
<1>9. SymDiff(Rotl(z[1], 24, 64), SymDiff(z[1], z[2]))
        = SymDiff(SymDiff(Rotl(a, 24, 64), SymDiff(a, b)), SymDiff(Rotl(c, 24, 64), SymDiff(c, d)))
  BY <1>7, <1>8, XorFour
<1>10. Low(z) = SymDiff(Low(u), Low(v)) /\ High(z) = SymDiff(High(u), High(v))
  BY <1>8, <1>9, XorFour DEF a, b, c, d
<1>11. RandomUint(z) = <<SymDiff(Low(u), Low(v)), SymDiff(High(u), High(v))>>
  BY <1>3, <1>10
<1>12. RandomUint(u) = <<Low(u), High(u)>> /\ RandomUint(v) = <<Low(v), High(v)>>
  BY <1>3
<1>13. RandomUint(u) \in AllStates
  BY <1>4, <1>12 DEF AllStates
<1> QED
  BY <1>11, <1>12, <1>13 DEF Xor, z

-----------------------------------------------------------------------------
(* A linear map, and the one that xors two.                                   *)
LEMMA LinearDrawn ==
  ASSUME NEW f, Linear(f)
  PROVE  Linear([u \in AllStates |-> RandomUint(f[u])])
<1>1. \A u \in AllStates : f[u] \in AllStates
  BY DEF Linear
<1>2. \A u \in AllStates : RandomUint(f[u]) \in AllStates
  BY <1>1, RandomOfXor
<1>3. ASSUME NEW u \in AllStates, NEW v \in AllStates
      PROVE  RandomUint(f[Xor(u, v)]) = Xor(RandomUint(f[u]), RandomUint(f[v]))
  <2>1. f[Xor(u, v)] = Xor(f[u], f[v])
    BY DEF Linear
  <2> QED
    BY <1>1, <2>1, RandomOfXor
<1>4. \A u, v \in AllStates : Xor(u, v) \in AllStates
  BY XorState
<1> QED
  BY <1>2, <1>3, <1>4 DEF Linear

LEMMA LinearXor ==
  ASSUME NEW f, NEW g, Linear(f), Linear(g)
  PROVE  Linear([u \in AllStates |-> Xor(f[u], g[u])])
<1>1. \A u \in AllStates : f[u] \in AllStates /\ g[u] \in AllStates
  BY DEF Linear
<1>2. \A u \in AllStates : Xor(f[u], g[u]) \in AllStates
  BY <1>1, XorState
<1>3. \A p, q, r, t : Xor(Xor(p, q), Xor(r, t)) = Xor(Xor(p, r), Xor(q, t))
  BY XorFour DEF Xor
<1>4. ASSUME NEW u \in AllStates, NEW v \in AllStates
      PROVE  Xor(f[Xor(u, v)], g[Xor(u, v)]) = Xor(Xor(f[u], g[u]), Xor(f[v], g[v]))
  <2>1. f[Xor(u, v)] = Xor(f[u], f[v]) /\ g[Xor(u, v)] = Xor(g[u], g[v])
    BY DEF Linear
  <2> QED
    BY <1>3, <2>1
<1>5. \A u, v \in AllStates : Xor(u, v) \in AllStates
  BY XorState
<1> QED
  BY <1>2, <1>4, <1>5 DEF Linear

-----------------------------------------------------------------------------
(* jump() stays linear.                                                      *)
LEMMA JumpInvInit ==
  ASSUME Start = AllStates, JumpInit
  PROVE  JumpInv
<1>1. \A u, v \in AllStates : Xor(u, v) \in AllStates
  BY XorState
<1>2. <<{}, {}>> \in AllStates /\ Xor(<<{}, {}>>, <<{}, {}>>) = <<{}, {}>>
  BY DEF AllStates, Xor, SymDiff
<1>3. state = [u \in AllStates |-> u] /\ local = [u \in AllStates |-> <<{}, {}>>]
  BY DEF JumpInit
<1> QED
  BY <1>1, <1>2, <1>3 DEF JumpInv, Linear

LEMMA JumpInvNext ==
  ASSUME Start = AllStates, JumpInv, [JumpNext]_jumpVars
  PROVE  JumpInv'
<1>1. CASE JumpBit
  <2>1. state' = [u \in AllStates |-> RandomUint(state[u])]
    BY <1>1 DEF JumpBit
  <2>2. Linear(state')
    BY <2>1, LinearDrawn DEF JumpInv
  <2>3. CASE (bit_idx % 64) \in JUMP[(bit_idx \div 64) + 1]
    <3>1. local' = [u \in AllStates |-> Xor(local[u], state[u])]
      BY <1>1, <2>3 DEF JumpBit, Xor
    <3>2. Linear(local')
      BY <3>1, LinearXor DEF JumpInv
    <3> QED
      BY <2>2, <3>2 DEF JumpInv, Linear
  <2>4. CASE ~((bit_idx % 64) \in JUMP[(bit_idx \div 64) + 1])
    <3>1. local' = local
      BY <1>1, <2>4 DEF JumpBit
    <3> QED
      BY <2>2, <3>1 DEF JumpInv, Linear
  <2> QED
    BY <2>3, <2>4
<1>2. CASE JumpEnd
  BY <1>2 DEF JumpEnd, JumpInv, Linear
<1>3. CASE Double
  BY <1>3 DEF Double, JumpInv, Linear
<1>4. CASE UNCHANGED jumpVars
  BY <1>4 DEF jumpVars, JumpInv, Linear
<1> QED
  BY <1>1, <1>2, <1>3, <1>4 DEF JumpNext

-----------------------------------------------------------------------------
(* The parity of the size of an xor.                                          *)
LEMMA XorParity ==
  ASSUME NEW A, NEW B, IsFiniteSet(A), IsFiniteSet(B)
  PROVE  /\ Cardinality(A) \in Nat /\ Cardinality(B) \in Nat
         /\ Cardinality(SymDiff(A, B)) \in Nat
         /\ Cardinality(SymDiff(A, B)) % 2 = (Cardinality(A) + Cardinality(B)) % 2
<1> DEFINE both == A \cap B
<1> DEFINE C == A \ B
<1> DEFINE D == B \ A
<1>1. /\ IsFiniteSet(both) /\ IsFiniteSet(C) /\ IsFiniteSet(D)
      /\ Cardinality(C) = Cardinality(A) - Cardinality(both)
      /\ Cardinality(D) = Cardinality(B) - Cardinality(both)
  <2>1. B \cap A = both
    OBVIOUS
  <2>2. IsFiniteSet(both)
    BY FS_Intersection
  <2>3. IsFiniteSet(C) /\ Cardinality(C) = Cardinality(A) - Cardinality(both)
    BY FS_Difference
  <2>4. IsFiniteSet(D) /\ Cardinality(D) = Cardinality(B) - Cardinality(both)
    BY <2>1, FS_Difference
  <2> QED
    BY <2>2, <2>3, <2>4
<1>2. /\ SymDiff(A, B) = C \cup D /\ C \cap D = {}
      /\ IsFiniteSet(C \cup D)
      /\ Cardinality(C \cup D) = Cardinality(C) + Cardinality(D) - Cardinality(C \cap D)
  BY <1>1, FS_Union DEF SymDiff
<1>3. Cardinality({}) = 0
  BY FS_EmptySet
<1>4. /\ Cardinality(A) \in Nat /\ Cardinality(B) \in Nat /\ Cardinality(both) \in Nat
      /\ Cardinality(C \cup D) \in Nat
  BY <1>1, <1>2, FS_CardinalityType
<1> DEFINE a == Cardinality(A)
<1> DEFINE b == Cardinality(B)
<1> DEFINE c == Cardinality(both)
<1> DEFINE x == Cardinality(C \cup D)
<1>5. a \in Nat /\ b \in Nat /\ c \in Nat /\ x = a + b - 2 * c
  <2>1. x = Cardinality(C) + Cardinality(D) - 0
    BY <1>2, <1>3
  <2> QED
    BY <1>1, <1>4, <2>1
<1>6. x % 2 = (a + b) % 2
  <2> HIDE DEF a, b, c, x
  <2> QED
    BY <1>5
<1> QED
  BY <1>2, <1>4, <1>6

(* Image is linear, whatever the columns.                                     *)
LEMMA ImageOfXor ==
  ASSUME NEW m, NEW x \in SUBSET (0 .. 127), NEW y \in SUBSET (0 .. 127)
  PROVE  Image(m, SymDiff(x, y)) = SymDiff(Image(m, x), Image(m, y))
<1> DEFINE From(z, b) == {c \in z : b \in m[c]}
<1>1. ASSUME NEW b
      PROVE  Cardinality(From(SymDiff(x, y), b)) % 2 = 1
               <=> ((Cardinality(From(x, b)) % 2 = 1) # (Cardinality(From(y, b)) % 2 = 1))
  <2>1. From(SymDiff(x, y), b) = SymDiff(From(x, b), From(y, b))
    BY DEF SymDiff
  <2>2. IsFiniteSet(x) /\ IsFiniteSet(y)
    <3>1. IsFiniteSet(0 .. 127)
      <4>1. \A p, q \in Int : IsFiniteSet(p .. q)
        BY FS_Interval
      <4>2. 0 \in Int /\ 127 \in Int
        OBVIOUS
      <4> QED
        BY <4>1, <4>2, Zenon
    <3> QED
      BY <3>1, FS_Subset
  <2>3. IsFiniteSet(From(x, b)) /\ IsFiniteSet(From(y, b))
    BY <2>2, FS_Subset
  <2> DEFINE p == Cardinality(From(x, b))
  <2> DEFINE q == Cardinality(From(y, b))
  <2> DEFINE r == Cardinality(From(SymDiff(x, y), b))
  <2>4. p \in Nat /\ q \in Nat /\ r \in Nat /\ r % 2 = (p + q) % 2
    BY <2>1, <2>3, XorParity
  <2>5. (r % 2 = 1) <=> ((p % 2 = 1) # (q % 2 = 1))
    <3> HIDE DEF p, q, r
    <3> QED
      BY <2>4
  <2> QED
    BY <2>5
<1>2. \A z : Image(m, z) = {b \in 0 .. 127 : Cardinality(From(z, b)) % 2 = 1}
  BY DEF Image
<1> HIDE DEF From
<1> QED
  BY <1>1, <1>2 DEF SymDiff

(* No bit goes nowhere.                                                      *)
LEMMA ImageOfNone ==
  ASSUME NEW m
  PROVE  Image(m, {}) = {}
<1>1. \A b : {c \in {} : b \in m[c]} = {}
  OBVIOUS
<1>2. Cardinality({}) = 0
  BY FS_EmptySet
<1> QED
  BY <1>1, <1>2 DEF Image

(* As a word of 128 bits the xor of two states is that of the words.           *)
LEMMA FlatOfXor ==
  ASSUME NEW u \in AllStates, NEW v \in AllStates
  PROVE  Flat(u) \in SUBSET (0 .. 127) /\ Flat(Xor(u, v)) = SymDiff(Flat(u), Flat(v))
<1>1. /\ u[1] \in SUBSET (0 .. 63) /\ u[2] \in SUBSET (0 .. 63)
      /\ v[1] \in SUBSET (0 .. 63) /\ v[2] \in SUBSET (0 .. 63)
      /\ Xor(u, v)[1] = SymDiff(u[1], v[1]) /\ Xor(u, v)[2] = SymDiff(u[2], v[2])
  BY XorState
<1>2. ASSUME NEW low \in SUBSET (0 .. 63), NEW high \in SUBSET (0 .. 63), NEW n
      PROVE  n \in low \cup {b + 64 : b \in high}
               <=> n \in 0 .. 127 /\ (IF n < 64 THEN n \in low ELSE n - 64 \in high)
  <2>1. ASSUME n \in 0 .. 127, ~(n < 64), n - 64 \in high
        PROVE  n \in {b + 64 : b \in high}
    <3>1. n = (n - 64) + 64
      BY <2>1
    <3> QED
      BY <2>1, <3>1
  <2>2. ASSUME n \in {b + 64 : b \in high}
        PROVE  n \in 0 .. 127 /\ ~(n < 64) /\ n - 64 \in high
    <3>1. PICK b \in high : n = b + 64
      BY <2>2
    <3>2. b \in 0 .. 63 /\ n - 64 = b
      BY <3>1
    <3> QED
      BY <3>1, <3>2
  <2>3. ASSUME n \in low PROVE n \in 0 .. 127 /\ n < 64
    BY <2>3
  <2> QED
    BY <2>1, <2>2, <2>3
<1>3. SymDiff(u[1], v[1]) \in SUBSET (0 .. 63) /\ SymDiff(u[2], v[2]) \in SUBSET (0 .. 63)
  BY <1>1, XorsOfWords
<1> DEFINE In(n, low, high) == n \in 0 .. 127 /\ (IF n < 64 THEN n \in low ELSE n - 64 \in high)
<1>4. /\ \A n : n \in Flat(u) <=> In(n, u[1], u[2])
      /\ \A n : n \in Flat(v) <=> In(n, v[1], v[2])
      /\ \A n : n \in Flat(Xor(u, v)) <=> In(n, SymDiff(u[1], v[1]), SymDiff(u[2], v[2]))
  <2>1. ASSUME NEW low \in SUBSET (0 .. 63), NEW high \in SUBSET (0 .. 63), NEW t,
               t[1] = low, t[2] = high
        PROVE  \A n : n \in Flat(t) <=> In(n, low, high)
    <3>1. Flat(t) = low \cup {b + 64 : b \in high}
      BY <2>1 DEF Flat
    <3> QED
      BY <1>2, <3>1, Zenon
  <2> HIDE DEF In
  <2> QED
    BY <1>1, <1>3, <2>1, Zenon
<1>5. ASSUME NEW n
      PROVE  In(n, SymDiff(u[1], v[1]), SymDiff(u[2], v[2]))
               <=> \/ In(n, u[1], u[2]) /\ ~In(n, v[1], v[2])
                   \/ In(n, v[1], v[2]) /\ ~In(n, u[1], u[2])
  BY DEF SymDiff
<1>6. Flat(u) \in SUBSET (0 .. 127)
  BY <1>4
<1> DEFINE x == Flat(u)
<1> DEFINE y == Flat(v)
<1> DEFINE z == Flat(Xor(u, v))
<1>7. \A n : n \in z <=> (n \in x /\ n \notin y) \/ (n \in y /\ n \notin x)
  <2> HIDE DEF In
  <2> QED
    BY <1>4, <1>5, Zenon
<1>8. z = SymDiff(x, y)
  <2> HIDE DEF x, y, z
  <2> QED
    BY <1>7 DEF SymDiff
<1> QED
  BY <1>6, <1>8

LEMMA OneElement ==
  ASSUME NEW e, NEW A
  PROVE  {e} \cap A = IF e \in A THEN {e} ELSE {}
OBVIOUS

(* A state with one bit.                                                     *)
LEMMA FlatOfBit ==
  ASSUME NEW b \in 0 .. 127
  PROVE  Pair({b}) \in AllStates /\ Pair({b}) \in SingleBits /\ Flat(Pair({b})) = {b}
<1>0. \A low, high \in SUBSET (0 .. 63) : <<low, high>> \in AllStates
  BY DEF AllStates
<1>1. CASE b < 64
  <2>1. \A n : n \in {b} => n \in 0 .. 63 /\ n \notin 64 .. 127
    BY <1>1
  <2>2. Pair({b}) = <<{b}, {}>>
    <3>1. {b} \cap (0 .. 63) = {b} /\ {b} \cap (64 .. 127) = {}
      <4> DEFINE low == 0 .. 63
      <4> DEFINE high == 64 .. 127
      <4>1. b \in low /\ b \notin high
        BY <2>1
      <4>2. {b} \cap low = {b} /\ {b} \cap high = {}
        <5> HIDE DEF low, high
        <5> QED
          BY <4>1, OneElement
      <4> QED
        BY <4>2
    <3>2. {n - 64 : n \in {}} = {}
      OBVIOUS
    <3> QED
      BY <3>1, <3>2, Zenon DEF Pair
  <2>3. Flat(<<{b}, {}>>) = {b}
    BY DEF Flat
  <2>4. {b} \in SUBSET (0 .. 63) /\ {} \in SUBSET (0 .. 63)
    BY <2>1
  <2> QED
    <3>1. Pair({b}) \in AllStates
      BY <1>0, <2>2, <2>4, Zenon
    <3>2. Pair({b}) \in SingleBits
      BY Zenon DEF SingleBits
    <3> QED
      BY <2>2, <2>3, <3>1, <3>2, Zenon
<1>2. CASE ~(b < 64)
  <2>1. /\ \A n : n \in {b} => n \in 64 .. 127 /\ n \notin 0 .. 63
        /\ b - 64 \in 0 .. 63 /\ (b - 64) + 64 = b
    BY <1>2
  <2>2. Pair({b}) = <<{}, {b - 64}>>
    <3>1. {b} \cap (0 .. 63) = {} /\ {b} \cap (64 .. 127) = {b}
      <4> DEFINE low == 0 .. 63
      <4> DEFINE high == 64 .. 127
      <4>1. b \in high /\ b \notin low
        BY <2>1
      <4>2. {b} \cap low = {} /\ {b} \cap high = {b}
        <5> HIDE DEF low, high
        <5> QED
          BY <4>1, OneElement
      <4> QED
        BY <4>2
    <3>2. {n - 64 : n \in {b}} = {b - 64}
      OBVIOUS
    <3> QED
      BY <3>1, <3>2, Zenon DEF Pair
  <2>3. Flat(<<{}, {b - 64}>>) = {b}
    BY <2>1 DEF Flat
  <2>4. {b - 64} \in SUBSET (0 .. 63) /\ {} \in SUBSET (0 .. 63)
    BY <2>1
  <2> QED
    <3>1. Pair({b}) \in AllStates
      BY <1>0, <2>2, <2>4, Zenon
    <3>2. Pair({b}) \in SingleBits
      BY Zenon DEF SingleBits
    <3> QED
      BY <2>2, <2>3, <3>1, <3>2, Zenon
<1> QED
  BY <1>1, <1>2

-----------------------------------------------------------------------------
(* Two linear maps that agree on the single bits agree, one bit after another. *)
LEMMA LeapsOfXor ==
  ASSUME NEW f, Linear(f), NEW u \in AllStates, NEW v \in AllStates, Leaps(f, u), Leaps(f, v)
  PROVE  Leaps(f, Xor(u, v))
<1>1. f[Xor(u, v)] = Xor(f[u], f[v]) /\ f[u] \in AllStates /\ f[v] \in AllStates
  BY DEF Linear
<1>2. Flat(f[Xor(u, v)]) = SymDiff(Flat(f[u]), Flat(f[v]))
  BY <1>1, FlatOfXor
<1>3. /\ Flat(u) \in SUBSET (0 .. 127) /\ Flat(v) \in SUBSET (0 .. 127)
      /\ Flat(Xor(u, v)) = SymDiff(Flat(u), Flat(v))
  BY FlatOfXor
<1>4. Image(leap, Flat(Xor(u, v))) = SymDiff(Image(leap, Flat(u)), Image(leap, Flat(v)))
  BY <1>3, ImageOfXor
<1> QED
  BY <1>2, <1>4 DEF Leaps

LEMMA LeapsOfNone ==
  ASSUME NEW f, Linear(f), NEW u \in AllStates, Flat(u) = {}
  PROVE  Leaps(f, u)
<1>1. f[u] \in AllStates
  BY DEF Linear
<1>2. SymDiff(Flat(u), Flat(u)) = {} /\ SymDiff(Flat(f[u]), Flat(f[u])) = {}
  BY DEF SymDiff
<1>3. u[1] = {} /\ u[2] = {}
  BY DEF Flat
<1>4. Xor(u, u) = u
  <2>1. u = <<u[1], u[2]>>
    BY XorState
  <2> QED
    BY <1>3, <2>1 DEF Xor, SymDiff
<1>5. f[u] = Xor(f[u], f[u])
  BY <1>4 DEF Linear
<1>6. Flat(f[u]) = {}
  BY <1>1, <1>2, <1>5, FlatOfXor
<1> QED
  BY <1>6, ImageOfNone DEF Leaps

LEMMA LeapsEverywhere ==
  ASSUME NEW f, Linear(f), \A u \in SingleBits : Leaps(f, u)
  PROVE  \A u \in AllStates : Leaps(f, u)
<1> DEFINE T == {n \in Nat : n <= 128 => \A u \in AllStates : Flat(u) \subseteq 0 .. n - 1 => Leaps(f, u)}
<1>1. 0 \in T
  <2>1. 0 .. 0 - 1 = {}
    OBVIOUS
  <2> QED
    BY <2>1, LeapsOfNone
<1>2. ASSUME NEW n \in Nat, n \in T PROVE n + 1 \in T
  <2> SUFFICES ASSUME n + 1 <= 128, NEW u \in AllStates, Flat(u) \subseteq 0 .. (n + 1) - 1
               PROVE  Leaps(f, u)
    OBVIOUS
  <2>1. n \in 0 .. 127 /\ \A v \in AllStates : Flat(v) \subseteq 0 .. n - 1 => Leaps(f, v)
    BY <1>2
  <2>2. CASE n \notin Flat(u)
    <3>1. Flat(u) \subseteq 0 .. n - 1
      BY <2>2
    <3> QED
      BY <2>1, <3>1
  <2>3. CASE n \in Flat(u)
    <3> DEFINE bit == Pair({n})
    <3> DEFINE rest == Xor(u, bit)
    <3>1. bit \in AllStates /\ bit \in SingleBits /\ Flat(bit) = {n}
      BY <2>1, FlatOfBit
    <3> HIDE DEF bit
    <3>2. rest \in AllStates /\ Flat(rest) = SymDiff(Flat(u), {n})
      BY <3>1, XorState, FlatOfXor
    <3>3. Flat(rest) \subseteq 0 .. n - 1
      BY <2>3, <3>2 DEF SymDiff
    <3>4. Leaps(f, rest) /\ Leaps(f, bit)
      BY <2>1, <3>1, <3>2, <3>3
    <3>5. Xor(rest, bit) = u
      <4>1. u = <<u[1], u[2]>>
        BY XorState
      <4>2. /\ rest[1] = SymDiff(u[1], bit[1]) /\ rest[2] = SymDiff(u[2], bit[2])
        BY <3>1, XorState
      <4>3. SymDiff(rest[1], bit[1]) = u[1] /\ SymDiff(rest[2], bit[2]) = u[2]
        BY <4>2, SymDiffBack
      <4> QED
        BY <4>1, <4>3, Zenon DEF Xor
    <3>6. Leaps(f, Xor(rest, bit))
      <4> HIDE DEF rest
      <4> QED
        BY <3>1, <3>2, <3>4, LeapsOfXor
    <3> QED
      BY <3>5, <3>6
  <2> QED
    BY <2>2, <2>3
<1>3. 128 \in T
  <2> HIDE DEF T
  <2>1. Nat \subseteq T
    BY <1>1, <1>2, Induction
  <2> QED
    BY <2>1
<1>4. ASSUME NEW u \in AllStates PROVE Flat(u) \subseteq 0 .. 128 - 1
  <2>1. Flat(u) \in SUBSET (0 .. 127)
    BY FlatOfXor
  <2> QED
    BY <2>1
<1> QED
  BY <1>3, <1>4

(* The behaviour from the states with one bit that one from all contains.      *)
OneBit == INSTANCE Xoroshiro128plus WITH
  Start <- SingleBits,
  state <- [u \in SingleBits |-> state[u]],
  local <- [u \in SingleBits |-> local[u]]

(* Its operators are those of the other.                                     *)
LEMMA SameShifts ==
  ASSUME NEW x, NEW y, NEW k, NEW w
  PROVE  /\ OneBit!SymDiff(x, y) = SymDiff(x, y)
         /\ OneBit!ShiftLeft(x, k, w) = ShiftLeft(x, k, w)
         /\ OneBit!Rotl(x, k, w) = Rotl(x, k, w)
<1>1. OneBit!SymDiff(x, y) = SymDiff(x, y)
  BY DEF SymDiff, OneBit!SymDiff
<1>2. OneBit!ShiftLeft(x, k, w) = ShiftLeft(x, k, w)
  BY DEF ShiftLeft, OneBit!ShiftLeft
<1>3. OneBit!ShiftRight(x, w - k, w) = ShiftRight(x, w - k, w)
  BY DEF ShiftRight, OneBit!ShiftRight
<1>4. OneBit!Rotl(x, k, w) = Rotl(x, k, w)
  BY <1>2, <1>3, Zenon DEF Rotl, OneBit!Rotl
<1> QED
  BY <1>1, <1>2, <1>4

LEMMA SameStates ==
  /\ \A t : OneBit!RandomUint(t) = RandomUint(t)
  /\ \A t : OneBit!Flat(t) = Flat(t)
  /\ \A t : OneBit!Pair(t) = Pair(t)
<1>1. ASSUME NEW t PROVE OneBit!RandomUint(t) = RandomUint(t)
  <2> DEFINE t1 == SymDiff(t[1], t[2])
  <2>1. OneBit!SymDiff(t[1], t[2]) = t1
    BY SameShifts
  <2>2. RandomUint(t) = << SymDiff(SymDiff(Rotl(t[1], 24, 64), t1), ShiftLeft(t1, 16, 64)),
                           Rotl(t1, 37, 64) >>
    BY Zenon DEF RandomUint
  <2>3. OneBit!RandomUint(t)
          = << OneBit!SymDiff(OneBit!SymDiff(OneBit!Rotl(t[1], 24, 64), t1),
                              OneBit!ShiftLeft(t1, 16, 64)), OneBit!Rotl(t1, 37, 64) >>
    BY <2>1, Zenon DEF OneBit!RandomUint
  <2> HIDE DEF t1
  <2> QED
    BY <2>2, <2>3, SameShifts
<1> QED
  BY <1>1 DEF Flat, OneBit!Flat, Pair, OneBit!Pair

LEMMA SameImage == \A m, x : OneBit!Image(m, x) = Image(m, x)
<1>1. \A T : OneBit!Cardinality(T) = Cardinality(T)
  BY DEF Cardinality, OneBit!Cardinality
<1> QED
  BY <1>1 DEF Image, OneBit!Image

LEMMA SameJUMP == OneBit!JUMP = JUMP
<1>1. \A d : OneBit!Hex(d) = Hex(d)
  BY Zenon DEF Hex, OneBit!Hex
<1> QED
  BY <1>1, Zenon DEF JUMP, OneBit!JUMP

LEMMA OneBitIsState == SingleBits \subseteq AllStates
BY FlatOfBit DEF SingleBits

(* Its first state and its steps are those of the other.                      *)
LEMMA OneBitInit ==
  ASSUME Start = AllStates, JumpInit
  PROVE  OneBit!JumpInit
<1>1. /\ state = [u \in AllStates |-> u] /\ local = [u \in AllStates |-> <<{}, {}>>]
      /\ bit_idx = 0 /\ doublings = 0
      /\ leap = [b \in 0 .. 127 |-> Flat(RandomUint(Pair({b})))]
  BY DEF JumpInit
<1>2. /\ [u \in SingleBits |-> state[u]] = [u \in SingleBits |-> u]
      /\ [u \in SingleBits |-> local[u]] = [u \in SingleBits |-> <<{}, {}>>]
  BY <1>1, OneBitIsState
<1>3. leap = [b \in 0 .. 127 |-> OneBit!Flat(OneBit!RandomUint(OneBit!Pair({b})))]
  BY <1>1, SameStates
<1> QED
  BY <1>1, <1>2, <1>3 DEF OneBit!JumpInit

LEMMA OneBitNext ==
  ASSUME Start = AllStates, [JumpNext]_jumpVars
  PROVE  [OneBit!JumpNext]_OneBit!jumpVars
<1> DEFINE In(f) == [u \in SingleBits |-> f[u]]
<1>1. CASE JumpBit
  <2> DEFINE taken == (bit_idx % 64) \in JUMP[(bit_idx \div 64) + 1]
  <2>1. /\ bit_idx < 128 /\ bit_idx' = bit_idx + 1
        /\ leap' = leap /\ doublings' = doublings
        /\ state' = [u \in AllStates |-> RandomUint(state[u])]
    BY <1>1 DEF JumpBit
  <2>2. In(state') = [u \in SingleBits |-> OneBit!RandomUint(In(state)[u])]
    BY <2>1, OneBitIsState, SameStates
  <2>3. taken <=> (bit_idx % 64) \in OneBit!JUMP[(bit_idx \div 64) + 1]
    BY SameJUMP
  <2>4. taken => In(local') = [u \in SingleBits |-> << SymDiff(In(local)[u][1], In(state)[u][1]),
                                                       SymDiff(In(local)[u][2], In(state)[u][2]) >>]
    <3> SUFFICES ASSUME taken
                 PROVE  In(local') = [u \in SingleBits |-> << SymDiff(In(local)[u][1], In(state)[u][1]),
                                                              SymDiff(In(local)[u][2], In(state)[u][2]) >>]
      OBVIOUS
    <3>1. local' = [u \in AllStates |-> << SymDiff(local[u][1], state[u][1]),
                                          SymDiff(local[u][2], state[u][2]) >>]
      BY <1>1 DEF JumpBit
    <3> QED
      BY <3>1, OneBitIsState
  <2>5. ~taken => In(local') = In(local)
    BY <1>1 DEF JumpBit
  <2>6. OneBit!JumpBit
    <3> DEFINE both == [u \in SingleBits |-> << SymDiff(In(local)[u][1], In(state)[u][1]),
                                              SymDiff(In(local)[u][2], In(state)[u][2]) >>]
    <3>1. both = [u \in SingleBits |-> << OneBit!SymDiff(In(local)[u][1], In(state)[u][1]),
                                         OneBit!SymDiff(In(local)[u][2], In(state)[u][2]) >>]
      BY SameShifts
    <3>2. IF (bit_idx % 64) \in OneBit!JUMP[(bit_idx \div 64) + 1]
          THEN In(local') = [u \in SingleBits |-> << OneBit!SymDiff(In(local)[u][1], In(state)[u][1]),
                                                    OneBit!SymDiff(In(local)[u][2], In(state)[u][2]) >>]
          ELSE In(local') = In(local)
      BY <2>3, <2>4, <2>5, <3>1, Zenon
    <3> QED
      BY <2>1, <2>2, <3>2 DEF OneBit!JumpBit
  <2> QED
    BY <2>6 DEF OneBit!JumpNext
<1>2. CASE JumpEnd
  BY <1>2 DEF JumpEnd, OneBit!JumpEnd, OneBit!JumpNext
<1>3. CASE Double
  BY <1>3, SameImage DEF Double, OneBit!Double, OneBit!JumpNext
<1>4. CASE UNCHANGED jumpVars
  BY <1>4 DEF jumpVars, OneBit!jumpVars
<1> QED
  BY <1>1, <1>2, <1>3, <1>4 DEF JumpNext

(***************************************************************************)
(* jump() leaves the generator where 2 ^ 64 numbers would, from every state,  *)
(* if it does so from the 128 states with one bit: a behaviour from all the    *)
(* states is one from these, and getRandomUint and jump commute with xor       *)
(* (xoroshiro128+.hpp:53-66, 92-110).                                         *)
(***************************************************************************)
THEOREM SingleBitsSuffice ==
  ASSUME Start = AllStates
  PROVE  JumpSpec => OneBit!JumpSpec /\ ([]OneBit!JumpIsLongRun => []JumpIsLongRun)
<1>1. JumpInit => JumpInv /\ OneBit!JumpInit
  BY JumpInvInit, OneBitInit
<1>2. JumpInv /\ [JumpNext]_jumpVars => JumpInv'
  BY JumpInvNext
<1>3. [JumpNext]_jumpVars => [OneBit!JumpNext]_OneBit!jumpVars
  BY OneBitNext
<1>4. JumpInv /\ OneBit!JumpIsLongRun => JumpIsLongRun
  <2> SUFFICES ASSUME JumpInv, OneBit!JumpIsLongRun, JumpDone
               PROVE  \A u \in Start : Flat(state[u]) = Image(leap, Flat(u))
    BY DEF JumpIsLongRun
  <2>1. \A u \in SingleBits : Leaps(state, u)
    BY SameStates, SameImage DEF OneBit!JumpIsLongRun, OneBit!JumpDone, JumpDone, Leaps
  <2> QED
    BY <2>1, LeapsEverywhere DEF JumpInv, Leaps
<1> QED
  BY <1>1, <1>2, <1>3, <1>4, PTL DEF JumpSpec, OneBit!JumpSpec

-----------------------------------------------------------------------------
(***************************************************************************)
(* The arena: the branchless increment of arena.hpp:39 and :64 reaches the    *)
(* next aligned address, and the objects never overlap.                       *)
(***************************************************************************)

(* (a - x % a) % a is less than a, and added to x gives a multiple of a. *)
LEMMA NextMultiple ==
  ASSUME NEW a \in Nat \ {0}, NEW x \in Nat
  PROVE  /\ (a - (x % a)) % a \in 0 .. a - 1
         /\ (x + ((a - (x % a)) % a)) % a = 0
<1> DEFINE q == x \div a
<1> DEFINE r == x % a
<1>1. q \in Int /\ x = a * q + r
  BY DivMod
<1>2. r \in 0 .. a - 1
  BY ModRange
<1>3. a * (q + 1) = a * q + a
  BY <1>1, MulSucc
<1> HIDE DEF q, r
<1>4. a * q \in Int /\ a * 0 = 0 /\ a * 1 = a /\ 0 \in 0 .. a - 1
  BY <1>1
<1>5. CASE r = 0
  <2>1. a - r = a * 1 + 0
    BY <1>4, <1>5
  <2>2. (a - r) % a = 0
    BY <1>2, <1>4, <1>5, <2>1, ModUnique
  <2> QED
    BY <1>4, <1>5, <2>2 DEF r
<1>6. CASE r # 0
  <2>1. a - r \in 0 .. a - 1 /\ a - r = a * 0 + (a - r) /\ a - r \in Int /\ 0 \in Int
    BY <1>2, <1>4, <1>6
  <2> DEFINE d == a - r
  <2>2. d % a = d
    <3>1. d \in 0 .. a - 1 /\ d = a * 0 + d /\ d \in Int /\ 0 \in Int
      BY <2>1
    <3> HIDE DEF d
    <3> QED
      BY <3>1, ModUnique
  <2>3. x + (a - r) = a * (q + 1) + 0
    BY <1>1, <1>2, <1>3, <1>4
  <2>4. q + 1 \in Int /\ x + (a - r) \in Int
    BY <1>1, <1>2
  <2>5. (x + (a - r)) % a = 0
    BY <1>4, <2>3, <2>4, ModUnique
  <2> QED
    BY <2>1, <2>2, <2>5 DEF r
<1> QED
  BY <1>5, <1>6

(* The increment is less than one alignment, and ends at an aligned address. *)
LEMMA PaddingAligns ==
  ASSUME NEW T \in Type, current \in Nat
  PROVE  /\ Padding(T) \in 0 .. T.align - 1
         /\ (current + Padding(T)) % T.align = 0
  BY ArenaAssumption, NextMultiple DEF Padding

(* What ObjectsApart needs to survive a step: where things lie are numbers. *)
Object == [ptr : Nat, type : Type, count : Nat]
ArenaInv == current \in Nat /\ objects \in Seq(Object) /\ ObjectsApart

(* Whatever is put at the padded address, and as many of it, keeps the        *)
(* objects apart: the common part of allocate and emplace.                    *)
LEMMA PlacedApart ==
  ASSUME ArenaInv, NEW T \in Type, NEW n \in Nat,
         objects' = Append(objects, [ptr |-> current + Padding(T), type |-> T, count |-> n]),
         current' = current + Padding(T) + T.size * n
  PROVE  ArenaInv'
<1> DEFINE o == [ptr |-> current + Padding(T), type |-> T, count |-> n]
<1> PICK l \in Nat : l = Len(objects)
  BY DEF ArenaInv
<1>0. T.size \in Nat /\ T.size * n \in Nat /\ T.align \in Nat
  BY ArenaAssumption
<1>1. Padding(T) \in 0 .. T.align - 1 /\ (current + Padding(T)) % T.align = 0
  BY PaddingAligns DEF ArenaInv
<1>2. current + Padding(T) \in Nat
  BY <1>0, <1>1, SMTT(30) DEF ArenaInv
<1>3. o \in Object
  BY <1>2 DEF Object
<1>4. /\ objects' \in Seq(Object) /\ Len(objects') = l + 1
      /\ objects'[l + 1] = o
      /\ \A k \in 1 .. l : objects'[k] = objects[k]
  BY <1>3 DEF ArenaInv
<1>5. current' \in Nat
  BY <1>0, <1>2
<1>6. \A k \in 1 .. l + 1 : EndBefore(k)' = EndBefore(k)
  BY <1>4 DEF EndBefore, EndOf
<1>7. EndBefore(l + 1) = current
  BY DEF ArenaInv, ObjectsApart
<1>8. EndBefore(l + 2)' = current'
  <2>1. EndBefore(l + 2)' = o.ptr + o.type.size * o.count
    BY <1>4 DEF EndBefore, EndOf
  <2> QED
    BY <2>1
<1>9. /\ objects'[l + 1].ptr % objects'[l + 1].type.align = 0
      /\ objects'[l + 1].ptr - EndBefore(l + 1)' \in 0 .. objects'[l + 1].type.align - 1
  <2>1. EndBefore(l + 1)' = current
    BY <1>6, <1>7
  <2>2. Padding(T) \in Int /\ o.ptr = current + Padding(T)
    BY <1>0, <1>1
  <2>3. o.ptr - EndBefore(l + 1)' = Padding(T)
    BY <2>1, <2>2 DEF ArenaInv
  <2> QED
    BY <1>1, <1>4, <2>3
<1>10. \A k \in 1 .. l :
         /\ objects'[k].ptr % objects'[k].type.align = 0
         /\ objects'[k].ptr - EndBefore(k)' \in 0 .. objects'[k].type.align - 1
  BY <1>4, <1>6 DEF ArenaInv, ObjectsApart
<1>11. DOMAIN objects' = 1 .. l + 1
  BY <1>4
<1> QED
  <2> HIDE DEF o
  <2>1. \A k \in DOMAIN objects' : k \in 1 .. l \/ k = l + 1
    BY <1>4, <1>11
  <2>2. EndBefore(Len(objects) + 1)' = EndBefore(l + 2)'
    BY <1>4
  <2> QED
    BY <1>4, <1>5, <1>8, <1>9, <1>10, <2>1, <2>2 DEF ArenaInv, ObjectsApart

(***************************************************************************)
(* For any types and numbers of objects, what the arena hands out lies        *)
(* aligned, one after the other, with less than one alignment between.        *)
(***************************************************************************)
THEOREM ObjectsLieApart == ArenaSpec => []ObjectsApart
<1>1. ArenaInit => ArenaInv
  BY ArenaAssumption DEF ArenaInit, ArenaInv, ObjectsApart, EndBefore
<1>2. ArenaInv /\ [ArenaNext]_arenaVars => ArenaInv'
  <2> SUFFICES ASSUME ArenaInv, [ArenaNext]_arenaVars
               PROVE  ArenaInv'
    OBVIOUS
  <2>1. CASE \E T \in Type : Emplace(T)
    <3> PICK T \in Type : Emplace(T)
      BY <2>1
    <3>1. T.size = T.size * 1
      BY ArenaAssumption
    <3> QED
      BY <3>1, PlacedApart DEF Emplace
  <2>2. CASE \E T \in Type : \E n \in Count : Allocate(T, n)
    <3> PICK T \in Type, n \in Count : Allocate(T, n)
      BY <2>2
    <3>1. n \in Nat
      BY ArenaAssumption
    <3> QED
      BY <3>1, PlacedApart DEF Allocate
  <2>3. CASE Reset
    BY <2>3, ArenaAssumption DEF Reset, ArenaInv, ObjectsApart, EndBefore
  <2>4. CASE UNCHANGED arenaVars
    BY <2>4 DEF arenaVars, ArenaInv, ObjectsApart, EndBefore, EndOf
  <2> QED
    BY <2>1, <2>2, <2>3, <2>4 DEF ArenaNext
<1>3. ArenaInv => ObjectsApart
  BY DEF ArenaInv
<1> QED
  BY <1>1, <1>2, <1>3, PTL DEF ArenaSpec

-----------------------------------------------------------------------------
(***************************************************************************)
(* The reader of CSV files.  First, that what Join put together Split takes    *)
(* apart: the line is spread over its parts, part k from starts[k] on, and    *)
(* the loop of split is at a start whenever it has passed a delimiter.        *)
(***************************************************************************)
(* The rounds of the loop of split. *)
SplitRounds(f, line, c) ==
  /\ f[0] = [out |-> <<>>, start |-> 1]
  /\ \A i \in 1 .. Len(line) + 1 :
       f[i] = IF i = Len(line) + 1 \/ line[i] = c
              THEN [out |-> Append(f[i - 1].out, SubSeq(line, f[i - 1].start, i - 1)), start |-> i + 1]
              ELSE f[i - 1]

(* Split is what its loop has put out in the end. *)
LEMMA SplitLoop ==
  ASSUME NEW S, NEW line \in Seq(S), NEW c
  PROVE  \E f : SplitRounds(f, line, c) /\ Split(line, c) = f[Len(line) + 1].out
<1> DEFINE n == Len(line) + 1
<1> DEFINE X == [out : Seq(Seq(S)), start : Nat \ {0}]
<1> DEFINE x == [out |-> <<>>, start |-> 1]
<1> DEFINE B(r, i) == IF i = Len(line) + 1 \/ line[i] = c
                      THEN [out |-> Append(r.out, SubSeq(line, r.start, i - 1)), start |-> i + 1]
                      ELSE r
<1> DEFINE F == [p \in X \X (1 .. n) |-> B(p[1], p[2])]
<1> DEFINE P(f) == f = [i \in 0 .. n |-> IF i = 0 THEN x ELSE B(f[i - 1], i)]
<1> DEFINE g == CHOOSE f : P(f)
<1>1. n \in Nat /\ x \in X
  OBVIOUS
<1>2. F \in [X \X (1 .. n) -> X]
  <2> SUFFICES ASSUME NEW r \in X, NEW i \in 1 .. n PROVE B(r, i) \in X
    OBVIOUS
  <2>1. r.out \in Seq(Seq(S)) /\ r.start \in Nat \ {0} /\ Len(line) \in Nat
    OBVIOUS
  <2>2. SubSeq(line, r.start, i - 1) \in Seq(S)
    <3>1. \A k \in r.start .. i - 1 : line[k] \in S
      <4> TAKE k \in r.start .. i - 1
      <4>1. k \in 1 .. Len(line)
        BY <2>1
      <4> QED
        BY <4>1
    <3>2. r.start \in Int /\ i - 1 \in Int
      BY <2>1
    <3> QED
      BY <3>1, <3>2, SubSeqProperties
  <2>3. Append(r.out, SubSeq(line, r.start, i - 1)) \in Seq(Seq(S))
    BY <2>1, <2>2, AppendProperties
  <2> QED
    BY <2>1, <2>3
<1>3. PICK f \in [0 .. n -> X] : Runs(f, F, x, n)
  <2> HIDE DEF n, X, x, F
  <2> QED
    BY <1>1, <1>2, RunsExist
<1>4. P(f)
  <2>1. \A i \in 0 .. n : f[i] = IF i = 0 THEN x ELSE B(f[i - 1], i)
    <3> TAKE i \in 0 .. n
    <3>1. f[i] = IF i = 0 THEN x ELSE F[<<f[i - 1], i>>]
      <4> HIDE DEF F, x, n
      <4> QED
        BY <1>3, Zenon DEF Runs
    <3>2. i # 0 => F[<<f[i - 1], i>>] = B(f[i - 1], i)
      <4> SUFFICES ASSUME i # 0 PROVE F[<<f[i - 1], i>>] = B(f[i - 1], i)
        OBVIOUS
      <4>1. i - 1 \in 0 .. n /\ i \in 1 .. n
        BY <1>1
      <4>2. f[i - 1] \in X
        BY <4>1
      <4> HIDE DEF B, X, n
      <4> QED
        BY <4>1, <4>2
    <3> QED
      BY <3>1, <3>2
  <2>2. f = [i \in 0 .. n |-> f[i]]
    OBVIOUS
  <2> HIDE DEF B, x, n
  <2> QED
    BY <2>1, <2>2
<1>5. P(g)
  <2> HIDE DEF P
  <2> QED
    BY <1>4
<1>6. Split(line, c) = g[n].out
  BY DEF Split
<1>7. SplitRounds(g, line, c)
  <2> HIDE DEF g
  <2>1. \A i \in 0 .. n : g[i] = IF i = 0 THEN x ELSE B(g[i - 1], i)
    <3> HIDE DEF B, x, n
    <3> QED
      BY <1>5, Zenon
  <2>2. 0 \in 0 .. n /\ \A i \in 1 .. n : i \in 0 .. n /\ i # 0
    BY <1>1
  <2>3. g[0] = x /\ \A i \in 1 .. n : g[i] = B(g[i - 1], i)
    <3> HIDE DEF B, x, n
    <3> QED
      BY <2>1, <2>2
  <2> QED
    BY <2>3, Zenon DEF SplitRounds
<1> QED
  BY <1>6, <1>7, Zenon

(* The first n parts lie in the line, a c between each and the next; where each begins. *)
Spread(line, parts, n, c, starts) ==
  /\ starts \in [1 .. n + 1 -> Nat]
  /\ starts[1] = 1
  /\ \A k \in 1 .. n :
       /\ 1 <= starts[k]
       /\ starts[k + 1] = starts[k] + Len(parts[k]) + 1
       /\ starts[k + 1] <= Len(line) + 2
       /\ \A i \in 1 .. Len(parts[k]) : line[starts[k] + i - 1] = parts[k][i]
       /\ k < n => line[starts[k + 1] - 1] = c
  /\ starts[n + 1] = Len(line) + 2

(* The rounds of the loop of Join, and what it makes. *)
JoinRounds(f, parts, c) ==
  /\ f[0] = <<>>
  /\ \A k \in 1 .. Len(parts) :
       f[k] = IF k = 1 THEN parts[1] ELSE f[k - 1] \o <<c>> \o parts[k]

LEMMA JoinLoop ==
  ASSUME NEW S, NEW parts \in Seq(Seq(S)), NEW c \in S
  PROVE  \E f : JoinRounds(f, parts, c) /\ Join(parts, c) = f[Len(parts)]
<1> DEFINE n == Len(parts)
<1> DEFINE X == Seq(S)
<1> DEFINE x == <<>>
<1> DEFINE B(r, i) == IF i = 1 THEN parts[1] ELSE r \o <<c>> \o parts[i]
<1> DEFINE F == [p \in X \X (1 .. n) |-> B(p[1], p[2])]
<1> DEFINE P(f) == f = [i \in 0 .. n |-> IF i = 0 THEN x ELSE B(f[i - 1], i)]
<1> DEFINE g == CHOOSE f : P(f)
<1>1. n \in Nat /\ x \in X
  OBVIOUS
<1>2. F \in [X \X (1 .. n) -> X]
  <2> SUFFICES ASSUME NEW r \in X, NEW i \in 1 .. n PROVE B(r, i) \in X
    OBVIOUS
  <2>1. parts[i] \in Seq(S) /\ (i = 1 => parts[1] \in Seq(S)) /\ <<c>> \in Seq(S)
    OBVIOUS
  <2>2. r \o <<c>> \in Seq(S)
    BY <2>1, ConcatProperties
  <2>3. (r \o <<c>>) \o parts[i] \in Seq(S)
    BY <2>1, <2>2, ConcatProperties
  <2> QED
    BY <2>1, <2>3
<1>3. PICK f \in [0 .. n -> X] : Runs(f, F, x, n)
  <2> HIDE DEF n, X, x, F
  <2> QED
    BY <1>1, <1>2, RunsExist
<1>4. P(f)
  <2>1. \A i \in 0 .. n : f[i] = IF i = 0 THEN x ELSE B(f[i - 1], i)
    <3> TAKE i \in 0 .. n
    <3>1. f[i] = IF i = 0 THEN x ELSE F[<<f[i - 1], i>>]
      <4> HIDE DEF F, x, n
      <4> QED
        BY <1>3, Zenon DEF Runs
    <3>2. i # 0 => F[<<f[i - 1], i>>] = B(f[i - 1], i)
      <4> SUFFICES ASSUME i # 0 PROVE F[<<f[i - 1], i>>] = B(f[i - 1], i)
        OBVIOUS
      <4>1. i - 1 \in 0 .. n /\ i \in 1 .. n
        BY <1>1
      <4>2. f[i - 1] \in X
        BY <4>1
      <4> HIDE DEF B, X, n
      <4> QED
        BY <4>1, <4>2
    <3> QED
      BY <3>1, <3>2
  <2>2. f = [i \in 0 .. n |-> f[i]]
    OBVIOUS
  <2> HIDE DEF B, x, n
  <2> QED
    BY <2>1, <2>2
<1>5. P(g)
  <2> HIDE DEF P
  <2> QED
    BY <1>4
<1>6. Join(parts, c) = g[n]
  BY DEF Join
<1>7. g[0] = x /\ \A i \in 1 .. n : g[i] = B(g[i - 1], i)
  <2> HIDE DEF g
  <2>1. \A i \in 0 .. n : g[i] = IF i = 0 THEN x ELSE B(g[i - 1], i)
    <3> HIDE DEF B, x, n
    <3> QED
      BY <1>5, Zenon
  <2>2. 0 \in 0 .. n /\ \A i \in 1 .. n : i \in 0 .. n /\ i # 0
    BY <1>1
  <2> HIDE DEF B, x, n
  <2> QED
    BY <2>1, <2>2
<1>8. JoinRounds(g, parts, c) /\ Join(parts, c) = g[Len(parts)]
  <2> HIDE DEF g
  <2> QED
    BY <1>6, <1>7 DEF JoinRounds
<1> HIDE DEF g
<1> QED
  BY <1>8, Zenon

(* Where part k lies in the line. *)
Lies(S, line, parts, n, c, starts, k) ==
  /\ parts[k] \in Seq(S) /\ Len(parts[k]) \in Nat /\ Len(line) \in Nat
  /\ starts[k] \in Nat /\ starts[k + 1] \in Nat
  /\ 1 <= starts[k] /\ starts[k + 1] <= Len(line) + 2
  /\ starts[k + 1] = starts[k] + Len(parts[k]) + 1
  /\ \A i \in 1 .. Len(parts[k]) :
       starts[k] + i - 1 \in 1 .. Len(line) /\ line[starts[k] + i - 1] = parts[k][i]
  /\ k < n => starts[k + 1] - 1 \in 1 .. Len(line) /\ line[starts[k + 1] - 1] = c

LEMMA SpreadAt ==
  ASSUME NEW S, NEW line \in Seq(S), NEW parts \in Seq(Seq(S)), NEW c,
         NEW n \in Nat \ {0}, n <= Len(parts),
         NEW starts, Spread(line, parts, n, c, starts), NEW k \in 1 .. n
  PROVE  Lies(S, line, parts, n, c, starts, k)
<1>1. ASSUME NEW j \in 1 .. n
      PROVE  /\ parts[j] \in Seq(S) /\ Len(parts[j]) \in Nat
             /\ starts[j] \in Nat /\ starts[j + 1] \in Nat
             /\ 1 <= starts[j] /\ starts[j + 1] <= Len(line) + 2
             /\ starts[j + 1] = starts[j] + Len(parts[j]) + 1
             /\ \A i \in 1 .. Len(parts[j]) : line[starts[j] + i - 1] = parts[j][i]
             /\ j < n => line[starts[j + 1] - 1] = c
  <2>1. j \in 1 .. Len(parts) /\ j \in 1 .. n + 1 /\ j + 1 \in 1 .. n + 1
    BY LenProperties
  <2>2. parts[j] \in Seq(S) /\ Len(parts[j]) \in Nat
    BY <2>1, ElementOfSeq, LenProperties
  <2>3. starts[j] \in Nat /\ starts[j + 1] \in Nat
    BY <2>1 DEF Spread
  <2> QED
    BY <2>2, <2>3 DEF Spread
<1> DEFINE a == starts[k]
<1> DEFINE b == starts[k + 1]
<1> DEFINE l == Len(parts[k])
<1> DEFINE m == Len(line)
<1>2. m \in Nat
  BY LenProperties
<1>3. a \in Nat /\ b \in Nat /\ l \in Nat /\ 1 <= a /\ b <= m + 2 /\ b = a + l + 1
  BY <1>1
<1>4. \A i \in 1 .. l : a + i - 1 \in 1 .. m
  <2> HIDE DEF a, b, l, m
  <2> QED
    BY <1>2, <1>3
<1>5. k < n => b - 1 \in 1 .. m
  <2> SUFFICES ASSUME k < n PROVE b - 1 \in 1 .. m
    OBVIOUS
  <2>1. k + 1 \in 1 .. n
    OBVIOUS
  <2> DEFINE d == starts[(k + 1) + 1]
  <2> DEFINE j == Len(parts[k + 1])
  <2>2. d \in Nat /\ j \in Nat /\ d <= m + 2 /\ d = b + j + 1
    BY <1>1, <2>1
  <2> HIDE DEF a, b, d, j, l, m
  <2> QED
    BY <1>2, <1>3, <2>2
<1> QED
  BY <1>1, <1>2, <1>4, <1>5 DEF Lies

(* One part more. *)
LEMMA SpreadOneMore ==
  ASSUME NEW S, NEW line \in Seq(S), NEW parts \in Seq(Seq(S)), NEW c \in S,
         NEW n \in Nat \ {0}, n + 1 <= Len(parts),
         NEW starts, Spread(line, parts, n, c, starts)
  PROVE  LET longer == line \o <<c>> \o parts[n + 1]
         IN longer \in Seq(S) /\ \E begins : Spread(longer, parts, n + 1, c, begins)
<1> DEFINE part == parts[n + 1]
<1> DEFINE longer == (line \o <<c>>) \o part
<1> DEFINE end == starts[n + 1] + Len(part) + 1
<1> DEFINE begins == [k \in 1 .. n + 2 |-> IF k = n + 2 THEN end ELSE starts[k]]
<1>1. part \in Seq(S) /\ Len(part) \in Nat /\ Len(line) \in Nat
  <2>1. n + 1 \in 1 .. Len(parts)
    OBVIOUS
  <2> QED
    BY <2>1, ElementOfSeq, LenProperties
<1>2. /\ longer \in Seq(S)
      /\ Len(longer) = Len(line) + 1 + Len(part)
      /\ \A i \in 1 .. Len(line) : longer[i] = line[i]
      /\ longer[Len(line) + 1] = c
      /\ \A i \in 1 .. Len(part) : longer[Len(line) + 1 + i] = part[i]
  <2>1. <<c>> \in Seq(S) /\ Len(<<c>>) = 1 /\ <<c>>[1] = c
    OBVIOUS
  <2>2. /\ line \o <<c>> \in Seq(S)
        /\ Len(line \o <<c>>) = Len(line) + 1
        /\ \A i \in 1 .. Len(line) + 1 :
             (line \o <<c>>)[i] = IF i <= Len(line) THEN line[i] ELSE <<c>>[i - Len(line)]
    BY <2>1, ConcatProperties
  <2> DEFINE l == line \o <<c>>
  <2>3. (\A i \in 1 .. Len(line) : l[i] = line[i]) /\ l[Len(line) + 1] = c
    <3>1. Len(line) + 1 \in 1 .. Len(line) + 1 /\ (Len(line) + 1) - Len(line) = 1
      BY <1>1
    <3> QED
      BY <2>1, <2>2, <3>1, <1>1
  <2> HIDE DEF l, part
  <2>4. /\ l \o part \in Seq(S)
        /\ Len(l \o part) = Len(l) + Len(part)
        /\ \A i \in 1 .. Len(l) + Len(part) :
             (l \o part)[i] = IF i <= Len(l) THEN l[i] ELSE part[i - Len(l)]
    BY <2>2, <1>1, ConcatProperties DEF l
  <2>5. Len(l) = Len(line) + 1
    BY <2>2 DEF l
  <2>6. longer = l \o part
    BY DEF l
  <2> HIDE DEF longer
  <2>7. \A i \in 1 .. Len(part) : longer[Len(line) + 1 + i] = part[i]
    <3> TAKE i \in 1 .. Len(part)
    <3>1. /\ Len(line) + 1 + i \in 1 .. Len(l) + Len(part)
          /\ ~(Len(line) + 1 + i <= Len(l)) /\ (Len(line) + 1 + i) - Len(l) = i
      BY <1>1, <2>5
    <3> QED
      BY <2>4, <2>6, <3>1
  <2>8. \A i \in 1 .. Len(line) + 1 : longer[i] = l[i]
    <3> TAKE i \in 1 .. Len(line) + 1
    <3>1. i \in 1 .. Len(l) + Len(part) /\ i <= Len(l)
      BY <1>1, <2>5
    <3> QED
      BY <2>4, <2>6, <3>1
  <2>9. Len(line) + 1 \in 1 .. Len(line) + 1 /\ \A i \in 1 .. Len(line) : i \in 1 .. Len(line) + 1
    BY <1>1
  <2> QED
    BY <2>3, <2>4, <2>5, <2>6, <2>7, <2>8, <2>9
<1>3. /\ starts \in [1 .. n + 1 -> Nat] /\ starts[1] = 1 /\ starts[n + 1] = Len(line) + 2
      /\ n <= Len(parts)
  BY DEF Spread
<1>4. /\ begins \in [1 .. n + 2 -> Nat] /\ begins[n + 2] = end /\ end = Len(longer) + 2
      /\ \A k \in 1 .. n + 1 : begins[k] = starts[k]
  <2>1. starts[n + 1] = Len(line) + 2 /\ Len(longer) = Len(line) + 1 + Len(part)
    BY <1>2, <1>3
  <2> HIDE DEF longer, part
  <2> QED
    BY <1>1, <1>3, <2>1
<1>5. ASSUME NEW k \in 1 .. n + 1
      PROVE  /\ 1 <= begins[k]
             /\ begins[k + 1] = begins[k] + Len(parts[k]) + 1
             /\ begins[k + 1] <= Len(longer) + 2
             /\ \A i \in 1 .. Len(parts[k]) : longer[begins[k] + i - 1] = parts[k][i]
             /\ k < n + 1 => longer[begins[k + 1] - 1] = c
  <2>1. CASE k = n + 1
    <3>1. begins[k] = Len(line) + 2 /\ begins[k + 1] = end /\ parts[k] = part
      <4> HIDE DEF begins, end, longer, part
      <4>1. k + 1 = n + 2 /\ k \in 1 .. n + 1
        BY <2>1
      <4> QED
        BY <1>3, <1>4, <2>1, <4>1 DEF part
    <3>2. end = Len(line) + 2 + Len(part) + 1
      BY <1>3
    <3> HIDE DEF begins, end, longer, part
    <3>3. \A i \in 1 .. Len(part) : begins[k] + i - 1 = Len(line) + 1 + i
      BY <3>1, <1>1
    <3>4. \A i \in 1 .. Len(part) : longer[begins[k] + i - 1] = part[i]
      BY <1>2, <3>3
    <3>5. 1 <= begins[k] /\ begins[k + 1] = begins[k] + Len(part) + 1 /\ begins[k + 1] <= Len(longer) + 2
      <4> DEFINE a == begins[k]
      <4> DEFINE b == begins[k + 1]
      <4>1. a = Len(line) + 2 /\ b = Len(line) + 2 + Len(part) + 1
        BY <3>1, <3>2
      <4> DEFINE l == Len(line)
      <4> DEFINE q == Len(part)
      <4> DEFINE m == Len(longer)
      <4>2. l \in Nat /\ q \in Nat /\ m = l + 1 + q
        BY <1>1, <1>2
      <4> HIDE DEF a, b, l, q, m
      <4>3. a = l + 2 /\ b = l + 2 + q + 1
        BY <4>1 DEF l, q
      <4>4. 1 <= a /\ b = a + q + 1 /\ b <= m + 2
        BY <4>2, <4>3
      <4> QED
        BY <4>4 DEF a, b, q, m
    <3> QED
      BY <2>1, <3>1, <3>4, <3>5
  <2>2. CASE k # n + 1
    <3> HIDE DEF begins, end, longer, part
    <3>1. k \in 1 .. n /\ k \in 1 .. n + 1 /\ k + 1 \in 1 .. n + 1
      BY <2>2
    <3>2. begins[k] = starts[k] /\ begins[k + 1] = starts[k + 1]
      BY <1>4, <3>1
    <3>3. /\ parts[k] \in Seq(S) /\ Len(parts[k]) \in Nat /\ Len(line) \in Nat
          /\ starts[k] \in Nat /\ starts[k + 1] \in Nat
          /\ 1 <= starts[k] /\ starts[k + 1] <= Len(line) + 2
          /\ starts[k + 1] = starts[k] + Len(parts[k]) + 1
          /\ \A i \in 1 .. Len(parts[k]) :
               starts[k] + i - 1 \in 1 .. Len(line) /\ line[starts[k] + i - 1] = parts[k][i]
          /\ k < n => starts[k + 1] - 1 \in 1 .. Len(line) /\ line[starts[k + 1] - 1] = c
      <4>1. Lies(S, line, parts, n, c, starts, k)
        BY <1>3, <3>1, SpreadAt
      <4> QED
        BY <4>1 DEF Lies
    <3>4. \A i \in 1 .. Len(parts[k]) : longer[begins[k] + i - 1] = parts[k][i]
      BY <1>2, <3>2, <3>3
    <3>5. longer[begins[k + 1] - 1] = c
      <4>1. CASE k = n
        <5>1. begins[k + 1] - 1 = Len(line) + 1
          BY <1>1, <1>3, <3>2, <4>1
        <5> QED
          BY <5>1, <1>2
      <4>2. CASE k # n
        <5>1. k < n
          BY <3>1, <4>2
        <5> QED
          BY <1>2, <3>2, <3>3, <5>1
      <4> QED
        BY <4>1, <4>2
    <3>6. begins[k + 1] <= Len(longer) + 2
      <4> DEFINE b == starts[k + 1]
      <4>1. b \in Nat /\ b <= Len(line) + 2
        BY <3>3
      <4> HIDE DEF b
      <4>2. b <= Len(longer) + 2
        BY <1>1, <1>2, <4>1
      <4> QED
        BY <3>2, <4>2 DEF b
    <3> QED
      BY <3>2, <3>3, <3>4, <3>5, <3>6
  <2> QED
    BY <2>1, <2>2
<1> HIDE DEF begins, end, longer, part
<1>6. begins[1] = 1 /\ (n + 1) + 1 = n + 2
  BY <1>3, <1>4
<1>7. Spread(longer, parts, n + 1, c, begins)
  BY <1>4, <1>5, <1>6 DEF Spread
<1> QED
  BY <1>2, <1>7 DEF longer, part

(* What is joined lies in the line it makes. *)
LEMMA JoinSpread ==
  ASSUME NEW S, NEW parts \in Seq(Seq(S)), parts # <<>>, NEW c \in S
  PROVE  /\ Join(parts, c) \in Seq(S)
         /\ \E starts : Spread(Join(parts, c), parts, Len(parts), c, starts)
<1> DEFINE n == Len(parts)
<1>1. PICK f : JoinRounds(f, parts, c) /\ Join(parts, c) = f[n]
  BY JoinLoop
<1>2. n \in Nat \ {0}
  BY EmptySeq
<1>3. \A k \in 1 .. n : f[k] = IF k = 1 THEN parts[1] ELSE f[k - 1] \o <<c>> \o parts[k]
  BY <1>1 DEF JoinRounds
<1> DEFINE Good(k) == f[k] \in Seq(S) /\ \E starts : Spread(f[k], parts, k, c, starts)
<1> DEFINE T == {k \in Nat : k + 1 <= n => Good(k + 1)}
<1>4. 0 \in T
  <2> DEFINE starts == [k \in 1 .. 2 |-> IF k = 1 THEN 1 ELSE Len(parts[1]) + 2]
  <2>1. 1 \in 1 .. n
    BY <1>2
  <2>2. parts[1] \in Seq(S) /\ Len(parts[1]) \in Nat
    BY <2>1, ElementOfSeq, LenProperties
  <2>3. f[1] = parts[1]
    BY <1>3, <2>1
  <2>4. starts \in [1 .. 1 + 1 -> Nat] /\ starts[1] = 1 /\ starts[1 + 1] = Len(parts[1]) + 2
    BY <2>2
  <2> HIDE DEF starts
  <2>5. ASSUME NEW k \in 1 .. 1
        PROVE  /\ 1 <= starts[k]
               /\ starts[k + 1] = starts[k] + Len(parts[k]) + 1
               /\ starts[k + 1] <= Len(parts[1]) + 2
               /\ \A i \in 1 .. Len(parts[k]) : parts[1][starts[k] + i - 1] = parts[k][i]
               /\ ~(k < 1)
    <3>1. k = 1 /\ \A i \in 1 .. Len(parts[1]) : 1 + i - 1 = i
      BY <2>2
    <3> QED
      BY <3>1, <2>2, <2>4
  <2>6. Spread(parts[1], parts, 1, c, starts)
    BY <2>4, <2>5 DEF Spread
  <2>7. Good(1)
    BY <2>2, <2>3, <2>6
  <2> HIDE DEF Good
  <2> QED
    BY <2>7
<1>5. ASSUME NEW k \in Nat, k \in T PROVE k + 1 \in T
  <2> SUFFICES ASSUME (k + 1) + 1 <= n PROVE Good((k + 1) + 1)
    OBVIOUS
  <2>1. k + 1 \in Nat \ {0} /\ k + 1 <= n /\ (k + 1) + 1 \in 1 .. n /\ (k + 1) + 1 # 1
        /\ ((k + 1) + 1) - 1 = k + 1
    BY <1>2
  <2>2. f[k + 1] \in Seq(S) /\ \E starts : Spread(f[k + 1], parts, k + 1, c, starts)
    BY <1>5, <2>1
  <2>3. PICK starts : Spread(f[k + 1], parts, k + 1, c, starts)
    BY <2>2
  <2> DEFINE longer == f[k + 1] \o <<c>> \o parts[(k + 1) + 1]
  <2>4. longer \in Seq(S) /\ \E begins : Spread(longer, parts, (k + 1) + 1, c, begins)
    BY <2>1, <2>2, <2>3, SpreadOneMore
  <2>5. f[(k + 1) + 1] = longer
    <3> HIDE DEF n
    <3> QED
      BY <1>3, <2>1
  <2> HIDE DEF longer
  <2> QED
    BY <2>4, <2>5
<1>6. Good(n)
  <2> HIDE DEF T
  <2>1. Nat \subseteq T
    BY <1>4, <1>5, Induction
  <2>2. n - 1 \in Nat /\ (n - 1) + 1 = n
    BY <1>2
  <2>3. n - 1 \in T
    BY <2>1, <2>2
  <2> USE DEF T
  <2> HIDE DEF Good, n
  <2> QED
    BY <1>2, <2>2, <2>3
<1> QED
  BY <1>1, <1>6

(* The turn of a loop after turn i.                                           *)
LEMMA IndexAfter ==
  ASSUME NEW l \in Nat, NEW i \in Nat, i + 1 <= l + 1
  PROVE  i + 1 \in 1 .. l + 1 /\ (i + 1) - 1 = i /\ (i + 1) + 1 = i + 2
OBVIOUS

(***************************************************************************)
(* Parts that lie in a line and do not contain the delimiter are what split   *)
(* makes of it.                                                              *)
(***************************************************************************)
LEMMA SplitSpread ==
  ASSUME NEW S, NEW line \in Seq(S), NEW parts \in Seq(Seq(S)), parts # <<>>, NEW c,
         \A k \in 1 .. Len(parts) : \A i \in 1 .. Len(parts[k]) : parts[k][i] # c,
         NEW starts, Spread(line, parts, Len(parts), c, starts)
  PROVE  Split(line, c) = parts
<1> DEFINE n == Len(parts)
<1> DEFINE l == Len(line)
<1>1. PICK f : SplitRounds(f, line, c) /\ Split(line, c) = f[l + 1].out
  BY SplitLoop
<1>2. n \in Nat \ {0} /\ l \in Nat
  BY EmptySeq, LenProperties
<1>3. ASSUME NEW k \in 1 .. n PROVE Lies(S, line, parts, n, c, starts, k)
  BY <1>2, SpreadAt
<1>4. starts[1] = 1 /\ starts[n + 1] = l + 2
  BY DEF Spread
<1> DEFINE Part(i, k) ==
             /\ starts[k] <= i + 1
             /\ k <= n => i + 1 < starts[k + 1]
             /\ f[i] = [out |-> SubSeq(parts, 1, k - 1), start |-> starts[k]]
<1>5. \E k \in 1 .. n + 1 : Part(0, k)
  <2>1. f[0] = [out |-> <<>>, start |-> 1]
    BY <1>1 DEF SplitRounds
  <2>2. SubSeq(parts, 1, 1 - 1) = <<>>
    BY SubSeqEmpty
  <2>3. 1 \in 1 .. n /\ 1 \in 1 .. n + 1
    BY <1>2
  <2>4. Lies(S, line, parts, n, c, starts, 1)
    BY <1>3, <2>3
  <2>5. 0 + 1 < starts[1 + 1]
    <3> DEFINE b == starts[1 + 1]
    <3>1. b = 1 + Len(parts[1]) + 1 /\ Len(parts[1]) \in Nat
      BY <1>4, <2>4 DEF Lies
    <3> HIDE DEF b
    <3>2. 0 + 1 < b
      BY <3>1
    <3> QED
      BY <3>2 DEF b
  <2>6. Part(0, 1)
    BY <1>4, <2>1, <2>2, <2>5
  <2> HIDE DEF Part
  <2> QED
    BY <2>3, <2>6
<1>6. ASSUME NEW i \in Nat, i + 1 <= l + 1, NEW k \in 1 .. n + 1, Part(i, k)
      PROVE  \E m \in 1 .. n + 1 : Part(i + 1, m)
  <2>2. k \in 1 .. n
    <3> SUFFICES ASSUME k = n + 1 PROVE FALSE
      BY <1>2
    <3>1. l + 2 <= i + 1
      BY <1>4, <1>6
    <3>2. i + 1 <= l + 1
      BY <1>6
    <3> HIDE DEF Part, n
    <3> QED
      BY <1>2, <3>1, <3>2
  <2>3. Lies(S, line, parts, n, c, starts, k)
    BY <1>3, <2>2
  <2> DEFINE a == starts[k]
  <2> DEFINE b == starts[k + 1]
  <2> DEFINE p == parts[k]
  <2>4. /\ p \in Seq(S) /\ Len(p) \in Nat /\ a \in Nat /\ b \in Nat
        /\ 1 <= a /\ b <= l + 2 /\ b = a + Len(p) + 1
        /\ \A j \in 1 .. Len(p) : a + j - 1 \in 1 .. l /\ line[a + j - 1] = p[j]
        /\ k < n => b - 1 \in 1 .. l /\ line[b - 1] = c
    BY <2>3 DEF Lies
  <2>5. /\ a <= i + 1 /\ i + 1 < b
        /\ f[i] = [out |-> SubSeq(parts, 1, k - 1), start |-> a]
    BY <1>6, <2>2
  <2>6. f[i + 1] = IF i + 1 = l + 1 \/ line[i + 1] = c
                   THEN [out |-> Append(f[i].out, SubSeq(line, f[i].start, i)), start |-> i + 2]
                   ELSE f[i]
    <3>1. i + 1 \in 1 .. l + 1 /\ (i + 1) - 1 = i /\ (i + 1) + 1 = i + 2
      <4>1. l \in Nat /\ i + 1 <= l + 1
        BY <1>2, <1>6
      <4> HIDE DEF Part, l, n, a, b, p
      <4> QED
        BY <4>1, IndexAfter
    <3> QED
      BY <1>1, <3>1 DEF SplitRounds
  <2>7. CASE i + 2 = b
    <3>1. i + 1 = l + 1 \/ line[i + 1] = c
      <4>1. CASE k < n
        <5>1. b - 1 = i + 1
          BY <2>7
        <5> QED
          BY <2>4, <4>1, <5>1
      <4>2. CASE ~(k < n)
        <5>1. k = n
          BY <1>2, <2>2, <4>2
        <5>2. b = l + 2
          BY <1>4, <5>1
        <5> HIDE DEF b
        <5>3. i + 1 = l + 1
          BY <5>2, <2>7
        <5> QED
          BY <5>3
      <4> QED
        BY <4>1, <4>2
    <3>2. SubSeq(line, a, i) = p
      <4> HIDE DEF a, b, p, l
      <4>1. \A j \in a .. i : line[j] \in S
        <5> TAKE j \in a .. i
        <5>1. l \in Nat /\ a \in Nat /\ 1 <= a /\ i + 1 <= l + 1
          BY <1>2, <1>6, <2>4
        <5> HIDE DEF Part
        <5>2. j \in 1 .. l
          BY <5>1
        <5> QED
          BY <5>2, ElementOfSeq DEF l
      <4>2. /\ SubSeq(line, a, i) \in Seq(S)
            /\ Len(SubSeq(line, a, i)) = IF a <= i THEN i - a + 1 ELSE 0
            /\ \A j \in 1 .. i - a + 1 : SubSeq(line, a, i)[j] = line[a + j - 1]
        <5>1. a \in Int /\ i \in Int
          BY <2>4
        <5> QED
          BY <4>1, <5>1, SubSeqProperties
      <4>3. i - a + 1 = Len(p)
        <5>1. i + 2 = a + Len(p) + 1 /\ a \in Nat /\ Len(p) \in Nat
          BY <2>4, <2>7
        <5> QED
          BY <5>1
      <4>4. Len(SubSeq(line, a, i)) = Len(p)
        BY <2>4, <4>2, <4>3
      <4>5. \A j \in 1 .. Len(p) : SubSeq(line, a, i)[j] = p[j]
        BY <2>4, <4>2, <4>3
      <4> QED
        BY <2>4, <4>2, <4>4, <4>5, SeqEqual
    <3>3. Append(SubSeq(parts, 1, k - 1), p) = SubSeq(parts, 1, k)
      <4>1. 1 \in 1 .. n /\ k \in 1 .. n
        BY <2>2
      <4>2. SubSeq(parts, 1, k) = SubSeq(parts, 1, k - 1) \o <<parts[k]>>
        BY <2>2, <4>1, SubSeqRecursiveSecond
      <4>3. SubSeq(parts, 1, k - 1) \in Seq(Seq(S))
        <5>1. \A j \in 1 .. k - 1 : parts[j] \in Seq(S)
          BY <1>2, <2>2
        <5>2. 1 \in Int /\ k - 1 \in Int
          BY <2>2
        <5> QED
          BY <5>1, <5>2, SubSeqProperties
      <4> QED
        BY <4>2, <4>3, <2>4, AppendIsConcat
    <3>4. f[i + 1] = [out |-> SubSeq(parts, 1, (k + 1) - 1), start |-> starts[k + 1]]
      <4>1. (k + 1) - 1 = k
        BY <2>2
      <4>2. f[i + 1] = [out |-> SubSeq(parts, 1, k), start |-> b]
        <5> HIDE DEF a, b, p, l, n
        <5>1. f[i].out = SubSeq(parts, 1, k - 1) /\ f[i].start = a
          BY <2>5
        <5>2. f[i + 1] = [out |-> Append(f[i].out, SubSeq(line, f[i].start, i)), start |-> i + 2]
          BY <2>6, <3>1
        <5>3. f[i + 1] = [out |-> Append(SubSeq(parts, 1, k - 1), p), start |-> i + 2]
          BY <5>1, <5>2, <3>2
        <5> QED
          BY <2>7, <3>3, <5>3
      <4> QED
        BY <4>1, <4>2
    <3>5. k + 1 \in 1 .. n + 1
      BY <2>2
    <3>6. k + 1 <= n => (i + 1) + 1 < starts[(k + 1) + 1]
      <4> SUFFICES ASSUME k + 1 <= n PROVE (i + 1) + 1 < starts[(k + 1) + 1]
        OBVIOUS
      <4>1. k + 1 \in 1 .. n
        BY <2>2
      <4>2. Lies(S, line, parts, n, c, starts, k + 1)
        BY <1>3, <4>1
      <4> DEFINE d == starts[(k + 1) + 1]
      <4> DEFINE q == Len(parts[k + 1])
      <4>3. d = b + q + 1 /\ q \in Nat
        BY <4>2 DEF Lies
      <4> HIDE DEF a, b, d, p, q, l
      <4>4. b \in Nat
        BY <2>4
      <4>5. (i + 1) + 1 < d
        BY <2>7, <4>3, <4>4
      <4> QED
        BY <4>5 DEF d
    <3>7. starts[k + 1] <= (i + 1) + 1
      <4> HIDE DEF a, b
      <4>1. b <= (i + 1) + 1
        BY <2>4, <2>7
      <4> QED
        BY <4>1 DEF b
    <3> QED
      BY <3>4, <3>5, <3>6, <3>7
  <2>8. CASE i + 2 # b
    <3> HIDE DEF a, b, p, l
    <3>1. i + 2 < b
      BY <2>4, <2>5, <2>8
    <3>2. (i + 2) - a \in 1 .. Len(p) /\ a + ((i + 2) - a) - 1 = i + 1
      BY <2>4, <2>5, <3>1
    <3>3. i + 1 \in 1 .. l /\ line[i + 1] = p[(i + 2) - a]
      BY <2>4, <3>2
    <3>4. p[(i + 2) - a] # c
      BY <2>2, <3>2 DEF p
    <3>5. f[i + 1] = f[i]
      BY <1>2, <2>6, <3>3, <3>4
    <3>6. starts[k] <= (i + 1) + 1
      <4>1. a <= (i + 1) + 1
        BY <2>4, <2>5
      <4> QED
        BY <4>1 DEF a
    <3>7. (i + 1) + 1 < starts[k + 1]
      <4>1. (i + 1) + 1 < b
        BY <2>4, <3>1
      <4> QED
        BY <4>1 DEF b
    <3>8. Part(i + 1, k)
      BY <1>6, <3>5, <3>6, <3>7
    <3> HIDE DEF Part, n
    <3> QED
      BY <3>8
  <2> QED
    BY <2>7, <2>8
<1> DEFINE T == {i \in Nat : i <= l + 1 => \E k \in 1 .. n + 1 : Part(i, k)}
<1>7. f[l + 1].out = parts
  <2>1. PICK k \in 1 .. n + 1 : Part(l + 1, k)
    <3> HIDE DEF Part, n, l
    <3>1. 0 \in T
      BY <1>5
    <3>2. ASSUME NEW i \in Nat, i \in T PROVE i + 1 \in T
      <4> SUFFICES ASSUME i + 1 <= l + 1 PROVE \E k \in 1 .. n + 1 : Part(i + 1, k)
        OBVIOUS
      <4>1. i <= l + 1
        BY <1>2
      <4> QED
        BY <1>6, <3>2, <4>1
    <3> HIDE DEF T
    <3>3. Nat \subseteq T
      BY <3>1, <3>2, Induction
    <3>4. l + 1 \in T
      BY <1>2, <3>3
    <3> USE DEF T
    <3> QED
      BY <1>2, <3>4
  <2>2. k = n + 1
    <3> SUFFICES ASSUME k \in 1 .. n PROVE FALSE
      BY <1>2
    <3>1. Lies(S, line, parts, n, c, starts, k)
      BY <1>3
    <3> DEFINE b == starts[k + 1]
    <3>2. b \in Nat /\ b <= l + 2
      BY <3>1 DEF Lies
    <3>3. (l + 1) + 1 < b
      BY <2>1
    <3> HIDE DEF b, l
    <3> QED
      BY <1>2, <3>2, <3>3
  <2>3. (n + 1) - 1 = n /\ SubSeq(parts, 1, n) = parts
    BY <1>2, SubSeqFull
  <2>4. f[l + 1] = [out |-> SubSeq(parts, 1, k - 1), start |-> starts[k]]
    BY <2>1
  <2> HIDE DEF n, l
  <2> QED
    BY <2>2, <2>3, <2>4
<1> QED
  BY <1>1, <1>7

(* To split what was joined gives back the parts. *)
LEMMA SplitJoin ==
  ASSUME NEW S, NEW c, c \notin S, NEW parts \in Seq(Seq(S)), parts # <<>>
  PROVE  Split(Join(parts, c), c) = parts
<1> DEFINE U == S \cup {c}
<1>1. parts \in Seq(Seq(U)) /\ c \in U
  <2>1. S \subseteq U /\ Seq(S) \subseteq Seq(U)
    BY SeqMonotonic
  <2> QED
    BY <2>1, SeqMonotonic
<1>2. \A k \in 1 .. Len(parts) : \A i \in 1 .. Len(parts[k]) : parts[k][i] # c
  <2> SUFFICES ASSUME NEW k \in 1 .. Len(parts), NEW i \in 1 .. Len(parts[k])
               PROVE  parts[k][i] # c
    OBVIOUS
  <2>1. parts[k] \in Seq(S)
    BY ElementOfSeq
  <2>2. parts[k][i] \in S
    BY <2>1, ElementOfSeq
  <2> QED
    BY <2>2
<1> HIDE DEF U
<1>3. Join(parts, c) \in Seq(U)
  BY <1>1, JoinSpread
<1>4. PICK starts : Spread(Join(parts, c), parts, Len(parts), c, starts)
  BY <1>1, JoinSpread
<1> QED
  BY <1>1, <1>2, <1>3, <1>4, SplitSpread

(* Characters repeated. *)
LEMMA RepeatedFacts ==
  ASSUME NEW S, NEW c \in S, NEW n \in Nat
  PROVE  Repeated(c, n) \in Seq(S) /\ Len(Repeated(c, n)) = n /\ \A k \in 1 .. n : Repeated(c, n)[k] = c
<1>1. Repeated(c, n) \in [1 .. n -> S]
  BY DEF Repeated
<1>2. Repeated(c, n) \in Seq(S)
  BY <1>1, SeqDef
<1>3. Len(Repeated(c, n)) = n
  BY <1>1, <1>2, LenProperties
<1> QED
  BY <1>2, <1>3 DEF Repeated

(* Where the sequence lies that is padded. *)
Inside(w, S, word, c, a, b) ==
  /\ w \in Seq(S) /\ Len(w) = a + Len(word) + b
  /\ \A i \in 1 .. a + Len(word) + b :
       w[i] = IF i <= a THEN c ELSE IF i <= a + Len(word) THEN word[i - a] ELSE c

LEMMA PaddedFacts ==
  ASSUME NEW S, NEW c \in S, NEW word \in Seq(S), NEW a \in Nat, NEW b \in Nat
  PROVE  Inside(Padded(word, c, a, b), S, word, c, a, b)
<1> DEFINE l == Repeated(c, a)
<1> DEFINE r == Repeated(c, b)
<1> DEFINE m == l \o word
<1> DEFINE w == m \o r
<1>0. Len(word) \in Nat
  BY LenProperties
<1>1. l \in Seq(S) /\ Len(l) = a /\ \A k \in 1 .. a : l[k] = c
  BY RepeatedFacts
<1>2. r \in Seq(S) /\ Len(r) = b /\ \A k \in 1 .. b : r[k] = c
  BY RepeatedFacts
<1>3. Padded(word, c, a, b) = w
  BY DEF Padded
<1> HIDE DEF l, r
<1>4. /\ m \in Seq(S) /\ Len(m) = a + Len(word)
      /\ \A i \in 1 .. a + Len(word) : m[i] = IF i <= a THEN l[i] ELSE word[i - a]
  BY <1>1, ConcatProperties
<1> HIDE DEF m
<1>5. /\ w \in Seq(S) /\ Len(w) = a + Len(word) + b
      /\ \A i \in 1 .. a + Len(word) + b :
           w[i] = IF i <= a + Len(word) THEN m[i] ELSE r[i - (a + Len(word))]
  <2>1. /\ w \in Seq(S) /\ Len(w) = Len(m) + Len(r)
        /\ \A i \in 1 .. Len(m) + Len(r) : w[i] = IF i <= Len(m) THEN m[i] ELSE r[i - Len(m)]
    BY <1>2, <1>4, ConcatProperties
  <2> HIDE DEF w
  <2> QED
    BY <2>1, <1>2, <1>4
<1> HIDE DEF w
<1>6. ASSUME NEW i \in 1 .. a + Len(word) + b
      PROVE  w[i] = IF i <= a THEN c ELSE IF i <= a + Len(word) THEN word[i - a] ELSE c
  <2>1. CASE i <= a
    <3>1. i \in 1 .. a /\ i \in 1 .. a + Len(word) /\ i <= a + Len(word)
      BY <1>0, <2>1
    <3> QED
      BY <1>1, <1>4, <1>5, <2>1, <3>1
  <2>2. CASE a < i /\ i <= a + Len(word)
    <3>1. i \in 1 .. a + Len(word) /\ ~(i <= a)
      BY <1>0, <2>2
    <3> QED
      BY <1>4, <1>5, <2>2, <3>1
  <2>3. CASE a + Len(word) < i
    <3>1. i - (a + Len(word)) \in 1 .. b /\ ~(i <= a) /\ ~(i <= a + Len(word))
      BY <1>0, <2>3
    <3> QED
      BY <1>2, <1>5, <3>1
  <2> QED
    BY <1>0, <2>1, <2>2, <2>3
<1> QED
  BY <1>3, <1>5, <1>6 DEF Inside

LEMMA PaddedSeq ==
  ASSUME NEW S, NEW c \in S, NEW word \in Seq(S), word # <<>>, NEW a \in Nat, NEW b \in Nat
  PROVE  Padded(word, c, a, b) \in Seq(S) \ {<<>>}
<1> DEFINE w == Padded(word, c, a, b)
<1>1. w \in Seq(S) /\ Len(w) = a + Len(word) + b
  <2>1. Inside(w, S, word, c, a, b)
    BY PaddedFacts
  <2> QED
    BY <2>1, Zenon DEF Inside
<1>2. Len(word) \in Nat \ {0}
  BY EmptySeq
<1> HIDE DEF w
<1>3. Len(w) # 0
  BY <1>1, <1>2
<1> QED
  BY <1>1, <1>3, EmptySeq DEF w

(***************************************************************************)
(* Sanitize takes the padding off a sequence, if what is padded does not       *)
(* begin or end with it.                                                     *)
(***************************************************************************)
LEMMA SanitizePadded ==
  ASSUME NEW S, NEW c \in S, NEW word \in Seq(S), word # <<>>, word[1] # c, word[Len(word)] # c,
         NEW a \in Nat, NEW b \in Nat
  PROVE  Sanitize(Padded(word, c, a, b), c) = word
<1> DEFINE w == Padded(word, c, a, b)
<1> DEFINE kept == {k \in DOMAIN w : w[k] # c}
<1> DEFINE n == Len(word)
<1>1. n \in Nat /\ 1 <= n
  BY EmptySeq
<1>2. /\ w \in Seq(S) /\ Len(w) = a + n + b /\ DOMAIN w = 1 .. a + n + b
      /\ \A i \in 1 .. a + n + b : w[i] = IF i <= a THEN c ELSE IF i <= a + n THEN word[i - a] ELSE c
  <2>1. Inside(w, S, word, c, a, b)
    BY PaddedFacts
  <2> HIDE DEF w, n
  <2>2. DOMAIN w = 1 .. Len(w)
    BY <2>1, LenProperties DEF Inside
  <2>3. DOMAIN w = 1 .. a + n + b
    BY <2>1, <2>2 DEF Inside, n
  <2> QED
    BY <2>1, <2>3 DEF Inside, n
<1> HIDE DEF w, n
<1>3. a + 1 \in kept /\ a + n \in kept
  <2>1. /\ a + 1 \in 1 .. a + n + b /\ ~(a + 1 <= a) /\ a + 1 <= a + n /\ (a + 1) - a = 1
        /\ a + n \in 1 .. a + n + b /\ ~(a + n <= a) /\ a + n <= a + n /\ (a + n) - a = n
    BY <1>1
  <2>2. w[a + 1] = word[1] /\ w[a + n] = word[n]
    BY <1>2, <2>1
  <2> QED
    BY <1>2, <2>1, <2>2 DEF n
<1>4. \A k \in kept : a + 1 <= k /\ k <= a + n /\ k \in Int
  <2> TAKE k \in kept
  <2>1. k \in 1 .. a + n + b /\ w[k] # c
    BY <1>2
  <2>2. ~(k <= a) /\ k <= a + n
    BY <1>2, <2>1
  <2> QED
    BY <1>1, <2>1, <2>2
<1> HIDE DEF kept
<1>5. Min(kept) = a + 1
  <2>1. a + 1 \in kept /\ \A y \in kept : a + 1 <= y
    BY <1>3, <1>4
  <2>2. Min(kept) \in kept /\ \A y \in kept : Min(kept) <= y
    BY <2>1 DEF Min
  <2>3. Min(kept) <= a + 1 /\ a + 1 <= Min(kept) /\ Min(kept) \in Int
    BY <1>3, <1>4, <2>2
  <2> QED
    BY <2>3
<1>6. Max(kept) = a + n
  <2>1. a + n \in kept /\ \A y \in kept : a + n >= y
    BY <1>1, <1>3, <1>4
  <2>2. Max(kept) \in kept /\ \A y \in kept : Max(kept) >= y
    BY <2>1 DEF Max
  <2>3. Max(kept) <= a + n /\ Max(kept) >= a + n /\ Max(kept) \in Int
    BY <1>3, <1>4, <2>2
  <2> QED
    BY <1>1, <2>3
<1>7. Sanitize(w, c) = SubSeq(w, a + 1, a + n)
  BY <1>3, <1>5, <1>6 DEF Sanitize, kept
<1>8. SubSeq(w, a + 1, a + n) = word
  <2>1. /\ SubSeq(w, a + 1, a + n) \in Seq(S)
        /\ Len(SubSeq(w, a + 1, a + n)) = IF a + 1 <= a + n THEN (a + n) - (a + 1) + 1 ELSE 0
        /\ \A i \in 1 .. (a + n) - (a + 1) + 1 : SubSeq(w, a + 1, a + n)[i] = w[a + 1 + i - 1]
    <3>1. \A i \in a + 1 .. a + n : w[i] \in S
      <4> TAKE i \in a + 1 .. a + n
      <4>1. i \in 1 .. Len(w)
        BY <1>1, <1>2
      <4> QED
        BY <1>2, <4>1, ElementOfSeq
    <3>2. a + 1 \in Int /\ a + n \in Int
      BY <1>1
    <3> QED
      BY <3>1, <3>2, SubSeqProperties
  <2>2. (a + n) - (a + 1) + 1 = n /\ a + 1 <= a + n
    BY <1>1
  <2>3. Len(SubSeq(w, a + 1, a + n)) = n
    BY <2>1, <2>2
  <2>4. \A i \in 1 .. n : SubSeq(w, a + 1, a + n)[i] = word[i]
    <3> TAKE i \in 1 .. n
    <3>1. /\ a + 1 + i - 1 = a + i /\ a + i \in 1 .. a + n + b /\ ~(a + i <= a) /\ a + i <= a + n
          /\ (a + i) - a = i
      BY <1>1
    <3>2. w[a + i] = word[i]
      BY <1>2, <3>1
    <3> QED
      BY <2>1, <2>2, <3>1, <3>2
  <2> QED
    BY <2>1, <2>3, <2>4, SeqEqual DEF n
<1> QED
  BY <1>7, <1>8 DEF w

(* The ends of what is joined. *)
LEMMA JoinEnds ==
  ASSUME NEW S, NEW parts \in Seq(Seq(S)), parts # <<>>, NEW c \in S,
         parts[1] # <<>>, parts[Len(parts)] # <<>>
  PROVE  LET line == Join(parts, c)
             last == parts[Len(parts)]
         IN line # <<>> /\ line[1] = parts[1][1] /\ line[Len(line)] = last[Len(last)]
<1> DEFINE line == Join(parts, c)
<1> DEFINE n == Len(parts)
<1>1. line \in Seq(S)
  BY JoinSpread
<1>2. PICK starts : Spread(line, parts, n, c, starts)
  BY JoinSpread
<1> HIDE DEF line
<1>3. n \in Nat \ {0} /\ 1 \in 1 .. n /\ n \in 1 .. n
  BY EmptySeq
<1>4. Lies(S, line, parts, n, c, starts, 1) /\ Lies(S, line, parts, n, c, starts, n)
  BY <1>1, <1>2, <1>3, SpreadAt
<1>5. starts[1] = 1 /\ starts[n + 1] = Len(line) + 2
  BY <1>2 DEF Spread
<1>6. line # <<>> /\ line[1] = parts[1][1]
  <2>1. parts[1] \in Seq(S) /\ Len(parts[1]) \in Nat \ {0}
    BY <1>3, ElementOfSeq, EmptySeq
  <2>2. 1 \in 1 .. Len(parts[1]) /\ 1 + 1 - 1 = 1
    BY <2>1
  <2>3. 1 + 1 - 1 \in 1 .. Len(line) /\ line[1 + 1 - 1] = parts[1][1]
    BY <1>4, <1>5, <2>2 DEF Lies
  <2> QED
    BY <1>1, <2>2, <2>3, EmptySeq
<1>7. line[Len(line)] = parts[n][Len(parts[n])]
  <2> DEFINE p == parts[n]
  <2> DEFINE a == starts[n]
  <2> DEFINE b == starts[n + 1]
  <2>1. /\ a \in Nat /\ Len(p) \in Nat /\ b = a + Len(p) + 1
        /\ \A i \in 1 .. Len(p) : line[a + i - 1] = p[i]
    BY <1>4 DEF Lies
  <2>2. p \in Seq(S) /\ p # <<>>
    BY <1>3, ElementOfSeq
  <2>3. Len(p) \in 1 .. Len(p)
    <3> HIDE DEF p
    <3> QED
      BY <2>2, EmptySeq
  <2>4. b = Len(line) + 2 /\ Len(line) \in Nat
    BY <1>1, <1>5, LenProperties
  <2> HIDE DEF p, a, b
  <2>5. Len(line) = a + Len(p) - 1
    BY <2>1, <2>4
  <2>6. line[Len(line)] = p[Len(p)]
    BY <2>1, <2>3, <2>5
  <2> QED
    BY <2>6 DEF p
<1> QED
  BY <1>6, <1>7 DEF line

(* What a file is, and the characters of its cells. *)
Given(table, layout, damage) ==
  IsTable(table) /\ layout \in Layout /\ damage \in Damages \cup {"none"}
  /\ Possible(table, layout, damage)
Digits == {"0", "1", "2", "3", "4", "5", "6", "7", "8", "9"}
TypeOf(damage) ==
  CASE damage = "unknown_type" -> "char"
    [] damage = "unparsed_type" -> "int"
    [] damage = "unassignable_type" -> "std::string_view"
    [] OTHER -> "size_t"
Plain == Names \cup Digits \cup {"size_t", "char", "int", "std::string_view", ".", " "}

LEMMA PlainFacts == "," \notin Plain /\ "\n" \notin Plain /\ " " \in Plain
BY NamesAssumption DEF Plain, Digits

(* The cells of a file. *)
LEMMA NumeralFacts ==
  ASSUME NEW digits \in Seq(0 .. 9)
  PROVE  /\ Numeral(digits) \in Seq(Digits) /\ Len(Numeral(digits)) = Len(digits)
         /\ \A k \in 1 .. Len(digits) : Numeral(digits)[k] = Digit(digits[k])
<1> DEFINE n == Len(digits)
<1>1. n \in Nat /\ DOMAIN digits = 1 .. n
  BY LenProperties
<1>2. \A d \in 0 .. 9 : Digit(d) \in Digits
  BY DEF Digit, Digits
<1>3. \A k \in 1 .. n : digits[k] \in 0 .. 9
  BY ElementOfSeq
<1>4. Numeral(digits) \in [1 .. n -> Digits]
  BY <1>1, <1>2, <1>3 DEF Numeral
<1>5. Numeral(digits) \in Seq(Digits)
  BY <1>1, <1>4, SeqDef
<1>6. Len(Numeral(digits)) = n
  BY <1>1, <1>4, <1>5, LenProperties
<1> QED
  BY <1>1, <1>5, <1>6 DEF Numeral

LEMMA HeaderCellFacts ==
  ASSUME NEW name \in Names, NEW damage \in Damages \cup {"none"}
  PROVE  /\ HeaderCell(name, damage) \in Seq(Plain) \ {<<>>}
         /\ damage = "no_type" => HeaderCell(name, damage) = <<name>>
         /\ damage # "no_type" => HeaderCell(name, damage) = <<name, ".", TypeOf(damage)>>
<1>1. name \in Plain /\ "." \in Plain /\ TypeOf(damage) \in Plain
  BY DEF Plain, TypeOf
<1>2. CASE damage = "no_type"
  BY <1>1, <1>2 DEF HeaderCell
<1>3. CASE damage # "no_type"
  <2>1. HeaderCell(name, damage) = <<name, ".", TypeOf(damage)>>
    BY <1>3 DEF HeaderCell, TypeOf
  <2> QED
    BY <1>1, <1>3, <2>1
<1> QED
  BY <1>2, <1>3

LEMMA HeadersFacts ==
  ASSUME NEW table, NEW layout, NEW damage, Given(table, layout, damage)
  PROVE  /\ Headers(table, layout, damage) \in Seq(Seq(Plain) \ {<<>>})
         /\ Len(Headers(table, layout, damage)) = Len(table.names)
         /\ Headers(table, layout, damage) # <<>>
<1> DEFINE n == Len(table.names)
<1> DEFINE h == Headers(table, layout, damage)
<1>1. table.names \in Seq(Names) /\ n \in Nat \ {0} /\ DOMAIN table.names = 1 .. n
  BY EmptySeq, LenProperties DEF Given, IsTable
<1>2. damage \in Damages \cup {"none"} /\ "none" \in Damages \cup {"none"}
  BY DEF Given
<1>3. \A k \in 1 .. n : table.names[k] \in Names
  BY <1>1, ElementOfSeq
<1>4. 1 \in 1 .. n
  BY <1>1
<1>5. h \in [1 .. n -> Seq(Plain) \ {<<>>}]
  <2> SUFFICES ASSUME NEW k \in 1 .. n
               PROVE  (IF k # layout.column THEN HeaderCell(table.names[k], "none")
                       ELSE HeaderCell(table.names[IF damage = "same_name" THEN 1 ELSE k], damage))
                      \in Seq(Plain) \ {<<>>}
    BY <1>1 DEF Headers
  <2>1. HeaderCell(table.names[k], "none") \in Seq(Plain) \ {<<>>}
    BY <1>2, <1>3, HeaderCellFacts
  <2>2. HeaderCell(table.names[k], damage) \in Seq(Plain) \ {<<>>}
    BY <1>2, <1>3, HeaderCellFacts
  <2>3. HeaderCell(table.names[1], damage) \in Seq(Plain) \ {<<>>}
    BY <1>2, <1>3, <1>4, HeaderCellFacts
  <2> QED
    BY <2>1, <2>2, <2>3
<1> HIDE DEF h
<1>6. h \in Seq(Seq(Plain) \ {<<>>})
  BY <1>1, <1>5, SeqDef
<1>7. Len(h) = n
  BY <1>1, <1>5, <1>6, LenProperties
<1>8. h # <<>>
  BY <1>1, <1>7, EmptySeq
<1> QED
  BY <1>6, <1>7, <1>8 DEF h

LEMMA CellsFacts ==
  ASSUME NEW table, NEW layout, NEW damage, Given(table, layout, damage),
         NEW r \in 1 .. Len(table.rows)
  PROVE  LET cells == Cells(table, layout, damage, r)
             short == damage = "short_row" /\ r = layout.row
         IN /\ cells \in Seq(Seq(Plain) \ {<<>>}) /\ cells # <<>>
            /\ Len(cells) = IF short THEN Len(table.names) - 1 ELSE Len(table.names)
            /\ \A k \in 1 .. Len(cells) : cells[k] = Numeral(table.rows[r][k])
<1> DEFINE n == Len(table.names)
<1> DEFINE all == [k \in DOMAIN table.names |-> Numeral(table.rows[r][k])]
<1> DEFINE cells == Cells(table, layout, damage, r)
<1> DEFINE short == damage = "short_row" /\ r = layout.row
<1>1. table.names \in Seq(Names) /\ n \in Nat \ {0} /\ DOMAIN table.names = 1 .. n
  BY EmptySeq, LenProperties DEF Given, IsTable
<1>2. table.rows \in Seq([DOMAIN table.names -> Seq(0 .. 9) \ {<<>>}])
  BY DEF Given, IsTable
<1>3. table.rows[r] \in [1 .. n -> Seq(0 .. 9) \ {<<>>}]
  BY <1>1, <1>2, ElementOfSeq
<1>4. short => n > 1
  BY DEF Given, Possible
<1>5. all \in [1 .. n -> Seq(Plain) \ {<<>>}]
  <2> SUFFICES ASSUME NEW k \in 1 .. n PROVE Numeral(table.rows[r][k]) \in Seq(Plain) \ {<<>>}
    BY <1>1
  <2> DEFINE digits == table.rows[r][k]
  <2>1. digits \in Seq(0 .. 9) /\ digits # <<>>
    BY <1>3
  <2> HIDE DEF digits
  <2>2. Len(digits) \in Nat \ {0}
    BY <2>1, EmptySeq
  <2>3. Numeral(digits) \in Seq(Digits) /\ Len(Numeral(digits)) = Len(digits)
    BY <2>1, NumeralFacts
  <2>4. Digits \subseteq Plain
    BY DEF Plain
  <2>5. Numeral(digits) \in Seq(Plain)
    BY <2>3, <2>4, SeqMonotonic
  <2>6. Numeral(digits) # <<>>
    BY <2>2, <2>3, EmptySeq
  <2> QED
    BY <2>5, <2>6 DEF digits
<1>a. \A k \in 1 .. n : all[k] = Numeral(table.rows[r][k])
  BY <1>1
<1>b. cells = IF short THEN Front(all) ELSE all
  BY DEF Cells
<1> HIDE DEF all, cells, short
<1>6. all \in Seq(Seq(Plain) \ {<<>>})
  BY <1>1, <1>5, SeqDef
<1>7. Len(all) = n
  BY <1>1, <1>5, <1>6, LenProperties
<1>8. CASE ~short
  <2>1. all # <<>>
    BY <1>1, <1>7, EmptySeq
  <2> QED
    BY <1>8, <2>1, <1>6, <1>7, <1>a, <1>b DEF cells, short
<1>9. CASE short
  <2>1. cells = SubSeq(all, 1, n - 1)
    BY <1>7, <1>9, <1>b DEF Front
  <2>2. \A k \in 1 .. n - 1 : all[k] \in Seq(Plain) \ {<<>>}
    BY <1>1, <1>5
  <2>3. /\ SubSeq(all, 1, n - 1) \in Seq(Seq(Plain) \ {<<>>})
        /\ Len(SubSeq(all, 1, n - 1)) = IF 1 <= n - 1 THEN (n - 1) - 1 + 1 ELSE 0
        /\ \A k \in 1 .. (n - 1) - 1 + 1 : SubSeq(all, 1, n - 1)[k] = all[1 + k - 1]
    <3>1. 1 \in Int /\ n - 1 \in Int
      BY <1>1
    <3> QED
      BY <2>2, <3>1, SubSeqProperties
  <2> HIDE DEF n
  <2>4. Len(cells) = n - 1 /\ n - 1 \in Nat \ {0}
    BY <1>1, <1>4, <1>9, <2>1, <2>3
  <2>5. \A k \in 1 .. n - 1 : cells[k] = Numeral(table.rows[r][k])
    <3> TAKE k \in 1 .. n - 1
    <3>1. k \in 1 .. (n - 1) - 1 + 1 /\ 1 + k - 1 = k /\ k \in 1 .. n
      BY <1>1
    <3> QED
      BY <2>1, <2>3, <3>1, <1>a
  <2>6. cells \in Seq(Seq(Plain) \ {<<>>}) /\ cells # <<>>
    BY <2>1, <2>3, <2>4, EmptySeq
  <2> QED
    BY <1>9, <2>4, <2>5, <2>6 DEF n, cells, short
<1> QED
  BY <1>8, <1>9

(* A line is split into its padded cells. *)
LEMMA LineFacts ==
  ASSUME NEW cells \in Seq(Seq(Plain) \ {<<>>}), cells # <<>>, NEW layout \in Layout
  PROVE  /\ Line(cells, layout) \in Seq(Plain \cup {","}) \ {<<>>}
         /\ Split(Line(cells, layout), ",")
              = [k \in 1 .. Len(cells) |-> Padded(cells[k], " ", layout.before, layout.after)]
<1> DEFINE n == Len(cells)
<1> DEFINE parts == [k \in DOMAIN cells |-> Padded(cells[k], " ", layout.before, layout.after)]
<1> DEFINE U == Plain \cup {","}
<1>1. n \in Nat \ {0} /\ DOMAIN cells = 1 .. n
  BY EmptySeq, LenProperties
<1>2. layout.before \in Nat /\ layout.after \in Nat
  BY DEF Layout
<1>3. ASSUME NEW k \in 1 .. n
      PROVE  Padded(cells[k], " ", layout.before, layout.after) \in Seq(Plain) \ {<<>>}
  <2>1. cells[k] \in Seq(Plain) /\ cells[k] # <<>>
    BY ElementOfSeq
  <2> QED
    BY <1>2, <2>1, PlainFacts, PaddedSeq
<1>4. parts \in [1 .. n -> Seq(Plain) \ {<<>>}]
  BY <1>1, <1>3
<1>5. Line(cells, layout) = Join(parts, ",")
  BY DEF Line
<1> HIDE DEF parts, U, n
<1>6. parts \in Seq(Seq(Plain)) /\ Len(parts) = n /\ parts # <<>>
  <2>1. parts \in Seq(Seq(Plain))
    BY <1>1, <1>4, SeqDef
  <2>2. Len(parts) = n
    BY <1>1, <1>4, <2>1, LenProperties
  <2> QED
    BY <1>1, <2>1, <2>2, EmptySeq
<1>7. parts \in Seq(Seq(U)) /\ "," \in U
  <2>1. Seq(Plain) \subseteq Seq(U)
    BY SeqMonotonic DEF U
  <2> QED
    BY <1>6, <2>1, SeqMonotonic DEF U
<1>8. Join(parts, ",") \in Seq(U) /\ Join(parts, ",") # <<>>
  <2>1. parts[1] # <<>> /\ parts[Len(parts)] # <<>>
    <3>1. 1 \in 1 .. n /\ n \in 1 .. n
      BY <1>1
    <3> QED
      BY <1>4, <1>6, <3>1
  <2> QED
    BY <1>6, <1>7, <2>1, JoinSpread, JoinEnds
<1>9. Split(Join(parts, ","), ",") = parts
  BY <1>6, PlainFacts, SplitJoin
<1>10. parts = [k \in 1 .. Len(cells) |-> Padded(cells[k], " ", layout.before, layout.after)]
  BY <1>1 DEF parts, n
<1> QED
  BY <1>5, <1>8, <1>9, <1>10 DEF U

(* A sequence into which an element was inserted. *)
Inserted(w, S, word, i, e) ==
  /\ w \in Seq(S) /\ Len(w) = Len(word) + 1 /\ w[i] = e
  /\ \A k \in 1 .. i - 1 : w[k] = word[k]
  /\ \A k \in i + 1 .. Len(word) + 1 : w[k] = word[k - 1]

LEMMA InsertFacts ==
  ASSUME NEW S, NEW word \in Seq(S), NEW e \in S, NEW i \in 1 .. Len(word) + 1
  PROVE  Inserted(InsertAt(word, i, e), S, word, i, e)
<1> DEFINE n == Len(word)
<1> DEFINE a == SubSeq(word, 1, i - 1)
<1> DEFINE m == <<e>>
<1> DEFINE b == SubSeq(word, i, n)
<1> DEFINE am == a \o m
<1> DEFINE w == am \o b
<1>1. n \in Nat /\ i \in 1 .. n + 1 /\ i \in Nat
  BY LenProperties
<1>2. InsertAt(word, i, e) = w
  BY DEF InsertAt
<1>3. \A k \in 1 .. n : word[k] \in S
  BY ElementOfSeq
<1> HIDE DEF n
<1>4. a \in Seq(S) /\ Len(a) = i - 1 /\ \A k \in 1 .. i - 1 : a[k] = word[k]
  <2>1. \A k \in 1 .. i - 1 : word[k] \in S
    BY <1>1, <1>3
  <2>2. 1 \in Int /\ i - 1 \in Int
    BY <1>1
  <2>3. /\ a \in Seq(S) /\ Len(a) = IF 1 <= i - 1 THEN (i - 1) - 1 + 1 ELSE 0
        /\ \A k \in 1 .. (i - 1) - 1 + 1 : a[k] = word[1 + k - 1]
    BY <2>1, <2>2, SubSeqProperties
  <2> HIDE DEF a
  <2>4. Len(a) = i - 1
    BY <1>1, <2>3
  <2>5. \A k \in 1 .. i - 1 : k \in 1 .. (i - 1) - 1 + 1 /\ 1 + k - 1 = k
    BY <1>1
  <2> QED
    BY <2>3, <2>4, <2>5
<1>5. b \in Seq(S) /\ Len(b) = n + 1 - i /\ \A k \in 1 .. n + 1 - i : b[k] = word[i + k - 1]
  <2>1. \A k \in i .. n : word[k] \in S
    BY <1>1, <1>3
  <2>2. i \in Int /\ n \in Int
    BY <1>1
  <2>3. /\ b \in Seq(S) /\ Len(b) = IF i <= n THEN n - i + 1 ELSE 0
        /\ \A k \in 1 .. n - i + 1 : b[k] = word[i + k - 1]
    BY <2>1, <2>2, SubSeqProperties
  <2> HIDE DEF b
  <2>4. Len(b) = n + 1 - i
    BY <1>1, <2>3
  <2>5. \A k \in 1 .. n + 1 - i : k \in 1 .. n - i + 1
    BY <1>1
  <2> QED
    BY <2>3, <2>4, <2>5
<1>6. m \in Seq(S) /\ Len(m) = 1 /\ m[1] = e
  OBVIOUS
<1> HIDE DEF a, b, m
<1>7. am \in Seq(S) /\ Len(am) = i /\ am[i] = e /\ \A k \in 1 .. i - 1 : am[k] = word[k]
  <2>1. /\ am \in Seq(S) /\ Len(am) = Len(a) + Len(m)
        /\ \A k \in 1 .. Len(a) + Len(m) : am[k] = IF k <= Len(a) THEN a[k] ELSE m[k - Len(a)]
    BY <1>4, <1>6, ConcatProperties
  <2> HIDE DEF am
  <2>2. Len(a) + Len(m) = i
    BY <1>1, <1>4, <1>6
  <2>3. am[i] = e
    <3>1. i \in 1 .. i /\ ~(i <= Len(a)) /\ i - Len(a) = 1
      BY <1>1, <1>4
    <3>2. am[i] = m[i - Len(a)]
      BY <2>1, <2>2, <3>1
    <3> QED
      BY <1>6, <3>1, <3>2
  <2>4. \A k \in 1 .. i - 1 : k \in 1 .. i /\ k <= Len(a)
    BY <1>1, <1>4
  <2>5. \A k \in 1 .. i - 1 : am[k] = word[k]
    BY <1>4, <2>1, <2>2, <2>4
  <2> QED
    BY <2>1, <2>2, <2>3, <2>5
<1> HIDE DEF am
<1>8. /\ w \in Seq(S) /\ Len(w) = Len(am) + Len(b)
      /\ \A k \in 1 .. Len(am) + Len(b) : w[k] = IF k <= Len(am) THEN am[k] ELSE b[k - Len(am)]
  BY <1>5, <1>7, ConcatProperties
<1> HIDE DEF w
<1>9. Len(am) + Len(b) = n + 1
  BY <1>1, <1>5, <1>7
<1>10. \A k \in 1 .. i : w[k] = am[k]
  <2>1. \A k \in 1 .. i : k \in 1 .. n + 1 /\ k <= Len(am)
    BY <1>1, <1>7
  <2> QED
    BY <1>8, <1>9, <2>1
<1>11. \A k \in i + 1 .. n + 1 : w[k] = word[k - 1]
  <2> TAKE k \in i + 1 .. n + 1
  <2>1. /\ k \in 1 .. n + 1 /\ ~(k <= Len(am)) /\ k - Len(am) = k - i
        /\ k - i \in 1 .. n + 1 - i /\ i + (k - i) - 1 = k - 1
    BY <1>1, <1>7
  <2>2. w[k] = b[k - i]
    BY <1>8, <1>9, <2>1
  <2> QED
    BY <1>5, <2>1, <2>2
<1>12. i \in 1 .. i /\ \A k \in 1 .. i - 1 : k \in 1 .. i
  BY <1>1
<1>13. w[i] = e /\ \A k \in 1 .. i - 1 : w[k] = word[k]
  BY <1>7, <1>10, <1>12
<1> QED
  BY <1>2, <1>8, <1>9, <1>11, <1>13 DEF Inserted, n

(* The lines of a file, of which a damage may have made one empty. *)
Blank(layout, damage, k) == damage = "blank_line" /\ k = layout.row + 1
Shift(layout, damage, k) == IF damage = "blank_line" /\ k > layout.row + 1 THEN k - 1 ELSE k

LinesAre(text, table, layout, damage) ==
  /\ text \in Seq(Seq(Plain \cup {","})) /\ text # <<>>
  /\ Len(text) = 1 + Len(table.rows) + (IF damage = "blank_line" THEN 1 ELSE 0)
  /\ text[1] = Line(Headers(table, layout, damage), layout)
  /\ text[1] # <<>> /\ text[Len(text)] # <<>>
  /\ \A k \in 2 .. Len(text) :
       IF Blank(layout, damage, k) THEN text[k] = <<>>
       ELSE LET r == Shift(layout, damage, k) - 1
            IN r \in 1 .. Len(table.rows) /\ text[k] = Line(Cells(table, layout, damage, r), layout)

LEMMA LinesFacts ==
  ASSUME NEW table, NEW layout, NEW damage, Given(table, layout, damage)
  PROVE  LinesAre(Lines(table, layout, damage), table, layout, damage)
<1> DEFINE U == Plain \cup {","}
<1> DEFINE rows == Len(table.rows)
<1> DEFINE text == Lines(table, layout, damage)
<1> DEFINE first == Line(Headers(table, layout, damage), layout)
<1> DEFINE body == [r \in DOMAIN table.rows |-> Line(Cells(table, layout, damage, r), layout)]
<1> DEFINE all == <<first>> \o body
<1> DEFINE full == Seq(U) \ {<<>>}
<1>1. rows \in Nat /\ DOMAIN table.rows = 1 .. rows /\ layout \in Layout
  BY LenProperties DEF Given, IsTable
<1>2. first \in full
  <2>1. Headers(table, layout, damage) \in Seq(Seq(Plain) \ {<<>>})
        /\ Headers(table, layout, damage) # <<>>
    BY HeadersFacts
  <2> QED
    BY <1>1, <2>1, LineFacts
<1>3. ASSUME NEW r \in 1 .. rows PROVE Line(Cells(table, layout, damage, r), layout) \in full
  <2>1. Cells(table, layout, damage, r) \in Seq(Seq(Plain) \ {<<>>})
        /\ Cells(table, layout, damage, r) # <<>>
    BY CellsFacts
  <2> QED
    BY <1>1, <2>1, LineFacts
<1>7. full \subseteq Seq(U)
  OBVIOUS
<1>c. \A f \in full : f # <<>>
  OBVIOUS
<1> HIDE DEF full, first, rows, U
<1>4. /\ body \in Seq(full) /\ Len(body) = rows
      /\ \A r \in 1 .. rows : body[r] = Line(Cells(table, layout, damage, r), layout)
  <2>1. body \in [1 .. rows -> full] /\ \A r \in 1 .. rows : body[r] = Line(Cells(table, layout, damage, r), layout)
    BY <1>1, <1>3
  <2> HIDE DEF body
  <2>2. body \in Seq(full)
    BY <1>1, <2>1, SeqDef
  <2> QED
    BY <1>1, <2>1, <2>2, LenProperties
<1> HIDE DEF body
<1>5. /\ all \in Seq(full) /\ Len(all) = rows + 1 /\ all[1] = first
      /\ \A k \in 2 .. rows + 1 : all[k] = body[k - 1]
  <2>1. <<first>> \in Seq(full) /\ Len(<<first>>) = 1 /\ <<first>>[1] = first
    BY <1>2
  <2> DEFINE h == <<first>>
  <2>2. h \in Seq(full) /\ Len(h) = 1 /\ h[1] = first /\ all = h \o body
    BY <2>1
  <2> HIDE DEF h, all
  <2>3. /\ all \in Seq(full) /\ Len(all) = Len(h) + Len(body)
        /\ \A i \in 1 .. Len(h) + Len(body) : all[i] = IF i <= Len(h) THEN h[i] ELSE body[i - Len(h)]
    BY <1>4, <2>2, ConcatProperties
  <2>4. Len(h) + Len(body) = rows + 1 /\ 1 \in 1 .. rows + 1 /\ \A k \in 2 .. rows + 1 : k \in 1 .. rows + 1 /\ ~(k <= 1)
    BY <1>1, <1>4, <2>2
  <2>5. all[1] = first
    BY <2>2, <2>3, <2>4
  <2>6. \A k \in 2 .. rows + 1 : all[k] = body[k - 1]
    BY <2>2, <2>3, <2>4
  <2> QED
    BY <2>3, <2>4, <2>5, <2>6
<1>6. text = IF damage = "blank_line" THEN InsertAt(all, layout.row + 1, <<>>) ELSE all
  BY DEF Lines, first, body
<1> HIDE DEF all, text
<1>8. \A k \in 1 .. rows + 1 : all[k] \in full /\ all[k] # <<>> /\ all[k] \in Seq(U)
  <2>1. \A k \in 1 .. rows + 1 : all[k] \in full
    BY <1>5, ElementOfSeq
  <2> QED
    BY <1>7, <1>c, <2>1
<1>9. \A k \in 2 .. rows + 1 : /\ k - 1 \in 1 .. rows
                               /\ all[k] = Line(Cells(table, layout, damage, k - 1), layout)
  BY <1>1, <1>4, <1>5
<1>10. CASE damage # "blank_line"
  <2>1. text = all
    BY <1>6, <1>10
  <2>2. all \in Seq(Seq(U)) /\ all # <<>>
    BY <1>1, <1>5, <1>7, SeqMonotonic, EmptySeq
  <2>3. all[1] # <<>> /\ all[Len(all)] # <<>>
    <3>1. 1 \in 1 .. rows + 1 /\ rows + 1 \in 1 .. rows + 1
      BY <1>1
    <3> QED
      BY <1>5, <1>8, <3>1
  <2>4. Len(all) = 1 + rows + 0
    BY <1>1, <1>5
  <2>5. \A k \in 2 .. Len(all) : /\ ~Blank(layout, damage, k) /\ Shift(layout, damage, k) = k
                                 /\ k - 1 \in 1 .. rows
                                 /\ all[k] = Line(Cells(table, layout, damage, k - 1), layout)
    BY <1>5, <1>9, <1>10 DEF Blank, Shift
  <2>6. \A k \in 2 .. Len(all) :
          IF Blank(layout, damage, k) THEN all[k] = <<>>
          ELSE /\ Shift(layout, damage, k) - 1 \in 1 .. rows
               /\ all[k] = Line(Cells(table, layout, damage, Shift(layout, damage, k) - 1), layout)
    BY <2>5
  <2> QED
    BY <1>5, <1>10, <2>1, <2>2, <2>3, <2>4, <2>6 DEF text, first, U, rows, LinesAre
<1>11. CASE damage = "blank_line"
  <2> DEFINE row == layout.row
  <2>1. row \in 1 .. rows /\ row \in Nat
    BY <1>1, <1>11 DEF Given, Possible, Layout
  <2>2. text = InsertAt(all, row + 1, <<>>)
    BY <1>6, <1>11
  <2> HIDE DEF row
  <2>3. all \in Seq(Seq(U)) /\ <<>> \in Seq(U) /\ row + 1 \in 1 .. Len(all) + 1
    <3>1. all \in Seq(Seq(U)) /\ <<>> \in Seq(U)
      BY <1>5, <1>7, SeqMonotonic, EmptySeq
    <3>2. row + 1 \in 1 .. Len(all) + 1
      BY <1>1, <1>5, <2>1
    <3> QED
      BY <3>1, <3>2
  <2>4. Inserted(text, Seq(U), all, row + 1, <<>>)
    BY <2>2, <2>3, InsertFacts
  <2>5. /\ text \in Seq(Seq(U)) /\ Len(text) = Len(all) + 1 /\ text[row + 1] = <<>>
        /\ \A k \in 1 .. (row + 1) - 1 : text[k] = all[k]
        /\ \A k \in (row + 1) + 1 .. Len(all) + 1 : text[k] = all[k - 1]
    BY <2>4, Zenon DEF Inserted
  <2>6. (row + 1) - 1 = row /\ (row + 1) + 1 = row + 2 /\ Len(all) + 1 = rows + 2
    BY <1>1, <1>5, <2>1
  <2>7. /\ text \in Seq(Seq(U)) /\ Len(text) = rows + 2
        /\ \A k \in 1 .. row : text[k] = all[k]
        /\ text[row + 1] = <<>>
        /\ \A k \in row + 2 .. rows + 2 : text[k] = all[k - 1]
    BY <2>5, <2>6
  <2>8. text # <<>> /\ text[1] = first /\ text[1] # <<>> /\ text[Len(text)] # <<>>
    <3>1. 1 \in 1 .. row /\ 1 \in 1 .. rows + 1
      BY <2>1, <1>1
    <3>2. rows + 2 \in row + 2 .. rows + 2 /\ (rows + 2) - 1 = rows + 1 /\ rows + 1 \in 1 .. rows + 1
      BY <2>1, <1>1
    <3>3. text[1] = all[1]
      BY <2>7, <3>1
    <3>4. text[Len(text)] = all[rows + 1]
      BY <2>7, <3>2
    <3>5. text # <<>>
      BY <1>1, <2>7, EmptySeq
    <3> QED
      BY <1>5, <1>8, <3>1, <3>2, <3>3, <3>4, <3>5
  <2>9. Len(text) = 1 + rows + 1
    BY <1>1, <2>7
  <2>10. ASSUME NEW k \in 2 .. Len(text)
         PROVE  IF Blank(layout, damage, k) THEN text[k] = <<>>
                ELSE /\ Shift(layout, damage, k) - 1 \in 1 .. rows
                     /\ text[k] = Line(Cells(table, layout, damage, Shift(layout, damage, k) - 1), layout)
    <3>1. CASE k = row + 1
      <4>1. Blank(layout, damage, k)
        BY <1>11, <3>1 DEF Blank, row
      <4> QED
        BY <2>7, <3>1, <4>1
    <3>2. CASE k < row + 1
      <4>1. ~Blank(layout, damage, k) /\ Shift(layout, damage, k) = k
        BY <2>1, <3>2 DEF Blank, Shift, row
      <4>2. k \in 1 .. row /\ k \in 2 .. rows + 1
        BY <1>1, <2>1, <3>2
      <4> QED
        BY <1>9, <2>7, <4>1, <4>2
    <3>3. CASE row + 1 < k
      <4>1. ~Blank(layout, damage, k) /\ Shift(layout, damage, k) = k - 1
        BY <1>11, <2>1, <3>3 DEF Blank, Shift, row
      <4>2. k \in row + 2 .. rows + 2 /\ k - 1 \in 2 .. rows + 1
        BY <1>1, <2>1, <2>7, <3>3
      <4> QED
        BY <1>9, <2>7, <4>1, <4>2
    <3> QED
      BY <2>1, <3>1, <3>2, <3>3
  <2> QED
    BY <1>11, <2>7, <2>8, <2>9, <2>10 DEF text, first, U, rows, LinesAre
<1> QED
  BY <1>10, <1>11

(* The reader has the lines that were written, whatever empty ones surround them. *)
LEMMA LinesRead ==
  ASSUME NEW table, NEW layout, NEW damage, Given(table, layout, damage)
  PROVE  Split(Sanitize(Text(table, layout, damage), "\n"), "\n") = Lines(table, layout, damage)
<1> DEFINE parts == Lines(table, layout, damage)
<1> DEFINE U == Plain \cup {","}
<1> DEFINE V == U \cup {"\n"}
<1>1. /\ parts \in Seq(Seq(U)) /\ parts # <<>> /\ parts[1] # <<>> /\ parts[Len(parts)] # <<>>
  <2>1. LinesAre(parts, table, layout, damage)
    BY LinesFacts
  <2> QED
    BY <2>1, Zenon DEF LinesAre
<1>2. "\n" \notin U /\ "\n" \in V
  BY PlainFacts
<1>3. layout.first \in Nat /\ layout.last \in Nat
  BY DEF Given, Layout
<1>4. parts \in Seq(Seq(V))
  <2>1. Seq(U) \subseteq Seq(V)
    BY SeqMonotonic
  <2> QED
    BY <1>1, <2>1, SeqMonotonic
<1> HIDE DEF parts, U, V
<1> DEFINE line == Join(parts, "\n")
<1> DEFINE last == parts[Len(parts)]
<1>5. Len(parts) \in Nat \ {0}
  BY <1>1, EmptySeq
<1>6. parts[1] \in Seq(U) /\ last \in Seq(U) /\ last # <<>>
  <2>1. 1 \in 1 .. Len(parts) /\ Len(parts) \in 1 .. Len(parts)
    BY <1>5
  <2> QED
    BY <1>1, <2>1, ElementOfSeq
<1>7. line \in Seq(V) /\ line # <<>> /\ line[1] = parts[1][1] /\ line[Len(line)] = last[Len(last)]
  BY <1>1, <1>2, <1>4, JoinSpread, JoinEnds
<1>8. line[1] # "\n" /\ line[Len(line)] # "\n"
  <2> HIDE DEF last
  <2>1. Len(parts[1]) \in Nat \ {0} /\ Len(last) \in Nat \ {0}
    BY <1>1, <1>6, EmptySeq
  <2>2. 1 \in 1 .. Len(parts[1]) /\ Len(last) \in 1 .. Len(last)
    BY <2>1
  <2>3. parts[1][1] \in U /\ last[Len(last)] \in U
    BY <1>6, <2>2, ElementOfSeq
  <2> QED
    BY <1>2, <1>7, <2>3
<1> HIDE DEF line, last
<1>9. Sanitize(Padded(line, "\n", layout.first, layout.last), "\n") = line
  BY <1>2, <1>3, <1>7, <1>8, SanitizePadded
<1>10. Split(line, "\n") = parts
  BY <1>1, <1>2, SplitJoin DEF line
<1>11. Text(table, layout, damage) = Padded(line, "\n", layout.first, layout.last)
  BY DEF Text, line, parts
<1> QED
  BY <1>9, <1>10, <1>11 DEF parts

(* Sequences of one, two and three. *)
ThreeOf(x, y, z) == <<x, y, z>> = (<<x>> \o <<y>>) \o <<z>>

LEMMA Few ==
  ASSUME NEW S, NEW x \in S, NEW y \in S, NEW z \in S
  PROVE  /\ <<x>> \in Seq(S) /\ <<x>> # <<>> /\ Len(<<x>>) = 1 /\ <<x>>[1] = x
         /\ <<x, y>> \in Seq(S) /\ <<x, y>> # <<>> /\ Len(<<x, y>>) = 2
         /\ <<x, y>>[1] = x /\ <<x, y>>[2] = y
         /\ ThreeOf(x, y, z)
<1>1. /\ <<x>> \in Seq(S) /\ <<x>> # <<>> /\ Len(<<x>>) = 1 /\ <<x>>[1] = x
      /\ <<y>> \in Seq(S) /\ Len(<<y>>) = 1 /\ <<y>>[1] = y
      /\ <<z>> \in Seq(S) /\ Len(<<z>>) = 1 /\ <<z>>[1] = z
  OBVIOUS
<1>2. /\ <<x, y>> \in Seq(S) /\ <<x, y>> # <<>> /\ Len(<<x, y>>) = 2
      /\ <<x, y>>[1] = x /\ <<x, y>>[2] = y
  OBVIOUS
<1>3. <<x, y, z>> = (<<x>> \o <<y>>) \o <<z>>
  <2> DEFINE p == <<x>>
  <2> DEFINE q == <<y>>
  <2> DEFINE r == <<z>>
  <2> DEFINE w == <<x, y, z>>
  <2>1. w \in Seq(S) /\ Len(w) = 3 /\ w[1] = x /\ w[2] = y /\ w[3] = z
    OBVIOUS
  <2>2. /\ p \in Seq(S) /\ Len(p) = 1 /\ p[1] = x
        /\ q \in Seq(S) /\ Len(q) = 1 /\ q[1] = y
        /\ r \in Seq(S) /\ Len(r) = 1 /\ r[1] = z
    BY <1>1
  <2> HIDE DEF p, q, r, w
  <2>3. /\ p \o q \in Seq(S) /\ Len(p \o q) = Len(p) + Len(q)
        /\ \A k \in 1 .. Len(p) + Len(q) : (p \o q)[k] = IF k <= Len(p) THEN p[k] ELSE q[k - Len(p)]
    BY <2>2, ConcatProperties
  <2> DEFINE pq == p \o q
  <2>4. pq \in Seq(S) /\ Len(pq) = 2 /\ pq[1] = x /\ pq[2] = y
    BY <2>2, <2>3
  <2> HIDE DEF pq
  <2>5. /\ pq \o r \in Seq(S) /\ Len(pq \o r) = Len(pq) + Len(r)
        /\ \A k \in 1 .. Len(pq) + Len(r) : (pq \o r)[k] = IF k <= Len(pq) THEN pq[k] ELSE r[k - Len(pq)]
    BY <2>2, <2>4, ConcatProperties
  <2> DEFINE v == pq \o r
  <2>6. v \in Seq(S) /\ Len(v) = 3 /\ v[1] = x /\ v[2] = y /\ v[3] = z
    BY <2>2, <2>4, <2>5
  <2> HIDE DEF v
  <2>7. \A k \in 1 .. 3 : w[k] = v[k]
    BY <2>1, <2>6
  <2>8. w = v
    BY <2>1, <2>6, <2>7, SeqEqual
  <2> QED
    BY <2>8 DEF w, v, pq, p, q, r
<1>4. ThreeOf(x, y, z)
  BY <1>3, Zenon DEF ThreeOf
<1> QED
  BY <1>1, <1>2, <1>4

(* How the parts of a padded pair are joined does not matter. *)
Associate(word, t, u) == (word \o t) \o u = word \o (t \o u)
AssociateFive(r, n, d, t, u) == (r \o ((n \o d) \o t)) \o u = ((r \o n) \o d) \o (t \o u)

LEMMA ThreeParts ==
  ASSUME NEW S, NEW word \in Seq(S), NEW t \in Seq(S), NEW u \in Seq(S)
  PROVE  Associate(word, t, u)
<1>1. (word \o t) \o u = word \o (t \o u)
  BY ConcatAssociative, SMT
<1> QED
  BY <1>1 DEF Associate

LEMMA FiveParts ==
  ASSUME NEW S, NEW r \in Seq(S), NEW n \in Seq(S), NEW d \in Seq(S), NEW t \in Seq(S),
         NEW u \in Seq(S)
  PROVE  AssociateFive(r, n, d, t, u)
<1> DEFINE nd == n \o d
<1> DEFINE rn == r \o n
<1> DEFINE rnd == rn \o d
<1>1. nd \in Seq(S) /\ rn \in Seq(S)
  BY ConcatProperties
<1> HIDE DEF nd, rn
<1>2. rnd \in Seq(S)
  BY <1>1, ConcatProperties
<1> HIDE DEF rnd
<1>3. Associate(r, n, d) /\ Associate(r, nd, t) /\ Associate(rnd, t, u)
  BY <1>1, <1>2, ThreeParts
<1>4. rnd = r \o nd
  BY <1>3, Zenon DEF Associate, rnd, rn, nd
<1>5. (r \o nd) \o t = r \o (nd \o t) /\ (rnd \o t) \o u = rnd \o (t \o u)
  BY <1>3, Zenon DEF Associate
<1>6. (r \o (nd \o t)) \o u = rnd \o (t \o u)
  BY <1>4, <1>5, Zenon
<1> QED
  BY <1>6, Zenon DEF AssociateFive, nd, rnd, rn

(* Joins of one and of two. *)
LEMMA JoinFew ==
  ASSUME NEW S, NEW c \in S, NEW p \in Seq(S), NEW q \in Seq(S)
  PROVE  Join(<<p>>, c) = p /\ Join(<<p, q>>, c) = p \o <<c>> \o q
<1>1. Join(<<p>>, c) = p
  <2> DEFINE parts == <<p>>
  <2>1. parts \in Seq(Seq(S)) /\ Len(parts) = 1 /\ parts[1] = p
    OBVIOUS
  <2> HIDE DEF parts
  <2>2. PICK f : JoinRounds(f, parts, c) /\ Join(parts, c) = f[Len(parts)]
    BY <2>1, JoinLoop
  <2>3. f[1] = parts[1]
    BY <2>1, <2>2 DEF JoinRounds
  <2> QED
    BY <2>1, <2>2, <2>3 DEF parts
<1>2. Join(<<p, q>>, c) = p \o <<c>> \o q
  <2> DEFINE parts == <<p, q>>
  <2>1. parts \in Seq(Seq(S)) /\ Len(parts) = 2 /\ parts[1] = p /\ parts[2] = q
    OBVIOUS
  <2> HIDE DEF parts
  <2>2. PICK f : JoinRounds(f, parts, c) /\ Join(parts, c) = f[Len(parts)]
    BY <2>1, JoinLoop
  <2>3. f[1] = parts[1] /\ f[2] = f[2 - 1] \o <<c>> \o parts[2]
    <3>1. 1 \in 1 .. Len(parts) /\ 2 \in 1 .. Len(parts) /\ 2 # 1
      BY <2>1
    <3> QED
      BY <2>2, <3>1 DEF JoinRounds
  <2>4. 2 - 1 = 1
    OBVIOUS
  <2> QED
    BY <2>1, <2>2, <2>3, <2>4 DEF parts
<1> QED
  BY <1>1, <1>2

LEMMA RepeatedNone ==
  ASSUME NEW S, NEW c \in S
  PROVE  Repeated(c, 0) = <<>>
<1>1. Repeated(c, 0) \in Seq(S) /\ Len(Repeated(c, 0)) = 0
  BY RepeatedFacts
<1> QED
  BY <1>1, EmptySeq

(* A header cell that is a name, a point and a type is read as that. *)
ReadAs(pair, name, type) ==
  Len(pair) = 2 /\ MemberName(pair) = <<name>> /\ TypeName(pair) = <<type>>

LEMMA PairRead ==
  ASSUME NEW name \in Names, NEW type \in Plain \ {".", " "}, NEW b \in Nat, NEW a \in Nat
  PROVE  ReadAs(Split(Padded(<<name, ".", type>>, " ", b, a), "."), name, type)
<1> DEFINE M == Plain \ {"."}
<1> DEFINE R == Repeated(" ", b)
<1> DEFINE T == Repeated(" ", a)
<1> DEFINE p == R \o <<name>>
<1> DEFINE q == <<type>> \o T
<1>1. name \in M /\ type \in M /\ " " \in M /\ "." \notin M /\ name # " " /\ "." \in Plain
  BY NamesAssumption DEF Plain
<1>2. M \subseteq Plain
  OBVIOUS
<1> HIDE DEF M
<1>3. R \in Seq(M) /\ T \in Seq(M)
  BY <1>1, RepeatedFacts
<1>4. R \in Seq(Plain) /\ T \in Seq(Plain)
  BY <1>2, <1>3, SeqMonotonic
<1> HIDE DEF R, T
<1>5. <<name>> \in Seq(M) /\ <<type>> \in Seq(M)
  BY <1>1, Few
<1>6. p \in Seq(M) /\ q \in Seq(M)
  BY <1>3, <1>5, ConcatProperties
<1>7. <<name>> \in Seq(Plain) /\ <<type>> \in Seq(Plain) /\ <<".">> \in Seq(Plain)
  <2>1. name \in Plain /\ type \in Plain /\ "." \in Plain
    BY <1>1, <1>2
  <2> QED
    BY <2>1, Few
<1>8. Padded(<<name, ".", type>>, " ", b, a) = p \o <<".">> \o q
  <2> DEFINE n == <<name>>
  <2> DEFINE d == <<".">>
  <2> DEFINE t == <<type>>
  <2>1. <<name, ".", type>> = (n \o d) \o t
    <3>1. name \in Plain /\ type \in Plain /\ "." \in Plain
      BY <1>1, <1>2
    <3>2. ThreeOf(name, ".", type)
      BY <3>1, Few
    <3> QED
      BY <3>2, Zenon DEF ThreeOf
  <2>2. Padded(<<name, ".", type>>, " ", b, a) = (R \o ((n \o d) \o t)) \o T
    BY <2>1 DEF Padded, R, T
  <2>3. n \in Seq(Plain) /\ d \in Seq(Plain) /\ t \in Seq(Plain)
    BY <1>7
  <2>4. p = R \o n /\ q = t \o T
    OBVIOUS
  <2> HIDE DEF n, d, t, p, q
  <2>5. (R \o ((n \o d) \o t)) \o T = ((R \o n) \o d) \o (t \o T)
    <3>1. AssociateFive(R, n, d, t, T)
      BY <1>4, <2>3, FiveParts
    <3> QED
      BY <3>1, Zenon DEF AssociateFive
  <2> QED
    BY <2>2, <2>4, <2>5 DEF d
<1>9. Padded(<<name, ".", type>>, " ", b, a) = Join(<<p, q>>, ".")
  <2>1. p \in Seq(Plain) /\ q \in Seq(Plain)
    BY <1>2, <1>6, SeqMonotonic
  <2> HIDE DEF p, q
  <2>2. Join(<<p, q>>, ".") = p \o <<".">> \o q
    BY <1>1, <2>1, JoinFew
  <2> QED
    BY <1>8, <2>2
<1>10. Split(Join(<<p, q>>, "."), ".") = <<p, q>>
  <2> DEFINE parts == <<p, q>>
  <2>1. parts \in Seq(Seq(M)) /\ parts # <<>>
    <3> HIDE DEF p, q
    <3> QED
      BY <1>6, Few
  <2> HIDE DEF parts
  <2>2. Split(Join(parts, "."), ".") = parts
    BY <1>1, <2>1, SplitJoin
  <2> QED
    BY <2>2 DEF parts
<1>11. Sanitize(p, " ") = <<name>>
  <2>1. p = Padded(<<name>>, " ", b, 0)
    <3>1. Repeated(" ", 0) = <<>>
      BY <1>1, RepeatedNone
    <3>2. p \o <<>> = p
      BY <1>6, ConcatEmptySeq
    <3> QED
      BY <3>1, <3>2 DEF Padded, R
  <2> DEFINE n == <<name>>
  <2>2. n \in Seq(Plain) /\ n # <<>> /\ n[1] # " " /\ n[Len(n)] # " "
    BY <1>1, <1>7
  <2> HIDE DEF n, p
  <2>3. Sanitize(Padded(n, " ", b, 0), " ") = n
    BY <2>2, PlainFacts, SanitizePadded
  <2> QED
    BY <2>1, <2>3 DEF n
<1>12. Sanitize(q, " ") = <<type>>
  <2>1. q = Padded(<<type>>, " ", 0, a)
    <3>1. Repeated(" ", 0) = <<>>
      BY <1>1, RepeatedNone
    <3>2. <<>> \o <<type>> = <<type>>
      BY <1>7, ConcatEmptySeq
    <3> QED
      BY <3>1, <3>2 DEF Padded, T
  <2> DEFINE n == <<type>>
  <2>2. n \in Seq(Plain) /\ n # <<>> /\ n[1] # " " /\ n[Len(n)] # " "
    BY <1>7
  <2> HIDE DEF n, q
  <2>3. Sanitize(Padded(n, " ", 0, a), " ") = n
    BY <2>2, PlainFacts, SanitizePadded
  <2> QED
    BY <2>1, <2>3 DEF n
<1> HIDE DEF p, q
<1>13. Len(<<p, q>>) = 2 /\ <<p, q>>[1] = p /\ <<p, q>>[2] = q
  OBVIOUS
<1> QED
  BY <1>9, <1>10, <1>11, <1>12, <1>13 DEF ReadAs, MemberName, TypeName

(* One that is but a name is not a pair. *)
LEMMA NameAlone ==
  ASSUME NEW name \in Names, NEW b \in Nat, NEW a \in Nat
  PROVE  Len(Split(Padded(<<name>>, " ", b, a), ".")) = 1
<1> DEFINE M == Plain \ {"."}
<1> DEFINE w == Padded(<<name>>, " ", b, a)
<1> DEFINE parts == <<w>>
<1>1. name \in M /\ " " \in M /\ "." \notin M /\ "." \in Plain
  BY NamesAssumption DEF Plain
<1>2. M \subseteq Plain
  OBVIOUS
<1> HIDE DEF M
<1>3. <<name>> \in Seq(M) /\ <<name>> # <<>>
  BY <1>1, Few
<1>4. w \in Seq(M)
  BY <1>1, <1>3, PaddedSeq
<1> HIDE DEF w
<1>5. parts \in Seq(Seq(M)) /\ parts # <<>> /\ Len(parts) = 1
  BY <1>4
<1>6. w \in Seq(Plain)
  BY <1>2, <1>4, SeqMonotonic
<1>7. Join(parts, ".") = w
  BY <1>1, <1>6, JoinFew
<1> HIDE DEF parts
<1>8. Split(w, ".") = parts
  BY <1>1, <1>5, <1>7, SplitJoin
<1> QED
  BY <1>5, <1>8 DEF w

(* A remainder may be taken before one more digit is, or after. *)
LEMMA ModTimes ==
  ASSUME NEW word \in Nat \ {0}, NEW a \in Int, NEW b \in Int
  PROVE  ((a % word) * 10 + b) % word = (10 * a + b) % word
<1> DEFINE i == a \div word
<1> DEFINE r == a % word
<1> DEFINE x == r * 10 + b
<1> DEFINE j == x \div word
<1> DEFINE u == x % word
<1>1. i \in Int /\ a = word * i + r /\ r \in 0 .. word - 1
  BY DivMod, ModRange
<1> HIDE DEF i, r
<1>2. x \in Int
  BY <1>1
<1>3. j \in Int /\ x = word * j + u /\ u \in 0 .. word - 1
  <2> HIDE DEF x
  <2> QED
    BY <1>2, DivMod, ModRange
<1> HIDE DEF j, u
<1>4. word * i \in Int /\ word * j \in Int /\ r \in Int /\ u \in Int
  BY <1>1, <1>3
<1>5. word * (10 * i + j) = 10 * (word * i) + word * j
  BY <1>1, <1>3, SMT
<1>6. 10 * a + b = word * (10 * i + j) + u
  <2> DEFINE p == word * i
  <2> DEFINE q == word * j
  <2>1. /\ p \in Int /\ q \in Int /\ a = p + r /\ r * 10 + b = q + u
        /\ word * (10 * i + j) = 10 * p + q
    BY <1>1, <1>3, <1>4, <1>5
  <2> HIDE DEF p, q
  <2> QED
    BY <1>4, <2>1
<1>7. 10 * a + b \in Int /\ 10 * i + j \in Int
  BY <1>1, <1>3
<1>8. (10 * a + b) % word = u
  BY <1>3, <1>6, <1>7, ModUnique
<1> QED
  BY <1>8 DEF u, r

(* The characters of the digits. *)
LEMMA DigitFacts ==
  ASSUME NEW d \in 0 .. 9
  PROVE  Code(Digit(d)) - Code("0") = d /\ Digit(d) # " "
<1>0. Code("0") = 48
  BY DEF Code
<1>1. d = 0 \/ d = 1 \/ d = 2 \/ d = 3 \/ d = 4 \/ d = 5 \/ d = 6 \/ d = 7 \/ d = 8 \/ d = 9
  OBVIOUS
<1>2. CASE d = 0
  BY <1>0, <1>2 DEF Digit, Code
<1>3. CASE d = 1
  BY <1>0, <1>3 DEF Digit, Code
<1>4. CASE d = 2
  BY <1>0, <1>4 DEF Digit, Code
<1>5. CASE d = 3
  BY <1>0, <1>5 DEF Digit, Code
<1>6. CASE d = 4
  BY <1>0, <1>6 DEF Digit, Code
<1>7. CASE d = 5
  BY <1>0, <1>7 DEF Digit, Code
<1>8. CASE d = 6
  BY <1>0, <1>8 DEF Digit, Code
<1>9. CASE d = 7
  BY <1>0, <1>9 DEF Digit, Code
<1>10. CASE d = 8
  BY <1>0, <1>10 DEF Digit, Code
<1>11. CASE d = 9
  BY <1>0, <1>11 DEF Digit, Code
<1> QED
  BY <1>1, <1>2, <1>3, <1>4, <1>5, <1>6, <1>7, <1>8, <1>9, <1>10, <1>11

(* The rounds of the loop that values digits ... *)
LEMMA ValueLoop ==
  ASSUME NEW digits \in Seq(0 .. 9)
  PROVE  \E f : /\ f[0] = 0 /\ \A k \in 0 .. Len(digits) : f[k] \in Nat
                /\ \A k \in 1 .. Len(digits) : f[k] = 10 * f[k - 1] + digits[k]
                /\ Value(digits) = f[Len(digits)]
<1> DEFINE n == Len(digits)
<1> DEFINE B(r, k) == 10 * r + digits[k]
<1> DEFINE F == [p \in Nat \X (1 .. n) |-> B(p[1], p[2])]
<1> DEFINE P(f) == f = [k \in 0 .. n |-> IF k = 0 THEN 0 ELSE B(f[k - 1], k)]
<1> DEFINE g == CHOOSE f : P(f)
<1>1. n \in Nat /\ 0 \in Nat
  BY LenProperties
<1>2. F \in [Nat \X (1 .. n) -> Nat]
  <2> SUFFICES ASSUME NEW r \in Nat, NEW k \in 1 .. n PROVE B(r, k) \in Nat
    OBVIOUS
  <2>1. digits[k] \in 0 .. 9
    BY ElementOfSeq
  <2> QED
    BY <2>1
<1>3. PICK f \in [0 .. n -> Nat] : Runs(f, F, 0, n)
  <2> HIDE DEF n, F
  <2> QED
    BY <1>1, <1>2, RunsExist
<1>4. \A h : P(h) <=> h = [k \in 0 .. n |-> IF k = 0 THEN 0 ELSE B(h[k - 1], k)]
  OBVIOUS
<1>5. f = [k \in 0 .. n |-> IF k = 0 THEN 0 ELSE B(f[k - 1], k)]
  <2>1. \A k \in 0 .. n : f[k] = IF k = 0 THEN 0 ELSE B(f[k - 1], k)
    <3> TAKE k \in 0 .. n
    <3>1. f[k] = IF k = 0 THEN 0 ELSE F[<<f[k - 1], k>>]
      <4> HIDE DEF F, n
      <4> QED
        BY <1>3, Zenon DEF Runs
    <3>2. k # 0 => F[<<f[k - 1], k>>] = B(f[k - 1], k)
      <4> SUFFICES ASSUME k # 0 PROVE F[<<f[k - 1], k>>] = B(f[k - 1], k)
        OBVIOUS
      <4>1. k - 1 \in 0 .. n /\ k \in 1 .. n
        BY <1>1
      <4>2. f[k - 1] \in Nat
        BY <4>1
      <4> HIDE DEF B, n
      <4> QED
        BY <4>1, <4>2
    <3> QED
      BY <3>1, <3>2
  <2>2. f = [k \in 0 .. n |-> f[k]]
    OBVIOUS
  <2> HIDE DEF B, n
  <2> QED
    BY <2>1, <2>2
<1>6. Value(digits) = g[n]
  BY DEF Value
<1> HIDE DEF P
<1>7. P(g)
  BY <1>4, <1>5
<1> HIDE DEF g
<1>8. g[0] = 0 /\ \A k \in 1 .. n : g[k] = 10 * g[k - 1] + digits[k]
  <2>1. \A k \in 0 .. n : g[k] = IF k = 0 THEN 0 ELSE B(g[k - 1], k)
    <3>1. g = [k \in 0 .. n |-> IF k = 0 THEN 0 ELSE B(g[k - 1], k)]
      BY <1>4, <1>7
    <3> HIDE DEF B, n
    <3> QED
      BY <3>1, Zenon
  <2>2. 0 \in 0 .. n /\ \A k \in 1 .. n : k \in 0 .. n /\ k # 0
    BY <1>1
  <2>3. g[0] = 0 /\ \A k \in 1 .. n : g[k] = B(g[k - 1], k)
    <3> HIDE DEF B, n
    <3> QED
      BY <2>1, <2>2
  <2> QED
    BY <2>3
<1> DEFINE T == {k \in Nat : k <= n => g[k] \in Nat}
<1>9. 0 \in T
  BY <1>8
<1>10. ASSUME NEW k \in Nat, k \in T PROVE k + 1 \in T
  <2> SUFFICES ASSUME k + 1 <= n PROVE g[k + 1] \in Nat
    OBVIOUS
  <2>1. k + 1 \in 1 .. n /\ (k + 1) - 1 = k /\ k <= n
    BY <1>1
  <2>2. digits[k + 1] \in 0 .. 9
    BY <2>1, ElementOfSeq
  <2>3. g[k] \in Nat
    BY <1>10, <2>1
  <2>4. g[k + 1] = 10 * g[k] + digits[k + 1]
    BY <1>8, <2>1
  <2> DEFINE d == digits[k + 1]
  <2> DEFINE u == g[k]
  <2>5. d \in Nat /\ u \in Nat
    BY <2>2, <2>3
  <2> HIDE DEF d, u
  <2>6. 10 * u + d \in Nat
    BY <2>5
  <2> QED
    BY <2>4, <2>6 DEF d, u
<1>11. \A k \in 0 .. n : g[k] \in Nat
  <2> HIDE DEF T
  <2>1. Nat \subseteq T
    BY <1>9, <1>10, Induction
  <2> USE DEF T
  <2> QED
    BY <1>1, <2>1
<1> HIDE DEF n
<1>12. /\ g[0] = 0 /\ \A k \in 0 .. n : g[k] \in Nat
       /\ \A k \in 1 .. n : g[k] = 10 * g[k - 1] + digits[k]
       /\ Value(digits) = g[n]
  BY <1>6, <1>8, <1>11
<1> QED
  BY <1>12 DEF n

(* s holds the number, perhaps between spaces. *)
Holds(word, digits) == Sanitize(word, " ") = Numeral(digits)

(* ... and of the one that parses their characters. *)
LEMMA ParseLoop ==
  ASSUME NEW digits \in Seq(0 .. 9), NEW word, Holds(word, digits)
  PROVE  \E f : /\ f[0] = 0
                /\ \A k \in 1 .. Len(digits) : f[k] = (f[k - 1] * 10 + digits[k]) % SizeLimit
                /\ ParseSizeT(word) = f[Len(digits)]
<1> DEFINE w == Numeral(digits)
<1> DEFINE n == Len(w)
<1> DEFINE B(r, k) == (r * 10 + (Code(w[k]) - Code("0"))) % SizeLimit
<1> DEFINE F == [p \in Nat \X (1 .. n) |-> B(p[1], p[2])]
<1> DEFINE P(f) == f = [k \in 0 .. n |-> IF k = 0 THEN 0 ELSE B(f[k - 1], k)]
<1> DEFINE g == CHOOSE f : P(f)
<1>0. n = Len(digits)
  BY NumeralFacts
<1>n. Len(digits) \in Nat
  BY LenProperties
<1>2. ASSUME NEW k \in 1 .. n
      PROVE  digits[k] \in 0 .. 9 /\ Code(w[k]) - Code("0") = digits[k]
  <2>1. k \in 1 .. Len(digits)
    BY <1>0
  <2>2. digits[k] \in 0 .. 9
    BY <2>1, ElementOfSeq
  <2>3. w[k] = Digit(digits[k])
    BY <2>1, NumeralFacts
  <2> QED
    BY <2>2, <2>3, DigitFacts
<1>3. SizeLimit \in Nat \ {0}
  BY CsvAssumption
<1>4. ParseSizeT(word) = g[n]
  BY DEF ParseSizeT, Holds
<1> HIDE DEF w, n
<1>1. n \in Nat
  BY <1>0, <1>n
<1>5. \A r, k : k \in 1 .. n => B(r, k) = (r * 10 + digits[k]) % SizeLimit
  BY <1>2
<1>6. F \in [Nat \X (1 .. n) -> Nat]
  <2> SUFFICES ASSUME NEW r \in Nat, NEW k \in 1 .. n PROVE B(r, k) \in Nat
    <3> HIDE DEF B
    <3> QED
      OBVIOUS
  <2> DEFINE d == digits[k]
  <2>0. d \in 0 .. 9
    BY <1>2
  <2> DEFINE x == r * 10 + d
  <2>1. x \in Int
    <3> HIDE DEF d, B, F, P, g
    <3>1. r \in Int /\ d \in Int
      BY <2>0
    <3> QED
      BY <3>1
  <2> HIDE DEF d, x
  <2>a. x % SizeLimit \in 0 .. SizeLimit - 1
    BY <1>3, <2>1, ModRange
  <2>2. (r * 10 + digits[k]) % SizeLimit \in Nat
    BY <2>a, <1>3 DEF x, d
  <2> HIDE DEF B
  <2> QED
    BY <1>5, <2>2
<1> HIDE DEF B
<1>7. PICK f \in [0 .. n -> Nat] : Runs(f, F, 0, n)
  <2> HIDE DEF F
  <2> QED
    BY <1>1, <1>6, 0 \in Nat, RunsExist
<1>8. \A h : P(h) <=> h = [k \in 0 .. n |-> IF k = 0 THEN 0 ELSE B(h[k - 1], k)]
  OBVIOUS
<1>9. f = [k \in 0 .. n |-> IF k = 0 THEN 0 ELSE B(f[k - 1], k)]
  <2>1. \A k \in 0 .. n : f[k] = IF k = 0 THEN 0 ELSE B(f[k - 1], k)
    <3> TAKE k \in 0 .. n
    <3>1. f[k] = IF k = 0 THEN 0 ELSE F[<<f[k - 1], k>>]
      <4> HIDE DEF F
      <4> QED
        BY <1>7, Zenon DEF Runs
    <3>2. k # 0 => F[<<f[k - 1], k>>] = B(f[k - 1], k)
      <4> SUFFICES ASSUME k # 0 PROVE F[<<f[k - 1], k>>] = B(f[k - 1], k)
        OBVIOUS
      <4>1. k - 1 \in 0 .. n /\ k \in 1 .. n
        <5> HIDE DEF F, P, g
        <5> QED
          BY <1>1
      <4>2. f[k - 1] \in Nat
        BY <4>1
      <4> QED
        BY <4>1, <4>2
    <3> QED
      BY <3>1, <3>2
  <2>2. f = [k \in 0 .. n |-> f[k]]
    OBVIOUS
  <2> QED
    BY <2>1, <2>2
<1> HIDE DEF P
<1>10. P(g)
  BY <1>8, <1>9
<1> HIDE DEF g
<1>11. g[0] = 0 /\ \A k \in 1 .. n : g[k] = (g[k - 1] * 10 + digits[k]) % SizeLimit
  <2>1. \A k \in 0 .. n : g[k] = IF k = 0 THEN 0 ELSE B(g[k - 1], k)
    <3>1. g = [k \in 0 .. n |-> IF k = 0 THEN 0 ELSE B(g[k - 1], k)]
      BY <1>8, <1>10
    <3> QED
      BY <3>1, Zenon
  <2>2. 0 \in 0 .. n /\ \A k \in 1 .. n : k \in 0 .. n /\ k # 0
    BY <1>1
  <2>3. g[0] = 0 /\ \A k \in 1 .. n : g[k] = B(g[k - 1], k)
    BY <2>1, <2>2
  <2> QED
    BY <1>5, <2>3
<1> QED
  BY <1>0, <1>4, <1>11

(* What is parsed of a padded number is its value, as far as a size_t holds it. *)
LEMMA NumberRead ==
  ASSUME NEW digits \in Seq(0 .. 9), digits # <<>>, NEW b \in Nat, NEW a \in Nat
  PROVE  ParseSizeT(Sanitize(Padded(Numeral(digits), " ", b, a), " ")) = Value(digits) % SizeLimit
<1> DEFINE w == Numeral(digits)
<1> DEFINE n == Len(digits)
<1>1. n \in Nat \ {0}
  BY EmptySeq
<1>2. w \in Seq(Digits) /\ Len(w) = n /\ \A k \in 1 .. n : w[k] # " "
  <2>1. w \in Seq(Digits) /\ Len(w) = n /\ \A k \in 1 .. n : w[k] = Digit(digits[k])
    BY NumeralFacts
  <2>2. \A k \in 1 .. n : digits[k] \in 0 .. 9
    BY ElementOfSeq
  <2> HIDE DEF w
  <2> QED
    BY <2>1, <2>2, DigitFacts
<1> HIDE DEF w
<1>3. w \in Seq(Plain) /\ w # <<>> /\ w[1] # " " /\ w[Len(w)] # " "
  <2>1. Digits \subseteq Plain
    BY DEF Plain
  <2>2. w \in Seq(Plain)
    BY <1>2, <2>1, SeqMonotonic
  <2>3. 1 \in 1 .. n /\ n \in 1 .. n
    BY <1>1
  <2> HIDE DEF n
  <2> QED
    BY <1>1, <1>2, <2>2, <2>3, EmptySeq
<1>4. Sanitize(Padded(w, " ", b, a), " ") = w
  BY <1>3, PlainFacts, SanitizePadded
<1>5. Sanitize(w, " ") = w
  <2>1. Sanitize(Padded(w, " ", 0, 0), " ") = w
    <3>1. 0 \in Nat /\ " " \in Plain
      BY PlainFacts
    <3> QED
      BY <1>3, <3>1, SanitizePadded
  <2>2. Repeated(" ", 0) = <<>>
    BY PlainFacts, RepeatedNone
  <2>3. <<>> \o w = w /\ w \o <<>> = w
    BY <1>3, ConcatEmptySeq
  <2>4. Padded(w, " ", 0, 0) = w
    BY <2>2, <2>3 DEF Padded
  <2> QED
    BY <2>1, <2>4
<1>6. PICK f : /\ f[0] = 0
               /\ \A k \in 1 .. n : f[k] = (f[k - 1] * 10 + digits[k]) % SizeLimit
               /\ ParseSizeT(w) = f[n]
  BY <1>5, ParseLoop DEF w, Holds
<1>7. PICK v : /\ v[0] = 0 /\ \A k \in 0 .. n : v[k] \in Nat
               /\ \A k \in 1 .. n : v[k] = 10 * v[k - 1] + digits[k]
               /\ Value(digits) = v[n]
  BY ValueLoop
<1> DEFINE T == {k \in Nat : k <= n => f[k] = v[k] % SizeLimit}
<1>8. 0 \in T
  <2>1. 0 % SizeLimit = 0
    BY CsvAssumption, ModSmall
  <2> QED
    BY <1>6, <1>7, <2>1
<1>9. ASSUME NEW k \in Nat, k \in T PROVE k + 1 \in T
  <2> SUFFICES ASSUME k + 1 <= n PROVE f[k + 1] = v[k + 1] % SizeLimit
    OBVIOUS
  <2>1. k + 1 \in 1 .. n /\ (k + 1) - 1 = k /\ k <= n /\ k \in 0 .. n
    BY <1>1
  <2>2. digits[k + 1] \in 0 .. 9
    BY <2>1, ElementOfSeq
  <2>3. f[k] = v[k] % SizeLimit /\ v[k] \in Nat
    BY <1>7, <1>9, <2>1
  <2>4. f[k + 1] = (f[k] * 10 + digits[k + 1]) % SizeLimit /\ v[k + 1] = 10 * v[k] + digits[k + 1]
    BY <1>6, <1>7, <2>1
  <2> DEFINE d == digits[k + 1]
  <2> DEFINE u == v[k]
  <2>5. d \in Int /\ u \in Int
    BY <2>2, <2>3
  <2> HIDE DEF d, u
  <2>6. ((u % SizeLimit) * 10 + d) % SizeLimit = (10 * u + d) % SizeLimit
    BY <2>5, CsvAssumption, ModTimes
  <2> QED
    BY <2>3, <2>4, <2>6 DEF d, u
<1>10. f[n] = v[n] % SizeLimit
  <2> HIDE DEF T
  <2>1. Nat \subseteq T
    BY <1>8, <1>9, Induction
  <2> USE DEF T
  <2> QED
    BY <1>1, <2>1
<1> QED
  BY <1>4, <1>6, <1>7, <1>10 DEF w

(* The name and the damage of a column, and what is read of it. *)
NameAt(table, layout, damage, n) ==
  table.names[IF n = layout.column /\ damage = "same_name" THEN 1 ELSE n]
DamageAt(layout, damage, n) == IF n = layout.column THEN damage ELSE "none"

PairIs(pair, name, damage) ==
  IF damage = "no_type" THEN Len(pair) = 1
  ELSE Len(pair) = 2 /\ MemberName(pair) = <<name>> /\ TypeName(pair) = <<TypeOf(damage)>>

LEMMA HeaderAt ==
  ASSUME NEW table, NEW layout, NEW damage, Given(table, layout, damage),
         NEW n \in 1 .. Len(table.names)
  PROVE  /\ Headers(table, layout, damage)[n]
              = HeaderCell(NameAt(table, layout, damage, n), DamageAt(layout, damage, n))
         /\ NameAt(table, layout, damage, n) \in Names
         /\ DamageAt(layout, damage, n) \in Damages \cup {"none"}
<1>1. /\ table.names \in Seq(Names) /\ Len(table.names) \in Nat \ {0}
      /\ DOMAIN table.names = 1 .. Len(table.names)
  BY EmptySeq, LenProperties DEF Given, IsTable
<1>2. damage \in Damages \cup {"none"}
  BY DEF Given
<1>3. 1 \in 1 .. Len(table.names)
  BY <1>1
<1>4. \A k \in 1 .. Len(table.names) : table.names[k] \in Names
  BY <1>1, ElementOfSeq
<1>5. Headers(table, layout, damage)[n]
        = IF n # layout.column THEN HeaderCell(table.names[n], "none")
          ELSE HeaderCell(table.names[IF damage = "same_name" THEN 1 ELSE n], damage)
  BY <1>1 DEF Headers
<1>6. CASE n # layout.column
  BY <1>4, <1>5, <1>6 DEF NameAt, DamageAt
<1>7. CASE n = layout.column
  <2>1. NameAt(table, layout, damage, n) = table.names[IF damage = "same_name" THEN 1 ELSE n]
    BY <1>7 DEF NameAt
  <2>2. NameAt(table, layout, damage, n) \in Names
    BY <1>3, <1>4, <2>1
  <2>3. DamageAt(layout, damage, n) = damage
    BY <1>7 DEF DamageAt
  <2> QED
    BY <1>2, <1>5, <1>7, <2>1, <2>2, <2>3
<1> QED
  BY <1>6, <1>7

LEMMA PairOf ==
  ASSUME NEW name \in Names, NEW damage \in Damages \cup {"none"}, NEW b \in Nat, NEW a \in Nat
  PROVE  PairIs(Split(Padded(HeaderCell(name, damage), " ", b, a), "."), name, damage)
<1>1. CASE damage = "no_type"
  <2>1. HeaderCell(name, damage) = <<name>>
    BY <1>1, HeaderCellFacts
  <2> QED
    BY <1>1, <2>1, NameAlone DEF PairIs
<1>2. CASE damage # "no_type"
  <2> DEFINE type == TypeOf(damage)
  <2>1. HeaderCell(name, damage) = <<name, ".", type>>
    BY <1>2, HeaderCellFacts
  <2>2. type \in Plain \ {".", " "}
    BY DEF TypeOf, Plain
  <2> HIDE DEF type
  <2> DEFINE pair == Split(Padded(<<name, ".", type>>, " ", b, a), ".")
  <2>3. ReadAs(pair, name, type)
    BY <2>2, PairRead
  <2> HIDE DEF pair
  <2>4. PairIs(pair, name, damage)
    BY <1>2, <2>3 DEF PairIs, ReadAs, type
  <2> QED
    BY <2>1, <2>4 DEF pair
<1> QED
  BY <1>1, <1>2

(* What the reader is given. *)
LEMMA FileRead ==
  ASSUME file \in File
  PROVE  /\ Given(file.table, file.layout, file.damage)
         /\ lines = Lines(file.table, file.layout, file.damage)
<1>1. Given(file.table, file.layout, file.damage)
      /\ file.text = Text(file.table, file.layout, file.damage)
  BY FileAssumption, Zenon DEF Given
<1>2. lines = Split(Sanitize(Text(file.table, file.layout, file.damage), "\n"), "\n")
  BY <1>1 DEF lines
<1> QED
  BY <1>1, <1>2, LinesRead

(* The header. *)
LEMMA HeaderRead ==
  ASSUME file \in File
  PROVE  /\ DOMAIN pairs = 1 .. Len(file.table.names)
         /\ \A n \in 1 .. Len(file.table.names) :
              PairIs(pairs[n], NameAt(file.table, file.layout, file.damage, n),
                     DamageAt(file.layout, file.damage, n))
<1> DEFINE table == file.table
<1> DEFINE layout == file.layout
<1> DEFINE damage == file.damage
<1>1. Given(table, layout, damage) /\ lines = Lines(table, layout, damage)
  BY FileRead
<1> HIDE DEF table, layout, damage
<1> DEFINE cells == Headers(table, layout, damage)
<1> DEFINE n == Len(table.names)
<1>2. cells \in Seq(Seq(Plain) \ {<<>>}) /\ Len(cells) = n /\ cells # <<>>
  BY <1>1, HeadersFacts
<1>3. layout \in Layout /\ layout.before \in Nat /\ layout.after \in Nat
  BY <1>1 DEF Given, Layout
<1>4. lines[1] = Line(cells, layout)
  <2>1. LinesAre(lines, table, layout, damage)
    BY <1>1, LinesFacts
  <2> QED
    BY <2>1, Zenon DEF LinesAre
<1>5. \A k \in 1 .. n : cells[k]
        = HeaderCell(NameAt(table, layout, damage, k), DamageAt(layout, damage, k))
  BY <1>1, HeaderAt
<1> HIDE DEF cells
<1>6. Split(lines[1], ",") = [k \in 1 .. n |-> Padded(cells[k], " ", layout.before, layout.after)]
  BY <1>2, <1>3, <1>4, LineFacts
<1>7. pairs = [k \in 1 .. n |-> Split(Padded(cells[k], " ", layout.before, layout.after), ".")]
  <2> DEFINE headers == Split(lines[1], ",")
  <2>1. pairs = [k \in DOMAIN headers |-> Split(headers[k], ".")]
    BY DEF pairs
  <2>2. DOMAIN headers = 1 .. n
    BY <1>6
  <2>3. \A k \in 1 .. n : headers[k] = Padded(cells[k], " ", layout.before, layout.after)
    BY <1>6
  <2> HIDE DEF headers
  <2> QED
    BY <2>1, <2>2, <2>3
<1>8. ASSUME NEW k \in 1 .. n
      PROVE  PairIs(pairs[k], NameAt(table, layout, damage, k), DamageAt(layout, damage, k))
  <2>1. NameAt(table, layout, damage, k) \in Names
        /\ DamageAt(layout, damage, k) \in Damages \cup {"none"}
    BY <1>1, HeaderAt
  <2>2. pairs[k] = Split(Padded(HeaderCell(NameAt(table, layout, damage, k),
                                           DamageAt(layout, damage, k)),
                                " ", layout.before, layout.after), ".")
    BY <1>5, <1>7
  <2> QED
    BY <1>3, <2>1, <2>2, PairOf
<1>9. DOMAIN pairs = 1 .. n
  BY <1>7
<1> QED
  BY <1>8, <1>9 DEF table, layout, damage

(* The numbers of a row. *)
RowIs(cells, numbers) ==
  \A n \in 1 .. Len(cells) : ParseSizeT(Sanitize(cells[n], " ")) = Value(numbers[n]) % SizeLimit

LEMMA RowOf ==
  ASSUME NEW table, NEW layout, NEW damage, Given(table, layout, damage),
         NEW r \in 1 .. Len(table.rows)
  PROVE  LET cells == Split(Line(Cells(table, layout, damage, r), layout), ",") IN
         /\ Len(cells) = IF damage = "short_row" /\ r = layout.row
                         THEN Len(table.names) - 1 ELSE Len(table.names)
         /\ RowIs(cells, table.rows[r])
<1> DEFINE numbers == table.rows[r]
<1> DEFINE parts == Cells(table, layout, damage, r)
<1> DEFINE cells == Split(Line(parts, layout), ",")
<1> DEFINE n == Len(parts)
<1>1. /\ parts \in Seq(Seq(Plain) \ {<<>>}) /\ parts # <<>>
      /\ n = IF damage = "short_row" /\ r = layout.row
             THEN Len(table.names) - 1 ELSE Len(table.names)
      /\ \A k \in 1 .. n : parts[k] = Numeral(numbers[k])
  BY CellsFacts
<1>2. layout \in Layout /\ layout.before \in Nat /\ layout.after \in Nat
  BY DEF Given, Layout
<1>3. numbers \in [1 .. Len(table.names) -> Seq(0 .. 9) \ {<<>>}]
  <2>1. DOMAIN table.names = 1 .. Len(table.names)
    BY LenProperties DEF Given, IsTable
  <2>2. table.rows \in Seq([DOMAIN table.names -> Seq(0 .. 9) \ {<<>>}])
    BY DEF Given, IsTable
  <2> QED
    BY <2>1, <2>2, ElementOfSeq
<1>4. 1 .. n \subseteq 1 .. Len(table.names)
  <2>1. Len(table.names) \in Nat
    BY LenProperties DEF Given, IsTable
  <2> DEFINE m == Len(table.names)
  <2>2. n = m - 1 \/ n = m
    BY <1>1
  <2>3. m \in Nat
    BY <2>1
  <2> HIDE DEF m, n
  <2>4. 1 .. n \subseteq 1 .. m
    BY <2>2, <2>3
  <2> QED
    BY <2>4 DEF m
<1>5. n \in Nat
  BY <1>1, LenProperties
<1> HIDE DEF parts, numbers
<1>6. cells = [k \in 1 .. n |-> Padded(parts[k], " ", layout.before, layout.after)]
  BY <1>1, <1>2, LineFacts
<1>7. Len(cells) = n
  <2> HIDE DEF n
  <2> DEFINE C == {Padded(parts[k], " ", layout.before, layout.after) : k \in 1 .. n}
  <2>1. cells \in [1 .. n -> C]
    BY <1>6
  <2> HIDE DEF cells, C
  <2>2. cells \in Seq(C)
    BY <1>5, <2>1, SeqDef
  <2> QED
    BY <1>5, <2>1, <2>2, LenProperties
<1>8. RowIs(cells, numbers)
  <2> SUFFICES ASSUME NEW k \in 1 .. n
               PROVE  ParseSizeT(Sanitize(cells[k], " ")) = Value(numbers[k]) % SizeLimit
    BY <1>7 DEF RowIs
  <2> DEFINE digits == numbers[k]
  <2>1. digits \in Seq(0 .. 9) /\ digits # <<>>
    BY <1>3, <1>4
  <2>2. cells[k] = Padded(Numeral(digits), " ", layout.before, layout.after)
    BY <1>1, <1>6
  <2> HIDE DEF cells, digits
  <2>3. ParseSizeT(Sanitize(cells[k], " ")) = Value(digits) % SizeLimit
    BY <1>2, <2>1, <2>2, NumberRead
  <2> QED
    BY <2>3 DEF digits
<1> QED
  BY <1>1, <1>7, <1>8 DEF parts, numbers

(* An empty line has one cell. *)
LEMMA EmptyLine == Len(Split(<<>>, ",")) = 1
<1> DEFINE parts == << <<>> >>
<1>1. parts \in Seq(Seq(Plain)) /\ parts # <<>> /\ Len(parts) = 1
  OBVIOUS
<1>2. Join(parts, ",") = <<>>
  <2>1. "," \in {","} /\ <<>> \in Seq({","})
    OBVIOUS
  <2> QED
    BY <2>1, JoinFew
<1> HIDE DEF parts
<1>3. Split(Join(parts, ","), ",") = parts
  BY <1>1, PlainFacts, SplitJoin
<1> QED
  BY <1>1, <1>2, <1>3

(* The lines below the header, and what is read of them. *)
CellsAt(r) == Split(lines[r + 1], ",")

LEMMA RowsRead ==
  ASSUME file \in File
  PROVE  /\ Len(file.table.names) \in Nat \ {0} /\ Len(file.table.rows) \in Nat
         /\ NUM_ROWS = Len(file.table.rows) + (IF file.damage = "blank_line" THEN 1 ELSE 0)
         /\ file.damage = "none" =>
              \A r \in 1 .. Len(file.table.rows) :
                Len(CellsAt(r)) = Len(file.table.names) /\ RowIs(CellsAt(r), file.table.rows[r])
         /\ file.damage \in {"short_row", "blank_line"} =>
              /\ file.layout.row \in 1 .. Len(file.table.rows)
              /\ Len(CellsAt(file.layout.row)) \in 1 .. Len(file.table.names) - 1
<1> DEFINE table == file.table
<1> DEFINE layout == file.layout
<1> DEFINE damage == file.damage
<1>1. Given(table, layout, damage) /\ lines = Lines(table, layout, damage)
  BY FileRead
<1> HIDE DEF table, layout, damage
<1> DEFINE rows == Len(table.rows)
<1> DEFINE n == Len(table.names)
<1>2. rows \in Nat /\ DOMAIN table.rows = 1 .. rows /\ n \in Nat \ {0}
  BY <1>1, EmptySeq, LenProperties DEF Given, IsTable
<1>3. LinesAre(lines, table, layout, damage)
  BY <1>1, LinesFacts
<1>4. /\ Len(lines) = 1 + rows + (IF damage = "blank_line" THEN 1 ELSE 0)
      /\ \A k \in 2 .. Len(lines) :
           IF Blank(layout, damage, k) THEN lines[k] = <<>>
           ELSE LET r == Shift(layout, damage, k) - 1
                IN r \in 1 .. rows /\ lines[k] = Line(Cells(table, layout, damage, r), layout)
  BY <1>3, Zenon DEF LinesAre
<1> DEFINE m == Len(lines)
<1> HIDE DEF rows, n, m
<1>5. m = 1 + rows + (IF damage = "blank_line" THEN 1 ELSE 0)
  BY <1>4 DEF m
<1>6. NUM_ROWS = rows + (IF damage = "blank_line" THEN 1 ELSE 0)
  <2>1. NUM_ROWS = m - 1
    BY DEF NUM_ROWS, m
  <2> QED
    BY <1>2, <1>5, <2>1
<1>7. ASSUME damage # "blank_line", NEW r \in 1 .. rows
      PROVE  CellsAt(r) = Split(Line(Cells(table, layout, damage, r), layout), ",")
  <2>1. r + 1 \in 2 .. m /\ (r + 1) - 1 = r
    BY <1>2, <1>5, <1>7
  <2>2. ~Blank(layout, damage, r + 1) /\ Shift(layout, damage, r + 1) = r + 1
    BY <1>7 DEF Blank, Shift
  <2>3. lines[r + 1] = Line(Cells(table, layout, damage, r), layout)
    BY <1>4, <2>1, <2>2 DEF m
  <2> QED
    BY <2>3 DEF CellsAt
<1>8. ASSUME damage = "none", NEW r \in 1 .. rows
      PROVE  Len(CellsAt(r)) = n /\ RowIs(CellsAt(r), table.rows[r])
  <2>1. damage # "blank_line" /\ damage # "short_row"
    BY <1>8
  <2> DEFINE cells == Split(Line(Cells(table, layout, damage, r), layout), ",")
  <2>2. Len(cells) = n /\ RowIs(cells, table.rows[r])
    BY <1>1, <2>1, RowOf DEF rows, n
  <2>3. CellsAt(r) = cells
    BY <1>7, <2>1
  <2> HIDE DEF cells
  <2> QED
    BY <2>2, <2>3
<1>9. ASSUME damage \in {"short_row", "blank_line"}
      PROVE  layout.row \in 1 .. rows /\ Len(CellsAt(layout.row)) \in 1 .. n - 1
  <2>1. layout.row \in 1 .. rows /\ n > 1
    BY <1>1, <1>2, <1>9 DEF Given, Possible, n
  <2>2. CASE damage = "short_row"
    <3>1. Len(CellsAt(layout.row)) = n - 1
      BY <1>1, <1>7, <2>1, <2>2, RowOf DEF rows, n
    <3> QED
      BY <1>2, <2>1, <3>1
  <2>3. CASE damage = "blank_line"
    <3>1. layout.row + 1 \in 2 .. m
      BY <1>2, <1>5, <2>1, <2>3
    <3>2. Blank(layout, damage, layout.row + 1)
      BY <2>3 DEF Blank
    <3>3. lines[layout.row + 1] = <<>>
      BY <1>4, <3>1, <3>2 DEF m
    <3>4. Len(CellsAt(layout.row)) = 1
      BY <3>3, EmptyLine DEF CellsAt
    <3> QED
      BY <1>2, <2>1, <3>4
  <2> QED
    BY <1>9, <2>1, <2>2, <2>3
<1> QED
  BY <1>2, <1>6, <1>8, <1>9 DEF table, layout, damage, rows, n

(* A function of 1 .. k is a sequence, and can be appended to. *)
LEMMA FirstOf ==
  ASSUME NEW R, NEW k \in Nat, NEW d, d = [r \in 1 .. k |-> R[r]]
  PROVE  /\ Len(d) = k /\ DOMAIN d = 1 .. k
         /\ Append(d, R[k + 1]) = [r \in 1 .. k + 1 |-> R[r]]
<1> DEFINE T == {R[r] : r \in 1 .. k + 1}
<1>1. d \in [1 .. k -> T]
  <2>1. \A r \in 1 .. k : r \in 1 .. k + 1
    OBVIOUS
  <2> QED
    BY <2>1
<1>2. R[k + 1] \in T
  <2>1. k + 1 \in 1 .. k + 1
    OBVIOUS
  <2> QED
    BY <2>1
<1> HIDE DEF T
<1>3. d \in Seq(T) /\ Len(d) = k
  <2>1. d \in Seq(T)
    BY <1>1, SeqDef
  <2> QED
    BY <1>1, <2>1, LenProperties
<1> DEFINE x == R[k + 1]
<1> DEFINE e == Append(d, x)
<1>4. /\ e \in Seq(T) /\ Len(e) = k + 1
      /\ \A r \in 1 .. k : e[r] = d[r]
      /\ e[k + 1] = x
  <2> HIDE DEF x
  <2>1. x \in T
    BY <1>2 DEF x
  <2> QED
    BY <1>3, <2>1, AppendProperties
<1>5. e \in [1 .. k + 1 -> T]
  <2> HIDE DEF e
  <2> QED
    BY <1>4, LenProperties
<1>6. \A r \in 1 .. k : d[r] = R[r]
  OBVIOUS
<1>7. \A r \in 1 .. k + 1 : e[r] = R[r]
  <2> HIDE DEF e
  <2> TAKE r \in 1 .. k + 1
  <2>1. r \in 1 .. k \/ r = k + 1
    OBVIOUS
  <2> QED
    BY <1>4, <1>6, <2>1
<1>8. e = [r \in 1 .. k + 1 |-> R[r]]
  <2> HIDE DEF e
  <2> QED
    BY <1>5, <1>7
<1> QED
  BY <1>1, <1>3, <1>8

-----------------------------------------------------------------------------
(* The inductive invariant: the members are those of the header, and the first *)
(* k lines below it, each long enough, have been read.                        *)
RowRead(r) == [n \in DOMAIN specs |-> ParseSizeT(Sanitize(CellsAt(r)[n], " "))]
ReadUpTo(k) ==
  /\ k \in Nat /\ k <= NUM_ROWS
  /\ data = [r \in 1 .. k |-> RowRead(r)]
  /\ \A r \in 1 .. k : Len(CellsAt(r)) >= Len(specs)
  /\ k > 0 => \A n \in DOMAIN specs : specs[n].type = "size_t"
RowDefined ==
  /\ HeaderAccepted
  /\ specs = [n \in DOMAIN pairs |->
                [name |-> MemberName(pairs[n])[1], type |-> TypeName(pairs[n])[1]]]

CsvInv ==
  /\ file \in File
  /\ step \in {"header", "rows", "done", "refused"}
  /\ step = "header" => data = <<>>
  /\ step \in {"rows", "done"} => RowDefined /\ \E k \in Nat : ReadUpTo(k)
  /\ step = "done" =>
       Len(data) = NUM_ROWS /\ \A n \in DOMAIN specs : specs[n].type # "std::string_view"
  /\ file.damage = "none" => step # "refused"

LEMMA ReadUpToLen ==
  ASSUME NEW k \in Nat, ReadUpTo(k)
  PROVE  /\ Len(data) = k /\ DOMAIN data = 1 .. k
         /\ Append(data, RowRead(k + 1)) = [r \in 1 .. k + 1 |-> RowRead(r)]
<1> DEFINE R == [r \in 1 .. k + 1 |-> RowRead(r)]
<1>1. data = [r \in 1 .. k |-> RowRead(r)]
  BY DEF ReadUpTo
<1>2. \A r \in 1 .. k + 1 : R[r] = RowRead(r)
  OBVIOUS
<1>3. k + 1 \in 1 .. k + 1 /\ \A r \in 1 .. k : r \in 1 .. k + 1
  OBVIOUS
<1> HIDE DEF R
<1>4. data = [r \in 1 .. k |-> R[r]] /\ R[k + 1] = RowRead(k + 1)
  BY <1>1, <1>2, <1>3
<1>5. /\ Len(data) = k /\ DOMAIN data = 1 .. k
      /\ Append(data, R[k + 1]) = [r \in 1 .. k + 1 |-> R[r]]
  BY <1>4, FirstOf
<1>6. [r \in 1 .. k + 1 |-> R[r]] = [r \in 1 .. k + 1 |-> RowRead(r)]
  BY <1>2
<1> QED
  BY <1>4, <1>5, <1>6

(* The members of an accepted header. *)
LEMMA MembersRead ==
  ASSUME file \in File, RowDefined
  PROVE  /\ file.damage \notin {"no_type", "unknown_type", "same_name"}
         /\ Len(specs) = Len(file.table.names) /\ DOMAIN specs = 1 .. Len(file.table.names)
         /\ \A n \in DOMAIN specs :
              /\ specs[n].name = NameAt(file.table, file.layout, file.damage, n)
              /\ specs[n].type = TypeOf(DamageAt(file.layout, file.damage, n))
<1> DEFINE table == file.table
<1> DEFINE layout == file.layout
<1> DEFINE damage == file.damage
<1> DEFINE n == Len(table.names)
<1> DEFINE name(k) == NameAt(table, layout, damage, k)
<1> DEFINE harm(k) == DamageAt(layout, damage, k)
<1>1. Given(table, layout, damage) /\ n \in Nat \ {0}
  BY FileRead, RowsRead
<1>2. DOMAIN pairs = 1 .. n /\ \A k \in 1 .. n : PairIs(pairs[k], name(k), harm(k))
  BY HeaderRead
<1> HIDE DEF table, layout, damage
<1>3. /\ \A k \in 1 .. n : Len(pairs[k]) = 2 /\ TypeName(pairs[k]) \in {<<type>> : type \in Types}
      /\ \A l, m \in 1 .. n : l # m => MemberName(pairs[l]) # MemberName(pairs[m])
      /\ specs = [k \in 1 .. n |->
                    [name |-> MemberName(pairs[k])[1], type |-> TypeName(pairs[k])[1]]]
  BY <1>2 DEF RowDefined, HeaderAccepted
<1>4. ASSUME NEW k \in 1 .. n
      PROVE  /\ harm(k) # "no_type"
             /\ MemberName(pairs[k]) = <<name(k)>> /\ TypeName(pairs[k]) = <<TypeOf(harm(k))>>
  <2> DEFINE p == pairs[k]
  <2> HIDE DEF name, harm, p
  <2>1. Len(p) = 2
    BY <1>3 DEF p
  <2>2. Len(p) # 1
    BY <2>1
  <2>3. PairIs(p, name(k), harm(k))
    BY <1>2 DEF p
  <2>4. harm(k) # "no_type" /\ MemberName(p) = <<name(k)>> /\ TypeName(p) = <<TypeOf(harm(k))>>
    BY <2>2, <2>3, Zenon DEF PairIs
  <2> QED
    BY <2>4 DEF p
<1> HIDE DEF name, harm
<1>5. ASSUME NEW k \in 1 .. n
      PROVE  specs[k].name = name(k) /\ specs[k].type = TypeOf(harm(k))
  BY <1>3, <1>4
<1>6. damage # "none" => layout.column \in 1 .. n /\ harm(layout.column) = damage
  <2>1. DOMAIN table.names = 1 .. n
    BY <1>1, LenProperties DEF Given, IsTable
  <2> QED
    BY <1>1, <2>1 DEF Given, Possible, DamageAt, harm
<1>7. damage # "no_type"
  BY <1>4, <1>6
<1>8. damage # "unknown_type"
  <2> SUFFICES ASSUME damage = "unknown_type" PROVE FALSE
    OBVIOUS
  <2> DEFINE c == layout.column
  <2>1. c \in 1 .. n /\ harm(c) = "unknown_type"
    BY <1>6
  <2>2. TypeOf(harm(c)) = "char"
    BY <2>1 DEF TypeOf
  <2>3. <<"char">> \in {<<type>> : type \in Types}
    BY <1>3, <1>4, <2>1, <2>2
  <2> QED
    BY <2>3 DEF Types
<1>9. damage # "same_name"
  <2> SUFFICES ASSUME damage = "same_name" PROVE FALSE
    OBVIOUS
  <2> DEFINE c == layout.column
  <2>1. c \in 1 .. n /\ c > 1
    BY <1>1, <1>6 DEF Given, Possible
  <2>2. 1 \in 1 .. n /\ 1 # c
    BY <1>1, <2>1
  <2>3. name(c) = table.names[1] /\ name(1) = table.names[1]
    BY <2>2 DEF NameAt, name
  <2> QED
    BY <1>3, <1>4, <2>1, <2>2, <2>3
<1>10. Len(specs) = n /\ DOMAIN specs = 1 .. n
  <2> DEFINE R == [k \in 1 .. n |->
                    [name |-> MemberName(pairs[k])[1], type |-> TypeName(pairs[k])[1]]]
  <2>1. specs = [k \in 1 .. n |-> R[k]]
    BY <1>3
  <2> HIDE DEF R, n
  <2> QED
    BY <1>1, <2>1, FirstOf
<1> QED
  BY <1>5, <1>7, <1>8, <1>9, <1>10 DEF table, layout, damage, name, harm

(* A file that is not damaged has a header that is accepted. *)
LEMMA SoundHeader ==
  ASSUME file \in File, file.damage = "none"
  PROVE  HeaderAccepted
<1> DEFINE table == file.table
<1> DEFINE n == Len(table.names)
<1> DEFINE name(k) == NameAt(table, file.layout, file.damage, k)
<1> DEFINE harm(k) == DamageAt(file.layout, file.damage, k)
<1>1. Given(table, file.layout, file.damage) /\ n \in Nat \ {0}
  BY FileRead, RowsRead
<1>2. DOMAIN pairs = 1 .. n /\ \A k \in 1 .. n : PairIs(pairs[k], name(k), harm(k))
  BY HeaderRead
<1>3. \A k \in 1 .. n : harm(k) = "none" /\ name(k) = table.names[k]
  BY DEF NameAt, DamageAt
<1>4. /\ \A k \in 1 .. n : table.names[k] \in Names
      /\ \A l, m \in 1 .. n : l # m => table.names[l] # table.names[m]
  <2>1. table.names \in Seq(Names) /\ DOMAIN table.names = 1 .. n
        /\ \A l, m \in DOMAIN table.names : l # m => table.names[l] # table.names[m]
    BY <1>1, LenProperties DEF Given, IsTable
  <2> QED
    BY <2>1, ElementOfSeq
<1> HIDE DEF table, name, harm
<1>5. ASSUME NEW k \in 1 .. n
      PROVE  /\ Len(pairs[k]) = 2 /\ MemberName(pairs[k]) = <<table.names[k]>>
             /\ TypeName(pairs[k]) = <<"size_t">>
  <2> DEFINE p == pairs[k]
  <2> HIDE DEF p
  <2>1. PairIs(p, table.names[k], "none")
    BY <1>2, <1>3 DEF p
  <2>2. TypeOf("none") = "size_t"
    BY DEF TypeOf
  <2>3. Len(p) = 2 /\ MemberName(p) = <<table.names[k]>> /\ TypeName(p) = <<"size_t">>
    BY <2>1, <2>2, Zenon DEF PairIs
  <2> QED
    BY <2>3 DEF p
<1>6. "size_t" \in Types
  BY DEF Types
<1>7. \A k \in 1 .. n : /\ TypeName(pairs[k]) \in {<<type>> : type \in Types}
                        /\ MemberName(pairs[k]) \in {<<x>> : x \in Names}
  BY <1>4, <1>5, <1>6
<1>8. \A l, m \in 1 .. n : l # m => MemberName(pairs[l]) # MemberName(pairs[m])
  BY <1>4, <1>5
<1> QED
  BY <1>2, <1>5, <1>7, <1>8 DEF HeaderAccepted

(* ... and rows that are. *)
LEMMA SoundRow ==
  ASSUME file \in File, file.damage = "none", RowDefined,
         NEW k \in Nat, k < NUM_ROWS, ReadUpTo(k)
  PROVE  RowAccepted
<1> DEFINE n == Len(file.table.names)
<1>1. /\ Len(specs) = n /\ DOMAIN specs = 1 .. n
      /\ \A l \in DOMAIN specs : specs[l].type = TypeOf(DamageAt(file.layout, file.damage, l))
  BY MembersRead
<1>2. \A l : DamageAt(file.layout, file.damage, l) = "none"
  BY DEF DamageAt
<1>3. TypeOf("none") = "size_t"
  BY DEF TypeOf
<1>4. NUM_ROWS = Len(file.table.rows) /\ Len(file.table.rows) \in Nat /\ n \in Nat
  BY RowsRead
<1>5. k + 1 \in 1 .. Len(file.table.rows) /\ (k + 1) + 1 = k + 2
  BY <1>4
<1>6. Len(CellsAt(k + 1)) = n
  BY <1>5, RowsRead
<1>7. elements = CellsAt(k + 1)
  <2>1. Len(data) = k
    BY ReadUpToLen
  <2> QED
    BY <1>5, <2>1 DEF elements, CellsAt
<1> QED
  BY <1>1, <1>2, <1>3, <1>4, <1>6, <1>7 DEF RowAccepted

(* The invariant is inductive. *)
LEMMA CsvInvInit == CsvInit => CsvInv
BY DEF CsvInit, CsvInv

LEMMA CsvInvNext == CsvInv /\ [CsvNext]_csvVars => CsvInv'
<1> SUFFICES ASSUME CsvInv, [CsvNext]_csvVars PROVE CsvInv'
  OBVIOUS
<1> USE DEF CsvInv
<1>1. file' = file /\ file \in File
  BY DEF CsvNext, csvVars, DefineRow, RefuseHeader, ReadRow, RefuseRow, Finish, Refuse
<1>2. /\ lines' = lines /\ pairs' = pairs /\ NUM_ROWS' = NUM_ROWS /\ NUM_ROWS \in Nat
      /\ HeaderAccepted' = HeaderAccepted
      /\ \A r : CellsAt(r)' = CellsAt(r)
  <2>1. lines' = lines
    BY <1>1 DEF lines
  <2>2. pairs' = pairs
    BY <2>1 DEF pairs
  <2>3. NUM_ROWS \in Nat
    <3> DEFINE m == Len(file.table.rows)
    <3>1. m \in Nat /\ NUM_ROWS = m + (IF file.damage = "blank_line" THEN 1 ELSE 0)
      BY <1>1, RowsRead
    <3> HIDE DEF m
    <3>2. NUM_ROWS = m + 1 \/ NUM_ROWS = m
      BY <3>1
    <3> QED
      BY <3>1, <3>2
  <2> QED
    BY <2>1, <2>2, <2>3 DEF NUM_ROWS, HeaderAccepted, CellsAt
<1>3. ASSUME specs' = specs
      PROVE  RowDefined' = RowDefined /\ \A r : RowRead(r)' = RowRead(r)
  BY <1>2, <1>3 DEF RowDefined, RowRead
<1>4. ASSUME specs' = specs, data' = data, NEW k \in Nat, ReadUpTo(k)
      PROVE  ReadUpTo(k)'
  BY <1>2, <1>3, <1>4 DEF ReadUpTo
<1>5. CASE DefineRow
  <2>1. HeaderAccepted /\ step' = "rows" /\ data' = <<>>
        /\ specs' = [n \in DOMAIN pairs |->
                       [name |-> MemberName(pairs[n])[1], type |-> TypeName(pairs[n])[1]]]
    BY <1>5 DEF DefineRow
  <2>2. RowDefined'
    BY <1>2, <2>1 DEF RowDefined
  <2>3. ReadUpTo(0)'
    BY <1>2, <2>1 DEF ReadUpTo
  <2> QED
    BY <1>1, <2>1, <2>2, <2>3
<1>6. CASE RefuseHeader
  <2>1. file.damage # "none"
    BY <1>1, <1>6, SoundHeader DEF RefuseHeader
  <2> QED
    BY <1>1, <1>6, <2>1 DEF RefuseHeader, Refuse
<1>7. CASE ReadRow
  <2>1. /\ step = "rows" /\ step' = "rows" /\ specs' = specs
        /\ Len(data) < NUM_ROWS /\ RowAccepted
        /\ data' = Append(data, [n \in DOMAIN specs |-> ParseSizeT(Sanitize(elements[n], " "))])
    BY <1>7 DEF ReadRow
  <2>2. PICK k \in Nat : ReadUpTo(k)
    BY <2>1
  <2>3. Len(data) = k /\ Append(data, RowRead(k + 1)) = [r \in 1 .. k + 1 |-> RowRead(r)]
    BY <2>2, ReadUpToLen
  <2>4. elements = CellsAt(k + 1)
    <3>1. (k + 1) + 1 = k + 2
      OBVIOUS
    <3> QED
      BY <2>3, <3>1 DEF elements, CellsAt
  <2>5. data' = [r \in 1 .. k + 1 |-> RowRead(r)]
    BY <2>1, <2>3, <2>4 DEF RowRead
  <2>6. Len(CellsAt(k + 1)) >= Len(specs) /\ \A n \in DOMAIN specs : specs[n].type = "size_t"
    BY <2>1, <2>4 DEF RowAccepted
  <2>7. \A r \in 1 .. k + 1 : Len(CellsAt(r)) >= Len(specs)
    <3>1. \A r \in 1 .. k + 1 : r \in 1 .. k \/ r = k + 1
      OBVIOUS
    <3> QED
      BY <2>2, <2>6, <3>1 DEF ReadUpTo
  <2>8. k + 1 \in Nat /\ k + 1 <= NUM_ROWS
    <3>1. k < NUM_ROWS
      BY <2>1, <2>3
    <3>2. NUM_ROWS \in Nat
      BY <1>2
    <3> HIDE DEF CsvInv
    <3> QED
      BY <3>1, <3>2
  <2>9. ReadUpTo(k + 1)'
    BY <1>2, <1>3, <2>1, <2>5, <2>6, <2>7, <2>8 DEF ReadUpTo
  <2> QED
    BY <1>1, <1>3, <2>1, <2>8, <2>9
<1>8. CASE RefuseRow
  <2>1. step = "rows" /\ RowDefined /\ step' = "refused"
    BY <1>8 DEF RefuseRow, Refuse
  <2>2. PICK k \in Nat : ReadUpTo(k)
    BY <2>1
  <2>3. Len(data) = k
    BY <2>2, ReadUpToLen
  <2>4. ASSUME file.damage = "none" PROVE FALSE
    <3>1. k < NUM_ROWS => RowAccepted
      BY <1>1, <2>1, <2>2, <2>4, SoundRow
    <3>2. PICK n \in DOMAIN specs : specs[n].type = "std::string_view"
      BY <1>8, <2>3, <3>1 DEF RefuseRow
    <3>3. specs[n].type = TypeOf(DamageAt(file.layout, file.damage, n))
      BY <1>1, <2>1, MembersRead
    <3> QED
      BY <2>4, <3>2, <3>3 DEF TypeOf, DamageAt
  <2> QED
    BY <1>1, <2>1, <2>4
<1>9. CASE Finish
  <2>1. /\ step = "rows" /\ step' = "done" /\ specs' = specs /\ data' = data
        /\ Len(data) = NUM_ROWS
        /\ \A n \in DOMAIN specs : specs[n].type # "std::string_view"
    BY <1>9 DEF Finish
  <2>2. RowDefined' /\ \E k \in Nat : ReadUpTo(k)'
    BY <1>3, <1>4, <2>1
  <2> QED
    BY <1>1, <1>2, <2>1, <2>2
<1>10. CASE UNCHANGED csvVars
  <2>1. step' = step /\ specs' = specs /\ data' = data
    BY <1>10 DEF csvVars
  <2>2. step \in {"rows", "done"} => RowDefined' /\ \E k \in Nat : ReadUpTo(k)'
    BY <1>3, <1>4, <2>1
  <2> QED
    BY <1>1, <1>2, <2>1, <2>2
<1> QED
  BY <1>5, <1>6, <1>7, <1>8, <1>9, <1>10 DEF CsvNext

(* The invariant of the reader: the members are those of the header, and what  *)
(* was read is what stands in the first lines below it.                       *)
THEOREM CsvInvHolds == CsvSpec => []CsvInv
<1>1. CsvInit => CsvInv
  BY CsvInvInit
<1>2. CsvInv /\ [CsvNext]_csvVars => CsvInv'
  BY CsvInvNext
<1> QED
  BY <1>1, <1>2, PTL DEF CsvSpec

(* ReadsBack: the reader (split, sanitize, parse_size_t and the rows they fill) *)
(* reads a well-formed file, and every value comes back under the name of its  *)
(* column, whatever the table, the spaces and the empty lines.                *)
THEOREM WellFormedReadsBack == CsvSpec => []ReadsBack
<1>1. CsvInv => ReadsBack
  <2> SUFFICES ASSUME CsvInv, file.damage = "none"
               PROVE  /\ step # "refused"
                      /\ step = "done" =>
                           /\ Len(data) = Len(file.table.rows)
                           /\ \A r \in DOMAIN data : \A n \in DOMAIN file.table.names :
                                Get(data[r], file.table.names[n])
                                  = Value(file.table.rows[r][n]) % SizeLimit
    BY DEF ReadsBack
  <2>1. step # "refused" /\ file \in File
    BY DEF CsvInv
  <2>2. SUFFICES ASSUME step = "done"
                 PROVE  /\ Len(data) = Len(file.table.rows)
                        /\ \A r \in DOMAIN data : \A n \in DOMAIN file.table.names :
                             Get(data[r], file.table.names[n])
                               = Value(file.table.rows[r][n]) % SizeLimit
    BY <2>1
  <2> DEFINE table == file.table
  <2> DEFINE names == table.names
  <2> DEFINE rows == Len(table.rows)
  <2> DEFINE n == Len(names)
  <2>3. RowDefined /\ Len(data) = NUM_ROWS
    BY <2>2 DEF CsvInv
  <2>4. PICK k \in Nat : ReadUpTo(k)
    BY <2>2 DEF CsvInv
  <2>5. /\ DOMAIN names = 1 .. n
        /\ \A l, m \in 1 .. n : l # m => names[l] # names[m]
    <3>1. IsTable(table)
      BY <2>1, FileRead DEF Given
    <3> QED
      BY <3>1, LenProperties DEF IsTable
  <2>6. NUM_ROWS = rows /\ rows \in Nat
    BY <2>1, RowsRead
  <2>7. k = rows /\ DOMAIN data = 1 .. rows /\ Len(data) = rows
    BY <2>3, <2>4, <2>6, ReadUpToLen
  <2>8. /\ DOMAIN specs = 1 .. n
        /\ \A l \in 1 .. n : specs[l].name = names[l]
    <3>1. /\ DOMAIN specs = 1 .. n
          /\ \A l \in 1 .. n : specs[l].name = NameAt(table, file.layout, file.damage, l)
      BY <2>1, <2>3, MembersRead
    <3>2. \A l : NameAt(table, file.layout, file.damage, l) = names[l]
      BY DEF NameAt
    <3> QED
      BY <3>1, <3>2
  <2>9. ASSUME NEW r \in 1 .. rows, NEW l \in 1 .. n
        PROVE  Get(data[r], names[l]) = Value(table.rows[r][l]) % SizeLimit
    <3>1. data[r] = RowRead(r)
      BY <2>4, <2>7 DEF ReadUpTo
    <3>2. (CHOOSE m \in DOMAIN specs : specs[m].name = names[l]) = l
      BY <2>5, <2>8
    <3>3. Get(data[r], names[l]) = ParseSizeT(Sanitize(CellsAt(r)[l], " "))
      BY <2>8, <3>1, <3>2 DEF Get, RowRead
    <3>4. l \in 1 .. Len(CellsAt(r)) /\ RowIs(CellsAt(r), table.rows[r])
      BY <2>1, RowsRead
    <3> QED
      BY <3>3, <3>4 DEF RowIs
  <2> QED
    BY <2>5, <2>7, <2>9
<1> QED
  BY <1>1, CsvInvHolds, PTL

(* DamageRefused: a file whose header or rows are damaged gives no data, but    *)
(* stops the compiler, whatever the table and the layout.                     *)
THEOREM DamagedRefused == CsvSpec => []DamageRefused
<1>1. CsvInv => DamageRefused
  <2> SUFFICES ASSUME CsvInv, file.damage \in Damages, step = "done" PROVE FALSE
    BY DEF DamageRefused
  <2>1. file \in File /\ RowDefined /\ Len(data) = NUM_ROWS
        /\ \A n \in DOMAIN specs : specs[n].type # "std::string_view"
    BY DEF CsvInv
  <2>2. PICK k \in Nat : ReadUpTo(k)
    BY DEF CsvInv
  <2> DEFINE table == file.table
  <2> DEFINE n == Len(table.names)
  <2> DEFINE rows == Len(table.rows)
  <2> DEFINE column == file.layout.column
  <2>3. /\ file.damage \notin {"no_type", "unknown_type", "same_name"}
        /\ Len(specs) = n /\ DOMAIN specs = 1 .. n
        /\ \A l \in 1 .. n : specs[l].type = TypeOf(DamageAt(file.layout, file.damage, l))
    BY <2>1, MembersRead
  <2>4. k = NUM_ROWS /\ n \in Nat \ {0} /\ rows \in Nat
        /\ NUM_ROWS = rows + (IF file.damage = "blank_line" THEN 1 ELSE 0)
    BY <2>1, <2>2, ReadUpToLen, RowsRead
  <2>5. /\ column \in 1 .. n
        /\ file.damage = "unparsed_type" => table.rows # <<>>
        /\ specs[column].type = TypeOf(file.damage)
    <3>1. Given(table, file.layout, file.damage)
      BY <2>1, FileRead
    <3>2. DOMAIN table.names = 1 .. n
      BY <3>1, LenProperties DEF Given, IsTable
    <3>3. file.damage # "none"
      BY DEF Damages
    <3>4. column \in 1 .. n /\ (file.damage = "unparsed_type" => table.rows # <<>>)
      BY <3>1, <3>2, <3>3 DEF Given, Possible
    <3>5. DamageAt(file.layout, file.damage, column) = file.damage
      BY DEF DamageAt
    <3> QED
      BY <2>3, <3>4, <3>5
  <2>6. CASE file.damage = "unparsed_type"
    <3>1. specs[column].type = "int"
      BY <2>5, <2>6 DEF TypeOf
    <3>2. rows > 0 /\ k = rows
      <4>1. table.rows \in Seq([DOMAIN table.names -> Seq(0 .. 9) \ {<<>>}])
        BY <2>1, FileRead DEF Given, IsTable
      <4>2. rows # 0
        BY <2>5, <2>6, <4>1, EmptySeq
      <4> HIDE DEF rows
      <4> QED
        BY <2>4, <2>6, <4>2
    <3> QED
      BY <2>2, <2>3, <2>5, <3>1, <3>2 DEF ReadUpTo
  <2>7. CASE file.damage = "unassignable_type"
    BY <2>1, <2>3, <2>5, <2>7 DEF TypeOf
  <2>8. CASE file.damage \in {"short_row", "blank_line"}
    <3> DEFINE row == file.layout.row
    <3>1. row \in 1 .. rows /\ Len(CellsAt(row)) \in 1 .. n - 1
      BY <2>1, <2>8, RowsRead
    <3>2. row \in 1 .. k
      <4> HIDE DEF row, rows
      <4> QED
        BY <2>4, <3>1
    <3>3. Len(CellsAt(row)) >= n
      BY <2>2, <2>3, <3>2 DEF ReadUpTo
    <3> DEFINE m == Len(CellsAt(row))
    <3>4. m >= n /\ m \in 1 .. n - 1
      BY <3>1, <3>3
    <3> HIDE DEF m, n
    <3> QED
      BY <2>4, <3>4
  <2> QED
    BY <2>3, <2>6, <2>7, <2>8 DEF Damages
<1> QED
  BY <1>1, CsvInvHolds, PTL
=============================================================================
