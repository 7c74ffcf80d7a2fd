--------------------------- MODULE SlotArithmetic ---------------------------
(***************************************************************************)
(* The arithmetic of slot numbers: which positions of an unbounded index    *)
(* share a slot of a ring of s slots.  Every ring of the repository maps a   *)
(* position to a slot with a remainder, or with a mask that computes one.    *)
(*                                                                         *)
(* And, at the end, what proofs about loops rest on: induction, and that the *)
(* rounds of a loop exist and are determined by its body.                    *)
(***************************************************************************)
EXTENDS Integers, FiniteSetTheorems, WellFoundedInduction, TLAPS

(* A remainder is a slot number. *)
LEMMA ModRange ==
  ASSUME NEW s \in Nat \ {0}, NEW a \in Int
  PROVE  a % s \in 0 .. s - 1
  BY SMT

(* Quotient and remainder determine the remainder. *)
LEMMA ModUnique ==
  ASSUME NEW s \in Nat \ {0}, NEW a \in Int, NEW q \in Int, NEW r \in 0 .. s-1, a = s * q + r
  PROVE  a % s = r
  BY SMT

(* Every integer has a quotient and a remainder. *)
LEMMA DivMod ==
  ASSUME NEW s \in Nat \ {0}, NEW a \in Int
  PROVE  a \div s \in Int /\ a = s * (a \div s) + (a % s)
  BY SMT

(* Multiples of s: the next one, their order and their differences. *)
LEMMA MulSucc ==
  ASSUME NEW s \in Nat, NEW q \in Int
  PROVE  s * (q + 1) = s * q + s
  BY SMT

(* A multiple of s below s has a factor below one. *)
LEMMA MulBelow ==
  ASSUME NEW s \in Nat \ {0}, NEW k \in Int, s * k < s
  PROVE  k < 1
  BY SMT

(* A positive multiple of s has a positive factor. *)
LEMMA MulAbove ==
  ASSUME NEW s \in Nat \ {0}, NEW k \in Int, 0 < s * k
  PROVE  0 < k
  BY SMT

(* The difference of two multiples of s is a multiple of s. *)
LEMMA MulSub ==
  ASSUME NEW s \in Nat, NEW j \in Int, NEW k \in Int
  PROVE  s * (k - j) = s * k - s * j
  BY SMT

(* One lap further is the same slot: pos + Size is in the slot of pos. *)
LEMMA ModShift ==
  ASSUME NEW s \in Nat \ {0}, NEW a \in Int
  PROVE  (a + s) % s = a % s
<1> DEFINE q == a \div s
<1> DEFINE r == a % s
<1>1. q \in Int /\ a = s * q + r
  BY DivMod
<1>2. r \in 0 .. s - 1
  BY ModRange
<1>3. s * (q + 1) = s * q + s
  BY <1>1, MulSucc
<1> HIDE DEF q, r
<1>4. a + s = s * (q + 1) + r
  <2>1. s * q \in Int
    BY <1>1
  <2> QED
    BY <1>1, <1>2, <1>3, <2>1
<1>5. (a + s) % s = r
  BY <1>1, <1>2, <1>4, ModUnique
<1> QED
  BY <1>5 DEF r

(* Positions less than one lap apart are in different slots. *)
LEMMA ModInjective ==
  ASSUME NEW s \in Nat \ {0}, NEW a \in Int, NEW b \in Int, a < b, b < a + s
  PROVE  a % s # b % s
<1> DEFINE i == a \div s
<1> DEFINE j == b \div s
<1> DEFINE r == a % s
<1>1. i \in Int /\ a = s * i + r
  BY DivMod
<1>2. j \in Int /\ b = s * j + (b % s)
  BY DivMod
<1>3. r \in 0 .. s - 1
  BY ModRange
<1> SUFFICES ASSUME b % s = r
             PROVE  FALSE
  OBVIOUS
<1> HIDE DEF i, j, r
<1>4. s * i \in Int /\ s * j \in Int
  BY <1>1, <1>2
<1>5. s * (j - i) = b - a
  <2>1. s * (j - i) = s * j - s * i
    BY <1>1, <1>2, MulSub
  <2> QED
    BY <1>1, <1>2, <1>3, <1>4, <2>1
<1>6. 0 < s * (j - i) /\ s * (j - i) < s
  BY <1>5
<1>7. j - i \in Int
  BY <1>1, <1>2
<1>8. 0 < j - i /\ j - i < 1
  BY <1>6, <1>7, MulBelow, MulAbove
<1> QED
  BY <1>1, <1>2, <1>8

(* Less than a lap ahead in the same slot is not ahead at all. *)
LEMMA ModBehind ==
  ASSUME NEW s \in Nat \ {0}, NEW a \in Int, NEW b \in Int, a % s = b % s, a < b + s
  PROVE  a <= b
<1> SUFFICES ASSUME b < a PROVE FALSE
  OBVIOUS
<1>1. b % s # a % s
  BY ModInjective
<1> QED
  BY <1>1

(* A slot number is its own slot. *)
LEMMA ModSmall ==
  ASSUME NEW s \in Nat \ {0}, NEW r \in 0 .. s - 1
  PROVE  r % s = r
<1>1. r = s * 0 + r
  OBVIOUS
<1> QED
  BY <1>1, ModUnique

(* The slot some positions on depends on the slot only. *)
LEMMA ModPlus ==
  ASSUME NEW s \in Nat \ {0}, NEW a \in Int, NEW b \in Int
  PROVE  ((a % s) + b) % s = (a + b) % s
<1> DEFINE i == a \div s
<1> DEFINE r == a % s
<1> DEFINE j == (r + b) \div s
<1> DEFINE u == (r + b) % s
<1>1. i \in Int /\ a = s * i + r
  BY DivMod
<1>2. r \in Int
  BY ModRange
<1> HIDE DEF i, r
<1>3. j \in Int /\ r + b = s * j + u
  BY <1>2, DivMod
<1>4. u \in 0 .. s - 1
  BY <1>2, ModRange
<1> HIDE DEF j, u
<1>5. s * (i - (0 - j)) = s * i - s * (0 - j) /\ s * (0 - j) = s * 0 - s * j
  BY <1>1, <1>3, MulSub
<1>6. i - (0 - j) \in Int /\ i - (0 - j) = i + j /\ s * i \in Int /\ s * j \in Int /\ s * 0 = 0
  BY <1>1, <1>3
<1>7. s * (i + j) = s * i + s * j
  BY <1>5, <1>6
<1>8. a + b = s * (i + j) + u
  BY <1>1, <1>2, <1>3, <1>4, <1>6, <1>7
<1>9. (a + b) % s = u
  <2>1. a + b \in Int /\ i + j \in Int
    BY <1>1, <1>3
  <2> QED
    BY <2>1, <1>4, <1>8, ModUnique
<1> QED
  BY <1>9 DEF u, r

(* The next slot: one on, and around from the last. *)
LEMMA ModSucc ==
  ASSUME NEW s \in Nat \ {0}, NEW a \in Int
  PROVE  (a + 1) % s = IF (a % s) + 1 = s THEN 0 ELSE (a % s) + 1
<1> DEFINE r == a % s
<1>1. r \in 0 .. s - 1 /\ (r + 1) % s = (a + 1) % s
  <2>1. 1 \in Int /\ r \in 0 .. s - 1
    BY ModRange
  <2> QED
    BY <2>1, ModPlus, Zenon
<1> HIDE DEF r
<1>2. CASE r + 1 = s
  <2>1. s % s = 0
    <3>1. s = s * 1 + 0 /\ 0 \in 0 .. s - 1
      OBVIOUS
    <3> QED
      BY <3>1, ModUnique
  <2> QED
    BY <1>1, <1>2, <2>1 DEF r
<1>3. CASE r + 1 # s
  <2>1. r + 1 \in 0 .. s - 1
    BY <1>1, <1>3
  <2> QED
    BY <1>1, <1>3, <2>1, ModSmall DEF r
<1> QED
  BY <1>2, <1>3

(* The distance from one slot to another, around the ring, is that of their    *)
(* positions when they are less than a lap apart.                            *)
LEMMA ModDistance ==
  ASSUME NEW s \in Nat \ {0}, NEW a \in Int, NEW b \in Int, b <= a, a < b + s
  PROVE  ((a % s) + s - (b % s)) % s = a - b
<1> DEFINE r == b % s
<1> DEFINE i == b \div s
<1>1. r \in 0 .. s - 1 /\ i \in Int /\ b = s * i + r
  BY ModRange, DivMod
<1>2. a % s \in 0 .. s - 1
  BY ModRange
<1> HIDE DEF r, i
<1>3. ((a % s) + (s - r)) % s = (a + (s - r)) % s
  <2>1. s - r \in Int
    BY <1>1
  <2> QED
    BY <2>1, ModPlus, Zenon
<1>4. (a % s) + (s - r) = (a % s) + s - r /\ s - r \in Int
  BY <1>1, <1>2
<1>5. a + (s - r) = s * (i + 1) + (a - b)
  <2>1. s * (i + 1) = s * i + s /\ s * i \in Int
    BY <1>1, MulSucc
  <2> QED
    BY <1>1, <2>1
<1>6. (a + (s - r)) % s = a - b
  <2>1. a - b \in 0 .. s - 1 /\ i + 1 \in Int /\ a + (s - r) \in Int
    BY <1>1
  <2> QED
    BY <1>5, <2>1, ModUnique
<1> QED
  BY <1>3, <1>4, <1>6 DEF r

-----------------------------------------------------------------------------
(* Every set of natural numbers has a least element. *)
LEMMA Least ==
  ASSUME NEW T \in SUBSET Nat, T # {}
  PROVE  \E m \in T : \A k \in T : m <= k
<1> DEFINE Below == {0 .. k - 1 : k \in T}
<1>1. PICK t \in T : TRUE
  OBVIOUS
<1>2. Below \subseteq FiniteSubsetsOf(Nat) /\ Below # {}
  <2>1. ASSUME NEW k \in T PROVE 0 .. k - 1 \in FiniteSubsetsOf(Nat)
    <3>1. 0 \in Int /\ k - 1 \in Int /\ 0 .. k - 1 \subseteq Nat
      OBVIOUS
    <3>2. IsFiniteSet(0 .. k - 1)
      BY <3>1, FS_Interval
    <3> QED
      BY <3>1, <3>2 DEF FiniteSubsetsOf
  <2> QED
    BY <1>1, <2>1
<1> HIDE DEF Below
<1>3. PICK x \in Below : \A y \in Below : ~ (<<y, x>> \in StrictSubsetOrdering(Nat))
  BY <1>2, FS_StrictSubsetOrderingWellFounded, WFMin
<1>4. PICK m \in T : x = 0 .. m - 1
  BY DEF Below
<1>5. ASSUME NEW k \in T PROVE m <= k
  <2>1. SUFFICES ASSUME k < m PROVE FALSE
    OBVIOUS
  <2>2. 0 .. k - 1 \in Below /\ 0 .. k - 1 \subseteq x /\ 0 .. k - 1 # x
    <3>1. k \in x /\ k \notin 0 .. k - 1
      BY <1>4, <2>1
    <3> QED
      BY <1>4, <2>1, <3>1 DEF Below
  <2>3. x \subseteq Nat /\ 0 .. k - 1 \subseteq Nat
    BY <1>4
  <2> QED
    BY <1>3, <2>2, <2>3, <1>2 DEF StrictSubsetOrdering, FiniteSubsetsOf
<1> QED
  BY <1>5

(* Induction, about the set of the numbers that have the property. *)
LEMMA Induction ==
  ASSUME NEW T, 0 \in T, \A n \in Nat : n \in T => n + 1 \in T
  PROVE  Nat \subseteq T
<1> SUFFICES ASSUME Nat \ T # {} PROVE FALSE
  OBVIOUS
<1>1. PICK m \in Nat \ T : \A k \in Nat \ T : m <= k
  BY Least
<1>2. m - 1 \in Nat /\ m - 1 \notin Nat \ T
  BY <1>1
<1>3. m - 1 \in T /\ (m - 1) + 1 = m
  BY <1>2
<1> QED
  BY <1>1, <1>2, <1>3

-----------------------------------------------------------------------------
(* Two loops that agree on each round agree. *)
LEMMA SameRounds ==
  ASSUME NEW n \in Nat, NEW y, NEW z, y[0] = z[0],
         \A k \in 1 .. n : y[k - 1] = z[k - 1] => y[k] = z[k]
  PROVE  y[n] = z[n]
<1> DEFINE T == {k \in Nat : k <= n => y[k] = z[k]}
<1>1. 0 \in T
  OBVIOUS
<1>2. ASSUME NEW k \in Nat, k \in T PROVE k + 1 \in T
  <2>1. CASE k + 1 <= n
    <3>1. PICK j \in 1 .. n : j = k + 1 /\ j - 1 = k
      BY <2>1
    <3>2. y[j - 1] = z[j - 1]
      BY <1>2, <2>1, <3>1
    <3>3. y[j] = z[j]
      BY <3>2
    <3> QED
      BY <3>1, <3>3
  <2>2. CASE ~(k + 1 <= n)
    BY <2>2
  <2> QED
    BY <2>1, <2>2
<1>3. n \in T
  <2> HIDE DEF T
  <2>1. Nat \subseteq T
    BY <1>1, <1>2, Induction
  <2> QED
    BY <2>1
<1> QED
  BY <1>3

(***************************************************************************)
(* The loop whose body is the function F.                                    *)
(***************************************************************************)
Runs(f, F, x, n) == f = [k \in 0 .. n |-> IF k = 0 THEN x ELSE F[<<f[k - 1], k>>]]
LoopOf(F, x, n) == (CHOOSE f : Runs(f, F, x, n))[n]

(* It is a function, on the same set X as its body. *)
LEMMA RunsExist ==
  ASSUME NEW X, NEW n \in Nat, NEW F \in [X \X (1 .. n) -> X], NEW x \in X
  PROVE  \E f \in [0 .. n -> X] : Runs(f, F, x, n)
<1> DEFINE T == {m \in Nat : m <= n => \E f \in [0 .. m -> X] : Runs(f, F, x, m)}
<1>1. 0 \in T
  <2> DEFINE f == [k \in 0 .. 0 |-> x]
  <2>1. f \in [0 .. 0 -> X] /\ f = [k \in 0 .. 0 |-> IF k = 0 THEN x ELSE F[<<f[k - 1], k>>]]
    OBVIOUS
  <2> HIDE DEF f
  <2>2. \E g \in [0 .. 0 -> X] : Runs(g, F, x, 0)
    BY <2>1 DEF Runs
  <2> QED
    BY <2>2
<1>2. ASSUME NEW m \in Nat, m \in T PROVE m + 1 \in T
  <2>1. CASE m + 1 <= n
    <3>1. PICK f \in [0 .. m -> X] : Runs(f, F, x, m)
      BY <1>2, <2>1
    <3> DEFINE g == [k \in 0 .. m + 1 |-> IF k = m + 1 THEN F[<<f[m], m + 1>>] ELSE f[k]]
    <3>2. g \in [0 .. m + 1 -> X]
      <4>1. f[m] \in X /\ m + 1 \in 1 .. n
        BY <2>1
      <4>2. F[<<f[m], m + 1>>] \in X
        BY <4>1
      <4>3. \A k \in 0 .. m + 1 : (IF k = m + 1 THEN F[<<f[m], m + 1>>] ELSE f[k]) \in X
        <5> SUFFICES ASSUME NEW k \in 0 .. m + 1, k # m + 1 PROVE f[k] \in X
          BY <4>2
        <5>1. k \in 0 .. m
          OBVIOUS
        <5> QED
          BY <5>1
      <4> QED
        BY <4>3
    <3>a. g[m + 1] = F[<<f[m], m + 1>>] /\ \A k \in 0 .. m : g[k] = f[k]
      <4>1. m + 1 \in 0 .. m + 1 /\ \A k \in 0 .. m : k \in 0 .. m + 1 /\ k # m + 1
        OBVIOUS
      <4> QED
        BY <4>1
    <3>3. ASSUME NEW k \in 0 .. m + 1
          PROVE  g[k] = IF k = 0 THEN x ELSE F[<<g[k - 1], k>>]
      <4>1. CASE k = m + 1
        <5>1. k # 0 /\ k - 1 = m /\ k - 1 \in 0 .. m + 1 /\ k - 1 # m + 1
          BY <4>1
        <5>2. g[k - 1] = f[m]
          <6>1. m \in 0 .. m
            OBVIOUS
          <6>2. g[m] = f[m]
            BY <3>a, <6>1
          <6> QED
            BY <5>1, <6>2
        <5> QED
          BY <4>1, <5>1, <5>2, <3>a
      <4>2. CASE k # m + 1
        <5>1. k \in 0 .. m /\ g[k] = f[k]
          BY <4>2
        <5>2. f[k] = IF k = 0 THEN x ELSE F[<<f[k - 1], k>>]
          BY <3>1, <5>1 DEF Runs
        <5>3. k # 0 => g[k - 1] = f[k - 1]
          <6>1. k # 0 => k - 1 \in 0 .. m
            BY <4>2
          <6> QED
            BY <6>1, <3>a
        <5> QED
          BY <5>1, <5>2, <5>3
      <4> QED
        BY <4>1, <4>2
    <3>4. g = [k \in 0 .. m + 1 |-> g[k]]
      OBVIOUS
    <3> HIDE DEF g
    <3>5. g = [k \in 0 .. m + 1 |-> IF k = 0 THEN x ELSE F[<<g[k - 1], k>>]]
      BY <3>3, <3>4
    <3>6. Runs(g, F, x, m + 1)
      BY <3>5 DEF Runs
    <3> QED
      BY <3>2, <3>6
  <2>2. CASE ~(m + 1 <= n)
    BY <2>2
  <2> QED
    BY <2>1, <2>2
<1>3. n \in T
  <2> HIDE DEF T
  <2>1. Nat \subseteq T
    BY <1>1, <1>2, Induction
  <2> QED
    BY <2>1
<1> QED
  BY <1>3
=============================================================================
