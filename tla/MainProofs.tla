----------------------------- MODULE MainProofs -----------------------------
(***************************************************************************)
(* Proofs about executeBench and the benchables, whatever calls main makes,   *)
(* for any number of iterations, elements, samples and blocks of the heap.   *)
(***************************************************************************)
EXTENDS Main, SlotArithmetic, SequenceTheorems, FiniteSetTheorems

(***************************************************************************)
(* Where the program may be: with a benchable's turn under way, and with the  *)
(* timer going.                                                              *)
(***************************************************************************)
Active == {"start", "run", "run_free", "end", "reset", "reset_free", "clear", "add"}
Timed == {"run", "run_free", "end"}

IsSeq(s) == s \in Seq({s[k] : k \in DOMAIN s})

(* The benchables of a call: what their template arguments may be, and that a    *)
(* call compares rivals.                                                     *)
ProperArguments(b) ==
  /\ b.class = "VectorWrapper" => b.S \in Nat
  /\ b.class = "StringRunner" => b.N \in Nat \ {0}
  /\ b.class = "ArrayWrite" => b.AccessIndex \in 0 .. 63
ComparesRivals(call) ==
  \A j, k \in DOMAIN call :
    call[j].class \in Comparable /\ call[k].class \in Comparable => Rivals(call[j], call[k])

ProperCall(call) ==
  /\ IsSeq(call) /\ Len(call) > 0
  /\ \A j, k \in DOMAIN call : j # k => call[j].name # call[k].name
  /\ \A k \in DOMAIN call : ProperArguments(call[k])
  /\ ComparesRivals(call)
  /\ \A k \in DOMAIN call :
       IsAllocation(call[k]) =>
         \E A \in {"ARENA", "NEW"}, BenchesDeletion, VariableAllocSizes \in BOOLEAN :
           call[k] = AllocationBench(A, BenchesDeletion, VariableAllocSizes)

CallsInv ==
  /\ IsSeq(calls) /\ Len(calls) > 0
  /\ \A c \in DOMAIN calls : ProperCall(calls[c])

(* The loops of main, executeBench and the timer. *)
ControlInv ==
  /\ CallsInv
  /\ numSamples \in Nat \ {0}
  /\ bench \in 1 .. Len(calls[1])
  /\ pc \in Active \cup {"construct", "print", "returned", "failed"}
  /\ pc # "failed" => (isTiming <=> pc \in Timed)
  /\ pc \in Active => sample \in 0 .. numSamples - 1 /\ DOMAIN members = DOMAIN calls[1]
  /\ pc \in {"print", "returned"} => sample = numSamples /\ bench = 1
  /\ pc = "construct" => sample = 0 /\ bench = 1

(***************************************************************************)
(* t is the time of a run of b; that of an allocation bench holds all its       *)
(* allocations, and the freeing only if it is to be timed.                    *)
(***************************************************************************)
Freed(b) == IF ~b.BenchesDeletion THEN 0 ELSE IF b.A = "ARENA" THEN 1 ELSE PerRun
IsTimeOf(t, b) ==
  /\ t.of = b
  /\ IsAllocation(b) => t.allocated = PerRun /\ t.freed = Freed(b)

(* How many entries the collection has, and how many times the k-th has.        *)
Entries == IF sample > 0 THEN Len(calls[1]) ELSE bench - 1
Samples(k) == IF k < bench THEN sample + 1 ELSE sample

(* c is an entry of n times for the benchable b. *)
IsEntry(c, b, n) ==
  /\ c = [name |-> b.name, clockTimes |-> c.clockTimes]
  /\ IsSeq(c.clockTimes)
  /\ Len(c.clockTimes) = n
  /\ \A m \in 1 .. n : IsTimeOf(c.clockTimes[m], b)

(* The collection has an entry for every benchable that had its turn. *)
CollectionInv ==
  /\ pc = "failed" => collection = <<>>
  /\ pc # "failed" =>
       /\ IsSeq(collection)
       /\ Len(collection) = Entries
       /\ \A k \in 1 .. Entries : IsEntry(collection[k], calls[1][k], Samples(k))

(* What is printed are the first entries, and none if there are too few times.  *)
PrintedInv ==
  /\ pc \notin {"print", "returned"} => printed = <<>>
  /\ pc \in {"print", "returned"} =>
       /\ printed \in Seq({<<calls[1][k].name, numSamples>> : k \in DOMAIN calls[1]})
       /\ Len(printed) <= Len(calls[1])
       /\ \A k \in 1 .. Len(printed) : printed[k] = <<calls[1][k].name, numSamples>>
       /\ Len(printed) > 0 => numSamples >= Needed
  /\ pc = "returned" => Len(printed) = Len(calls[1])

(* What happened since the timer was started. *)
Shaped(w) == w = [of |-> w.of, allocated |-> w.allocated, freed |-> w.freed, did |-> w.did]
WorkInv ==
  /\ Shaped(work)
  /\ pc \in Active \ {"start"} => work.of = Turn
  /\ pc \in Active \ {"start"} /\ IsAllocation(Turn) =>
       CASE pc = "run" -> work.allocated = i /\ work.freed = 0
         [] pc = "run_free" -> work.allocated = PerRun /\ work.freed = i
         [] OTHER -> IsTimeOf(work, Turn)

-----------------------------------------------------------------------------
(***************************************************************************)
(* The members of an allocation bench b whose pointers are m.a, and the        *)
(* positions of those not given back yet, which for new are the heap.         *)
(***************************************************************************)
IsMember(m, b) ==
  /\ m = [a |-> m.a, sizes |-> m.sizes, current |-> m.current]
  /\ m.a \in Seq(IF b.A = "ARENA" THEN Nat ELSE Block)
  /\ m.sizes \in Fills(b)
  /\ m.current \in Nat

Empty(m) == m.a = <<>> /\ m.current = 0

Held ==
  CASE pc = "run" -> 1 .. Len(This.a)
    [] pc \in {"run_free", "reset_free"} -> i + 1 .. Len(This.a)
    [] pc \in {"end", "reset"} -> IF Turn.BenchesDeletion THEN {} ELSE 1 .. Len(This.a)
    [] OTHER -> {}

(* Where a run is in its loops. *)
LoopInv ==
  /\ pc \in {"run", "run_free", "reset_free"} => i \in 0 .. PerRun - 1
  /\ pc = "run" => Len(This.a) = i
  /\ pc \in {"run_free", "end", "reset", "reset_free"} => Len(This.a) = PerRun
  /\ pc = "run_free" => Turn.BenchesDeletion
  /\ pc = "reset_free" => ~Turn.BenchesDeletion
  /\ pc \in {"start", "clear", "add"} => Held = {}

NewInv ==
  /\ This.current = 0
  /\ \A j, k \in DOMAIN This.a : j # k => This.a[j] # This.a[k]
  /\ heap = {This.a[k] : k \in Held}

ArenaInv ==
  /\ heap = {}
  /\ pc \in {"run_free", "reset_free"} => i = 0
  /\ Held = {} => This.current = 0
  /\ Held # {} =>
       /\ \A j \in DOMAIN This.a : This.a[j] + SizeOf(Turn, This, j) <= This.current
       /\ \A j, k \in DOMAIN This.a :
            j < k => This.a[j] + SizeOf(Turn, This, j) <= This.a[k]

(* All of the members, and the heap. *)
OthersInv ==
  /\ pc \in Active => \A k \in Allocating : IsMember(members[k], calls[1][k])
  /\ pc \in Active => \A k \in Allocating : k # bench \/ pc \in {"start", "add"} => Empty(members[k])
  /\ pc \notin {"run", "run_free", "reset_free", "failed"} => i = 0
  /\ pc = "run" /\ ~IsAllocation(Turn) /\ Turn.class \notin {"VectorWrapper", "StringRunner"} => i = 0
  /\ pc \in {"run_free", "reset_free", "clear"} => IsAllocation(Turn)
  /\ pc # "failed" /\ (pc \notin Active \/ ~IsAllocation(Turn)) => heap = {}

TurnInv ==
  pc \in Active /\ IsAllocation(Turn) =>
    /\ LoopInv
    /\ Turn.A = "NEW" => NewInv
    /\ Turn.A = "ARENA" => ArenaInv

RunnerInv == ControlInv /\ CollectionInv /\ PrintedInv
Inv == RunnerInv /\ WorkInv /\ OthersInv /\ TurnInv

(* A step of a benchable between the two ends of its turn. *)
Body ==
  /\ UNCHANGED loopVars
  /\ pc \in Active \ {"start", "add"} /\ pc' \in Active \ {"start"}
  /\ (pc' \in Timed <=> pc \in Timed)
  /\ DOMAIN members' = DOMAIN members

-----------------------------------------------------------------------------
(* A sequence and one more element. *)
LEMMA AppendIsSeq ==
  ASSUME NEW s, IsSeq(s), NEW e
  PROVE  /\ IsSeq(Append(s, e)) /\ Len(s) \in Nat /\ Len(Append(s, e)) = Len(s) + 1
         /\ \A k \in 1 .. Len(s) : Append(s, e)[k] = s[k]
         /\ Append(s, e)[Len(s) + 1] = e
<1> DEFINE S == {s[k] : k \in DOMAIN s} \cup {e}
<1> DEFINE t == Append(s, e)
<1>1. s \in Seq(S)
  <2>1. s \in Seq({s[k] : k \in DOMAIN s})
    BY DEF IsSeq
  <2>2. {s[k] : k \in DOMAIN s} \subseteq S
    OBVIOUS
  <2> HIDE DEF S
  <2> QED
    BY <2>1, <2>2
<1>2. e \in S
  OBVIOUS
<1> HIDE DEF S
<1>3. /\ t \in Seq(S) /\ Len(s) \in Nat /\ Len(t) = Len(s) + 1
      /\ \A k \in 1 .. Len(s) : t[k] = s[k]
      /\ t[Len(s) + 1] = e
  BY <1>1, <1>2
<1> HIDE DEF t
<1>4. t \in Seq({t[k] : k \in DOMAIN t})
  <2>1. \A k \in DOMAIN t : t[k] \in {t[j] : j \in DOMAIN t}
    OBVIOUS
  <2>2. DOMAIN t = 1 .. Len(t) /\ Len(t) \in Nat /\ t = [k \in 1 .. Len(t) |-> t[k]]
    BY <1>3
  <2> DEFINE T == {t[j] : j \in DOMAIN t}
  <2> HIDE DEF T
  <2>3. \A k \in 1 .. Len(t) : t[k] \in T
    BY <2>1, <2>2 DEF T
  <2>4. t \in Seq(T)
    BY <2>2, <2>3
  <2> QED
    BY <2>4 DEF T
<1> QED
  BY <1>3, <1>4 DEF t, IsSeq

(* A function of the numbers up to n. *)
LEMMA FunctionIsSeq ==
  ASSUME NEW n \in Nat, NEW f, f = [k \in 1 .. n |-> f[k]]
  PROVE  IsSeq(f) /\ Len(f) = n
<1> DEFINE T == {f[j] : j \in DOMAIN f}
<1>1. DOMAIN f = 1 .. n
  OBVIOUS
<1>2. \A k \in 1 .. n : f[k] \in T
  BY <1>1
<1> HIDE DEF T
<1>3. f \in Seq(T) /\ Len(f) = n
  BY <1>1, <1>2
<1> QED
  BY <1>3 DEF T, IsSeq

(* A sequence is the function of its elements. *)
LEMMA SeqIsFunction ==
  ASSUME NEW s, IsSeq(s)
  PROVE  /\ Len(s) \in Nat /\ DOMAIN s = 1 .. Len(s)
         /\ s = [k \in 1 .. Len(s) |-> s[k]]
<1> DEFINE T == {s[j] : j \in DOMAIN s}
<1>1. s \in Seq(T)
  BY DEF IsSeq
<1> HIDE DEF T
<1> QED
  BY <1>1

(* A run makes at least one allocation. *)
LEMMA PerRunPositive == PerRun \in Nat \ {0}
<1>1. iterations \in Nat \ {0} /\ n_elements \in Nat \ {0}
  BY RunnerAssumption, AllocationAssumption
<1>2. \A x, y \in Nat \ {0} : x * y \in Nat \ {0}
  BY SMT
<1> QED
  BY <1>1, <1>2 DEF PerRun

(* The benchable whose turn it is. *)
LEMMA TurnFacts ==
  ASSUME ControlInv
  PROVE  /\ ProperCall(calls[1])
         /\ DOMAIN calls[1] = 1 .. Len(calls[1]) /\ Len(calls[1]) \in Nat \ {0}
         /\ bench \in DOMAIN calls[1] /\ Turn = calls[1][bench]
<1>1. DOMAIN calls = 1 .. Len(calls) /\ Len(calls) \in Nat
  BY SeqIsFunction DEF ControlInv, CallsInv
<1>2. 1 \in DOMAIN calls
  BY <1>1 DEF ControlInv, CallsInv
<1>3. ProperCall(calls[1])
  BY <1>2 DEF ControlInv, CallsInv
<1>4. DOMAIN calls[1] = 1 .. Len(calls[1]) /\ Len(calls[1]) \in Nat /\ Len(calls[1]) > 0
  BY <1>3, SeqIsFunction DEF ProperCall
<1> QED
  BY <1>3, <1>4 DEF ControlInv, Turn

(* The template arguments of an allocation bench. *)
LEMMA Templates ==
  ASSUME NEW call, ProperCall(call), NEW k \in DOMAIN call, IsAllocation(call[k])
  PROVE  /\ call[k].A \in {"ARENA", "NEW"}
         /\ call[k].BenchesDeletion \in BOOLEAN /\ call[k].VariableAllocSizes \in BOOLEAN
<1>1. PICK A \in {"ARENA", "NEW"}, d \in BOOLEAN, v \in BOOLEAN :
        call[k] = AllocationBench(A, d, v)
  BY DEF ProperCall
<1> DEFINE b == call[k]
<1>2. b.A = A /\ b.BenchesDeletion = d /\ b.VariableAllocSizes = v
  <2>1. b = AllocationBench(A, d, v)
    BY <1>1
  <2> HIDE DEF b
  <2>2. b.A = A
    BY <2>1 DEF AllocationBench
  <2>3. b.BenchesDeletion = d
    BY <2>1, Zenon DEF AllocationBench
  <2>4. b.VariableAllocSizes = v
    BY <2>1, Zenon DEF AllocationBench
  <2> QED
    BY <2>2, <2>3, <2>4, Zenon
<1> QED
  BY <1>2, Zenon

-----------------------------------------------------------------------------
(* An entry with one more time, and one with its first.                       *)
LEMMA EntryLonger ==
  ASSUME NEW c, NEW b, NEW n \in Nat, NEW t, IsEntry(c, b, n), IsTimeOf(t, b)
  PROVE  IsEntry([c EXCEPT !.clockTimes = Append(@, t)], b, n + 1)
<1> DEFINE times == c.clockTimes
<1> DEFINE d == [c EXCEPT !.clockTimes = Append(@, t)]
<1>1. /\ c = [name |-> b.name, clockTimes |-> times]
      /\ IsSeq(times) /\ Len(times) = n
      /\ \A m \in 1 .. n : IsTimeOf(times[m], b)
  BY DEF IsEntry
<1> HIDE DEF times
<1>2. /\ IsSeq(Append(times, t)) /\ Len(Append(times, t)) = n + 1
      /\ \A m \in 1 .. n : Append(times, t)[m] = times[m]
      /\ Append(times, t)[n + 1] = t
  BY <1>1, AppendIsSeq
<1>3. d = [name |-> b.name, clockTimes |-> Append(times, t)]
  <2>1. d = [c EXCEPT !.clockTimes = Append(times, t)]
    BY Zenon DEF times
  <2> HIDE DEF d
  <2> QED
    BY <1>1, <2>1
<1> HIDE DEF d
<1>4. d.clockTimes = Append(times, t)
  BY <1>3
<1>5. ASSUME NEW m \in 1 .. n + 1
      PROVE  IsTimeOf(Append(times, t)[m], b)
  <2>1. CASE m \in 1 .. n
    BY <2>1, <1>1, <1>2, Zenon
  <2>2. CASE m = n + 1
    BY <2>2, <1>2, Zenon
  <2>3. m \in 1 .. n \/ m = n + 1
    OBVIOUS
  <2> QED
    BY <2>1, <2>2, <2>3, Zenon
<1>6. IsEntry(d, b, n + 1)
  BY <1>2, <1>3, <1>4, <1>5, Zenon DEF IsEntry
<1> QED
  BY <1>6 DEF d

(* The first time of a benchable makes an entry. *)
LEMMA EntryNew ==
  ASSUME NEW b, NEW t, IsTimeOf(t, b)
  PROVE  IsEntry([name |-> b.name, clockTimes |-> <<t>>], b, 1)
<1> DEFINE c == [name |-> b.name, clockTimes |-> <<t>>]
<1>1. <<t>> = [k \in 1 .. 1 |-> <<t>>[k]] /\ 1 \in Nat /\ <<t>>[1] = t
  OBVIOUS
<1>2. IsSeq(<<t>>) /\ Len(<<t>>) = 1
  BY <1>1, FunctionIsSeq
<1>3. c.clockTimes = <<t>> /\ c = [name |-> b.name, clockTimes |-> c.clockTimes]
  OBVIOUS
<1> HIDE DEF c
<1>4. \A m \in 1 .. 1 : IsTimeOf(<<t>>[m], b)
  <2>1. \A m \in 1 .. 1 : m = 1
    OBVIOUS
  <2> QED
    BY <1>1, <2>1, Zenon
<1>5. IsEntry(c, b, 1)
  BY <1>2, <1>3, <1>4, Zenon DEF IsEntry
<1> QED
  BY <1>5 DEF c

(* addTime finds the entry of the benchable whose turn it is, by its name, or  *)
(* appends it: the entries stay those of the benchables, in their order.       *)
LEMMA AddedEntries ==
  ASSUME ControlInv, CollectionInv, pc = "add", IsTimeOf(work, Turn)
  PROVE  LET c == Added(Turn.name, work) IN
         /\ IsSeq(c)
         /\ Len(c) = IF sample > 0 THEN Len(calls[1]) ELSE bench
         /\ \A k \in 1 .. Len(c) :
              IsEntry(c[k], calls[1][k], IF k <= bench THEN sample + 1 ELSE sample)
         /\ \A k \in 1 .. Len(c) : k # bench => c[k] = collection[k]
         /\ \A n \in 1 .. sample : c[bench].clockTimes[n] = collection[bench].clockTimes[n]
         /\ c[bench].clockTimes[sample + 1] = work
<1> DEFINE call == calls[1]
<1> DEFINE c == Added(Turn.name, work)
<1>1. /\ IsSeq(collection) /\ Len(collection) = Entries
      /\ \A k \in 1 .. Entries : IsEntry(collection[k], call[k], Samples(k))
  BY DEF CollectionInv
<1>2. /\ DOMAIN call = 1 .. Len(call) /\ Len(call) \in Nat \ {0} /\ bench \in DOMAIN call
      /\ Turn = call[bench] /\ ProperCall(call)
  BY TurnFacts
<1>3. sample \in Nat /\ bench \in 1 .. Len(call)
  BY DEF ControlInv, Active
<1>4. \A j, k \in DOMAIN call : j # k => call[j].name # call[k].name
  BY <1>2, Zenon DEF ProperCall
<1>5. Entries \in Nat /\ Entries <= Len(call)
  BY <1>2, <1>3 DEF Entries
<1>6. DOMAIN collection = 1 .. Entries /\ collection = [k \in 1 .. Entries |-> collection[k]]
  BY <1>1, SeqIsFunction, Zenon
<1> HIDE DEF call
<1>7. \A k \in 1 .. Entries : collection[k].name = call[k].name
  <2>1. ASSUME NEW k \in 1 .. Entries PROVE collection[k].name = call[k].name
    <3>1. collection[k] = [name |-> call[k].name, clockTimes |-> collection[k].clockTimes]
      BY <1>1, Zenon DEF IsEntry
    <3> QED
      BY <3>1
  <2> QED
    BY <2>1
<1>8. \A k \in 1 .. Entries : k \in DOMAIN call
  BY <1>2, <1>5
<1>9. CASE sample > 0
  <2>1. Entries = Len(call) /\ bench \in 1 .. Entries
    BY <1>9, <1>3 DEF Entries, call
  <2>2. \A k \in 1 .. Entries : collection[k].name = Turn.name <=> k = bench
    BY <1>2, <1>4, <1>7, <1>8, <2>1, Zenon
  <2> DEFINE First(k) == /\ collection[k].name = Turn.name
                         /\ \A j \in 1 .. k - 1 : collection[j].name # Turn.name
  <2>3. First(bench)
    <3>1. \A j \in 1 .. bench - 1 : j \in 1 .. Entries /\ j # bench
      BY <1>3, <2>1
    <3> QED
      BY <3>1, <2>1, <2>2, Zenon
  <2>4. (CHOOSE k \in DOMAIN collection : First(k)) = bench
    <3>1. \A k \in DOMAIN collection : First(k) <=> k = bench
      BY <2>2, <2>3, <1>6, Zenon
    <3> HIDE DEF First
    <3>2. bench \in DOMAIN collection
      BY <2>1, <1>6
    <3> QED
      BY <3>1, <3>2
  <2>5. c = [collection EXCEPT ![bench].clockTimes = Append(@, work)]
    <3>1. \E k \in DOMAIN collection : collection[k].name = Turn.name
      BY <2>1, <2>2, <1>6, Zenon
    <3> QED
      BY <3>1, <2>4, Zenon DEF Added
  <2> HIDE DEF c, First
  <2>6. /\ c = [k \in 1 .. Entries |-> c[k]]
        /\ \A k \in 1 .. Entries : k # bench => c[k] = collection[k]
        /\ c[bench] = [collection[bench] EXCEPT !.clockTimes = Append(@, work)]
    BY <2>5, <1>6, <2>1
  <2>7. IsSeq(c) /\ Len(c) = Entries
    BY <2>6, <1>5, FunctionIsSeq, Zenon
  <2>8. ASSUME NEW k \in 1 .. Entries
        PROVE  IsEntry(c[k], call[k], IF k <= bench THEN sample + 1 ELSE sample)
    <3>1. IsEntry(collection[k], call[k], Samples(k))
      BY <1>1
    <3>2. CASE k = bench
      <4>1. Samples(k) = sample /\ k <= bench
        BY <3>2, <1>3 DEF Samples
      <4>2. IsEntry(collection[bench], call[bench], sample)
        BY <3>1, <3>2, <4>1, Zenon
      <4>3. IsTimeOf(work, call[bench])
        BY <1>2, Zenon
      <4>4. IsEntry([collection[bench] EXCEPT !.clockTimes = Append(@, work)],
                    call[bench], sample + 1)
        BY <4>2, <4>3, <1>3, EntryLonger
      <4>5. IsEntry(c[bench], call[bench], sample + 1)
        BY <4>4, <2>6, Zenon
      <4> QED
        BY <4>1, <4>5, <3>2, Zenon
    <3>3. CASE k # bench
      <4>1. Samples(k) = IF k <= bench THEN sample + 1 ELSE sample
        BY <3>3, <1>3, <1>5 DEF Samples
      <4> QED
        BY <4>1, <3>1, <3>3, <2>6, Zenon
    <3> QED
      BY <3>2, <3>3
  <2>9. /\ \A n \in 1 .. sample : c[bench].clockTimes[n] = collection[bench].clockTimes[n]
        /\ c[bench].clockTimes[sample + 1] = work
    <3> DEFINE old == collection[bench]
    <3>1. IsEntry(old, call[bench], sample)
      BY <1>1, <1>3, <2>1 DEF Samples
    <3>2. old = [name |-> call[bench].name, clockTimes |-> old.clockTimes]
          /\ IsSeq(old.clockTimes) /\ Len(old.clockTimes) = sample
      BY <3>1, Zenon DEF IsEntry
    <3>3. c[bench] = [old EXCEPT !.clockTimes = Append(@, work)]
      BY <2>6
    <3> HIDE DEF old
    <3>4. c[bench].clockTimes = Append(old.clockTimes, work)
      BY <3>2, <3>3
    <3> DEFINE times == old.clockTimes
    <3> DEFINE new == Append(times, work)
    <3>5. /\ \A n \in 1 .. Len(times) : new[n] = times[n]
          /\ new[Len(times) + 1] = work /\ Len(times) = sample
          /\ c[bench].clockTimes = new
      BY <3>2, <3>4, AppendIsSeq
    <3> HIDE DEF new
    <3>6. \A n \in 1 .. sample : new[n] = times[n]
      BY <3>5
    <3>7. new[sample + 1] = work
      BY <3>5
    <3> QED
      BY <3>5, <3>6, <3>7 DEF old
  <2> QED
    BY <2>1, <2>6, <2>7, <2>8, <2>9, <1>9, Zenon DEF call, c
<1>10. CASE ~(sample > 0)
  <2>1. Entries = bench - 1 /\ sample = 0 /\ bench \notin 1 .. Entries
    BY <1>10, <1>3 DEF Entries
  <2>2. ~\E k \in DOMAIN collection : collection[k].name = Turn.name
    BY <1>2, <1>4, <1>6, <1>7, <1>8, <2>1, Zenon
  <2> DEFINE e == [name |-> Turn.name, clockTimes |-> <<work>>]
  <2>3. c = Append(collection, e)
    BY <2>2, Zenon DEF Added
  <2>4. IsEntry(e, call[bench], 1)
    BY <1>2, EntryNew, Zenon
  <2> HIDE DEF c, e
  <2>5. /\ IsSeq(c) /\ Len(c) = Entries + 1
        /\ \A k \in 1 .. Entries : c[k] = collection[k]
        /\ c[Entries + 1] = e
    BY <2>3, <1>1, AppendIsSeq
  <2>6. Entries + 1 = bench
    BY <2>1, <1>3
  <2>7. ASSUME NEW k \in 1 .. bench
        PROVE  IsEntry(c[k], call[k], IF k <= bench THEN sample + 1 ELSE sample)
    <3>1. k <= bench /\ sample + 1 = 1 /\ bench \in Int
      BY <2>1, <1>3
    <3>2. CASE k = bench
      BY <3>1, <3>2, <2>4, <2>5, <2>6, Zenon
    <3>3. CASE k # bench
      <4>1. k \in 1 .. Entries /\ Samples(k) = sample + 1
        BY <3>3, <1>3, <2>1 DEF Samples
      <4>2. IsEntry(collection[k], call[k], sample + 1)
        BY <4>1, <1>1, Zenon
      <4> QED
        BY <4>1, <4>2, <3>1, <2>5, Zenon
    <3> QED
      BY <3>2, <3>3
  <2>8. \A k \in 1 .. bench : k # bench => c[k] = collection[k]
    <3>1. \A k \in 1 .. bench : k # bench => k \in 1 .. Entries
      BY <1>3, <2>1
    <3> QED
      BY <2>5, <3>1, Zenon
  <2>9. 1 .. sample = {} /\ c[bench].clockTimes[sample + 1] = work
    BY <2>1, <2>5, <2>6 DEF e
  <2>10. Len(c) = bench
    BY <2>5, <2>6
  <2> QED
    BY <2>5, <2>7, <2>8, <2>9, <2>10, <1>10, Zenon DEF call, c
<1> QED
  BY <1>9, <1>10

-----------------------------------------------------------------------------
(* What a step leaves alone stays true. *)
LEMMA CallsSame ==
  ASSUME CallsInv, calls' = calls
  PROVE  CallsInv'
BY DEF CallsInv

(* Nothing happens to the collection within a turn. *)
LEMMA CollectionSame ==
  ASSUME CollectionInv, pc # "failed", pc' # "failed",
         calls' = calls, sample' = sample, bench' = bench, collection' = collection
  PROVE  CollectionInv'
BY DEF CollectionInv, Entries, Samples

(* A step of a run or a reset leaves the runner where it is. *)
LEMMA BodyKeepsRunner ==
  ASSUME RunnerInv, Body
  PROVE  RunnerInv'
<1>1. /\ calls' = calls /\ numSamples' = numSamples /\ sample' = sample /\ bench' = bench
      /\ isTiming' = isTiming /\ collection' = collection /\ printed' = printed
      /\ pc \in Active \ {"start", "add"} /\ pc' \in Active \ {"start"}
      /\ (pc' \in Timed <=> pc \in Timed) /\ DOMAIN members' = DOMAIN members
  BY Zenon DEF Body, loopVars
<1>2. CallsInv'
  BY <1>1, CallsSame DEF RunnerInv, ControlInv
<1>3. ControlInv'
  BY <1>1, <1>2 DEF RunnerInv, ControlInv, Active, Timed
<1>4. CollectionInv'
  BY <1>1, CollectionSame DEF RunnerInv, Active
<1>5. PrintedInv'
  BY <1>1 DEF RunnerInv, PrintedInv, Active
<1> QED
  BY <1>3, <1>4, <1>5 DEF RunnerInv

(* An exception throws the collection away, with nothing printed. *)
LEMMA FailKeepsRunner ==
  ASSUME RunnerInv, Fail, printed = <<>>
  PROVE  RunnerInv'
<1>1. /\ calls' = calls /\ numSamples' = numSamples /\ sample' = sample /\ bench' = bench
      /\ collection' = <<>> /\ printed' = printed /\ pc' = "failed"
  BY DEF Fail
<1>2. CallsInv'
  BY <1>1, CallsSame DEF RunnerInv, ControlInv
<1>3. ControlInv'
  BY <1>1, <1>2 DEF RunnerInv, ControlInv, Active, Timed
<1>4. CollectionInv' /\ PrintedInv'
  BY <1>1 DEF CollectionInv, PrintedInv
<1> QED
  BY <1>3, <1>4 DEF RunnerInv

(* Each step of executeBench keeps RunnerInv. *)
LEMMA ConstructKeepsRunner ==
  ASSUME RunnerInv, Construct(Made(calls[1]))
  PROVE  RunnerInv'
<1>1. /\ calls' = calls /\ numSamples' = numSamples /\ sample' = sample /\ bench' = bench
      /\ isTiming' = isTiming /\ collection' = collection /\ printed' = printed
      /\ pc = "construct" /\ pc' = "start"
  BY DEF Construct
<1>2. CallsInv'
  BY <1>1, CallsSame DEF RunnerInv, ControlInv
<1>3. DOMAIN members' = DOMAIN calls[1]
  BY DEF Construct, Made
<1>4. ControlInv'
  BY <1>1, <1>2, <1>3 DEF RunnerInv, ControlInv, Active, Timed
<1>5. CollectionInv'
  BY <1>1, CollectionSame DEF RunnerInv
<1>6. PrintedInv'
  BY <1>1 DEF RunnerInv, PrintedInv
<1> QED
  BY <1>4, <1>5, <1>6 DEF RunnerInv

(* The timer goes while a run does. *)
LEMMA TimerKeepsRunner ==
  ASSUME RunnerInv, StartTimer \/ EndTimer
  PROVE  RunnerInv'
<1>1. /\ calls' = calls /\ numSamples' = numSamples /\ sample' = sample /\ bench' = bench
      /\ members' = members /\ collection' = collection /\ printed' = printed
      /\ \/ pc = "start" /\ pc' = "run" /\ isTiming' = TRUE
         \/ pc = "end" /\ pc' = "reset" /\ isTiming' = FALSE
  BY DEF StartTimer, EndTimer
<1>2. CallsInv'
  BY <1>1, CallsSame DEF RunnerInv, ControlInv
<1>3. ControlInv'
  <2>1. (isTiming' <=> pc' \in Timed)
    BY <1>1 DEF Timed
  <2> QED
    BY <1>1, <1>2, <2>1 DEF RunnerInv, ControlInv, Active, Timed
<1>4. CollectionInv'
  BY <1>1, CollectionSame DEF RunnerInv
<1>5. PrintedInv'
  BY <1>1 DEF RunnerInv, PrintedInv
<1> QED
  BY <1>3, <1>4, <1>5 DEF RunnerInv

(* A time is added to the entry of the benchable whose turn it is. *)
LEMMA AddTimeKeepsRunner ==
  ASSUME RunnerInv, AddTime, IsTimeOf(work, Turn)
  PROVE  RunnerInv'
<1>1. /\ calls' = calls /\ numSamples' = numSamples /\ members' = members
      /\ isTiming' = isTiming /\ printed' = printed /\ pc = "add"
      /\ collection' = Added(Turn.name, work)
      /\ IF bench < Len(calls[1]) THEN bench' = bench + 1 /\ sample' = sample
                                  ELSE bench' = 1 /\ sample' = sample + 1
      /\ pc' = IF bench' = 1 /\ sample' = numSamples THEN "print" ELSE "start"
  BY DEF AddTime
<1>2. CallsInv'
  BY <1>1, CallsSame DEF RunnerInv, ControlInv
<1>3. /\ DOMAIN calls[1] = 1 .. Len(calls[1]) /\ Len(calls[1]) \in Nat \ {0}
      /\ bench \in 1 .. Len(calls[1]) /\ sample \in 0 .. numSamples - 1 /\ numSamples \in Nat \ {0}
      /\ ~isTiming /\ DOMAIN members = DOMAIN calls[1]
  BY <1>1, TurnFacts DEF RunnerInv, ControlInv, Active, Timed
<1>4. ControlInv'
  <2>1. bench' \in 1 .. Len(calls[1]) /\ sample' \in 0 .. numSamples
    BY <1>1, <1>3
  <2>2. pc' = "start" => sample' \in 0 .. numSamples - 1
    BY <1>1, <1>3
  <2>3. pc' \in {"start", "print"} /\ (isTiming' <=> pc' \in Timed)
    BY <1>1, <1>3 DEF Timed
  <2>4. pc' = "print" => sample' = numSamples /\ bench' = 1
    BY <1>1
  <2> QED
    BY <1>1, <1>2, <1>3, <2>1, <2>2, <2>3, <2>4 DEF ControlInv, Active, Timed
<1>5. CollectionInv'
  <2> DEFINE c == Added(Turn.name, work)
  <2>1. /\ IsSeq(c) /\ Len(c) = IF sample > 0 THEN Len(calls[1]) ELSE bench
        /\ \A k \in 1 .. Len(c) :
             IsEntry(c[k], calls[1][k], IF k <= bench THEN sample + 1 ELSE sample)
    BY <1>1, AddedEntries DEF RunnerInv
  <2>2. collection' = c /\ calls' = calls
    BY <1>1
  <2> HIDE DEF c
  <2>3. Entries' = Len(c)
    BY <1>1, <1>3, <2>1 DEF Entries
  <2>4. Len(c) \in Nat /\ Len(c) <= Len(calls[1])
    BY <2>1, <1>3
  <2>5. \A k \in 1 .. Len(c) : Samples(k)' = IF k <= bench THEN sample + 1 ELSE sample
    BY <1>1, <1>3, <2>4 DEF Samples
  <2>6. \A k \in 1 .. Entries' : IsEntry(c[k], calls[1][k], Samples(k)')
    BY <2>1, <2>3, <2>5, Zenon
  <2>7. \A k \in 1 .. Entries' : IsEntry(collection[k], calls[1][k], Samples(k))'
    BY <2>2, <2>6
  <2>8. IsSeq(collection)'
    BY <2>1, <2>2
  <2>9. pc' # "failed" /\ Len(collection') = Entries'
    BY <1>1, <2>2, <2>3
  <2> QED
    BY <2>7, <2>8, <2>9, Zenon DEF CollectionInv
<1>6. PrintedInv'
  <2>1. printed' = <<>>
    BY <1>1 DEF RunnerInv, PrintedInv
  <2>2. <<>> \in Seq({<<calls[1][k].name, numSamples>> : k \in DOMAIN calls[1]}) /\ Len(<<>>) = 0
    OBVIOUS
  <2>3. pc' \in {"start", "print"} /\ calls' = calls /\ numSamples' = numSamples
    BY <1>1
  <2> QED
    BY <2>1, <2>2, <2>3, <1>3 DEF PrintedInv
<1> QED
  BY <1>4, <1>5, <1>6 DEF RunnerInv

(* The entry that is printed next has as many times as samples were asked for. *)
LEMMA NextEntry ==
  ASSUME RunnerInv, pc = "print", Len(printed) < Len(collection)
  PROVE  /\ Len(printed) \in Nat /\ Len(printed) + 1 \in DOMAIN calls[1]
         /\ Evaluation(collection[Len(printed) + 1])
              = <<calls[1][Len(printed) + 1].name, numSamples>>
         /\ Len(collection[Len(printed) + 1].clockTimes) = numSamples
<1> DEFINE n == Len(printed) + 1
<1>1. /\ DOMAIN calls[1] = 1 .. Len(calls[1]) /\ Len(calls[1]) \in Nat \ {0}
      /\ sample = numSamples /\ bench = 1 /\ numSamples \in Nat \ {0}
  BY TurnFacts DEF RunnerInv, ControlInv
<1>2. Entries = Len(calls[1]) /\ Len(collection) = Entries
  BY <1>1 DEF RunnerInv, CollectionInv, Entries
<1>3. Len(printed) \in Nat
  BY DEF RunnerInv, PrintedInv
<1>4. n \in 1 .. Entries
  BY <1>1, <1>2, <1>3
<1> HIDE DEF n
<1>5. IsEntry(collection[n], calls[1][n], Samples(n))
  BY <1>4 DEF RunnerInv, CollectionInv
<1>6. Samples(n) = numSamples
  BY <1>1, <1>2, <1>4 DEF Samples
<1>7. /\ collection[n] = [name |-> calls[1][n].name, clockTimes |-> collection[n].clockTimes]
      /\ Len(collection[n].clockTimes) = numSamples
  BY <1>5, <1>6 DEF IsEntry
<1>8. collection[n].name = calls[1][n].name
  BY <1>7
<1>9. Evaluation(collection[n]) = <<calls[1][n].name, numSamples>>
  BY <1>7, <1>8, Zenon DEF Evaluation
<1> QED
  BY <1>1, <1>2, <1>3, <1>4, <1>7, <1>9 DEF n

(* Entries are printed in order if there are times enough. *)
LEMMA PrintKeepsRunner ==
  ASSUME RunnerInv, PrintNext
  PROVE  RunnerInv'
<1> DEFINE n == Len(printed) + 1
<1> DEFINE P == {<<calls[1][k].name, numSamples>> : k \in DOMAIN calls[1]}
<1>1. /\ calls' = calls /\ numSamples' = numSamples /\ sample' = sample /\ bench' = bench
      /\ isTiming' = isTiming /\ collection' = collection /\ members' = members
      /\ pc = "print" /\ pc' = pc
      /\ Len(printed) < Len(collection) /\ Len(collection[n].clockTimes) >= Needed
      /\ printed' = Append(printed, Evaluation(collection[n]))
  BY DEF PrintNext
<1>2. CallsInv'
  BY <1>1, CallsSame DEF RunnerInv, ControlInv
<1>3. ControlInv'
  BY <1>1, <1>2 DEF RunnerInv, ControlInv, Active, Timed
<1>4. CollectionInv'
  BY <1>1, CollectionSame DEF RunnerInv
<1>5. PrintedInv'
  <2>1. /\ Len(printed) \in Nat /\ n \in DOMAIN calls[1]
        /\ Evaluation(collection[n]) = <<calls[1][n].name, numSamples>>
        /\ Len(collection[n].clockTimes) = numSamples
    BY <1>1, NextEntry
  <2>2. numSamples >= Needed
    BY <1>1, <2>1
  <2>3. <<calls[1][n].name, numSamples>> \in P
    BY <2>1
  <2>4. printed \in Seq(P) /\ \A k \in 1 .. Len(printed) : printed[k] = <<calls[1][k].name, numSamples>>
    BY <1>1 DEF RunnerInv, PrintedInv
  <2> HIDE DEF P
  <2> DEFINE e == <<calls[1][n].name, numSamples>>
  <2>5. printed' = Append(printed, e)
    BY <1>1, <2>1, Zenon
  <2>6. /\ e \in P /\ e = <<calls[1][n].name, numSamples>>
    BY <2>3
  <2> HIDE DEF e
  <2>7. /\ printed' \in Seq(P) /\ Len(printed') = n
        /\ \A k \in 1 .. Len(printed) : printed'[k] = printed[k]
        /\ printed'[n] = e
    BY <2>4, <2>5, <2>6
  <2>8. ASSUME NEW k \in 1 .. n PROVE printed'[k] = <<calls[1][k].name, numSamples>>
    <3>1. k \in 1 .. Len(printed) \/ k = n
      BY <2>1
    <3> QED
      BY <3>1, <2>4, <2>6, <2>7, Zenon
  <2>9. n <= Len(calls[1])
    BY <2>1, TurnFacts DEF RunnerInv
  <2>10. P' = P
    BY <1>1, Zenon DEF P
  <2> HIDE DEF n
  <2> QED
    BY <1>1, <2>2, <2>7, <2>8, <2>9, <2>10 DEF PrintedInv, P
<1> QED
  BY <1>3, <1>4, <1>5 DEF RunnerInv

(* An evaluation that throws is the first: all entries have the same count.     *)
LEMMA PrintThrowsKeepsRunner ==
  ASSUME RunnerInv, PrintThrows
  PROVE  RunnerInv'
<1>1. /\ pc = "print" /\ Len(printed) < Len(collection)
      /\ Len(collection[Len(printed) + 1].clockTimes) < Needed /\ Fail
  BY DEF PrintThrows
<1>2. Len(printed) \in Nat /\ numSamples < Needed
  BY <1>1, NextEntry
<1>3. Len(printed) = 0
  BY <1>1, <1>2, RunnerAssumption DEF RunnerInv, PrintedInv, ControlInv
<1>4. printed = <<>>
  <2> DEFINE P == {<<calls[1][k].name, numSamples>> : k \in DOMAIN calls[1]}
  <2>1. printed \in Seq(P)
    BY <1>1 DEF RunnerInv, PrintedInv
  <2> HIDE DEF P
  <2> QED
    BY <2>1, <1>3
<1> QED
  BY <1>1, <1>4, FailKeepsRunner

(* print is done when all entries are printed. *)
LEMMA ReturnKeepsRunner ==
  ASSUME RunnerInv, Return
  PROVE  RunnerInv'
<1>1. /\ calls' = calls /\ numSamples' = numSamples /\ sample' = sample /\ bench' = bench
      /\ isTiming' = isTiming /\ collection' = collection /\ printed' = printed
      /\ pc = "print" /\ pc' = "returned" /\ Len(printed) = Len(collection)
  BY DEF Return
<1>2. CallsInv'
  BY <1>1, CallsSame DEF RunnerInv, ControlInv
<1>3. ControlInv'
  BY <1>1, <1>2 DEF RunnerInv, ControlInv, Active, Timed
<1>4. CollectionInv'
  BY <1>1, CollectionSame DEF RunnerInv
<1>5. PrintedInv'
  <2>1. Len(collection) = Len(calls[1])
    BY <1>1 DEF RunnerInv, CollectionInv, Entries, ControlInv
  <2>2. PrintedInv
    BY DEF RunnerInv
  <2> QED
    BY <1>1, <2>1, <2>2 DEF PrintedInv
<1> QED
  BY <1>3, <1>4, <1>5 DEF RunnerInv

(* The next call begins with nothing collected. *)
LEMMA NextCallKeepsRunner ==
  ASSUME RunnerInv, NextCall
  PROVE  RunnerInv'
<1>1. /\ pc = "returned" /\ Len(calls) > 1 /\ calls' = Tail(calls)
      /\ numSamples' \in NumSamples /\ sample' = 0 /\ bench' = 1
      /\ collection' = <<>> /\ printed' = <<>> /\ pc' = "construct" /\ isTiming' = isTiming
  BY DEF NextCall
<1>2. CallsInv'
  <2>1. /\ IsSeq(calls) /\ \A c \in DOMAIN calls : ProperCall(calls[c])
        /\ Len(calls) \in Nat /\ DOMAIN calls = 1 .. Len(calls)
    BY SeqIsFunction DEF RunnerInv, ControlInv, CallsInv
  <2> DEFINE C == {calls[c] : c \in DOMAIN calls}
  <2> DEFINE t == Tail(calls)
  <2>2. calls \in Seq(C)
    BY <2>1 DEF IsSeq
  <2> HIDE DEF C
  <2>3. /\ Len(t) = Len(calls) - 1 /\ DOMAIN t = 1 .. Len(calls) - 1
        /\ t = [c \in 1 .. Len(calls) - 1 |-> t[c]]
        /\ \A c \in 1 .. Len(calls) - 1 : t[c] = calls[c + 1]
    <3>1. calls # <<>>
      BY <1>1
    <3>2. t \in Seq(C) /\ Len(t) = Len(calls) - 1 /\ \A c \in 1 .. Len(t) : t[c] = calls[c + 1]
      BY <2>2, <3>1, HeadTailProperties
    <3> HIDE DEF t
    <3> QED
      BY <3>2
  <2> HIDE DEF t
  <2>4. Len(calls) - 1 \in Nat
    BY <2>1, <1>1
  <2>5. IsSeq(t)
    BY <2>3, <2>4, FunctionIsSeq
  <2>6. ASSUME NEW c \in DOMAIN t PROVE ProperCall(t[c])
    <3>1. c + 1 \in DOMAIN calls
      BY <2>1, <2>3
    <3> QED
      BY <3>1, <2>1, <2>3
  <2>7. Len(t) > 0
    BY <2>1, <2>3, <1>1
  <2>8. calls' = t
    BY <1>1 DEF t
  <2> QED
    BY <2>5, <2>6, <2>7, <2>8 DEF CallsInv
<1>3. Len(calls'[1]) \in Nat \ {0}
  <2>1. ASSUME NEW c, IsSeq(c), Len(c) > 0, \A k \in DOMAIN c : ProperCall(c[k])
        PROVE  Len(c[1]) \in Nat \ {0}
    <3>1. 1 \in DOMAIN c
      BY <2>1, SeqIsFunction
    <3>2. IsSeq(c[1]) /\ Len(c[1]) > 0
      BY <3>1, <2>1 DEF ProperCall
    <3> QED
      BY <3>2, SeqIsFunction
  <2>2. IsSeq(calls') /\ Len(calls') > 0 /\ \A k \in DOMAIN calls' : ProperCall(calls'[k])
    BY <1>2 DEF CallsInv
  <2> QED
    BY <2>1, <2>2, Zenon
<1>4. ControlInv'
  <2>1. bench' \in 1 .. Len(calls'[1])
    BY <1>1, <1>3
  <2>2. numSamples' \in Nat \ {0}
    BY <1>1, RunnerAssumption
  <2>3. ~isTiming'
    BY <1>1 DEF RunnerInv, ControlInv, Timed
  <2> QED
    BY <1>1, <1>2, <2>1, <2>2, <2>3 DEF ControlInv, Active, Timed
<1>5. CollectionInv'
  <2>1. IsSeq(<<>>) /\ Len(<<>>) = 0
    <3>1. <<>> = [k \in 1 .. 0 |-> <<>>[k]] /\ 0 \in Nat
      OBVIOUS
    <3> QED
      BY <3>1, FunctionIsSeq, Zenon
  <2>2. Entries' = 0
    BY <1>1 DEF Entries
  <2> QED
    BY <1>1, <2>1, <2>2 DEF CollectionInv
<1>6. PrintedInv'
  BY <1>1 DEF PrintedInv
<1> QED
  BY <1>4, <1>5, <1>6 DEF RunnerInv

(* A step that changes nothing. *)
LEMMA StutterKeepsRunner ==
  ASSUME RunnerInv, UNCHANGED runnerVars
  PROVE  RunnerInv'
<1>1. /\ calls' = calls /\ numSamples' = numSamples /\ sample' = sample /\ bench' = bench
      /\ isTiming' = isTiming /\ collection' = collection /\ printed' = printed
      /\ pc' = pc /\ members' = members
  BY DEF runnerVars
<1>2. CallsInv'
  BY <1>1, CallsSame DEF RunnerInv, ControlInv
<1>3. ControlInv'
  BY <1>1, <1>2 DEF RunnerInv, ControlInv, Active, Timed
<1>4. CollectionInv'
  BY <1>1 DEF RunnerInv, CollectionInv, Entries, Samples
<1>5. PrintedInv'
  BY <1>1 DEF RunnerInv, PrintedInv
<1> QED
  BY <1>3, <1>4, <1>5 DEF RunnerInv

-----------------------------------------------------------------------------
(* A counter of a loop of n steps. *)
LEMMA Wraps ==
  ASSUME NEW n \in Nat \ {0}, NEW k \in 0 .. n - 1
  PROVE  (k + 1) % n = IF k + 1 = n THEN 0 ELSE k + 1
<1>1. k % n = k /\ k \in Int
  BY ModSmall
<1>2. (k + 1) % n = IF (k % n) + 1 = n THEN 0 ELSE (k % n) + 1
  BY <1>1, ModSucc, ZenonT(30)
<1> QED
  BY <1>1, <1>2, Zenon

(* Every allocation has a size. *)
LEMMA SizeOfNat ==
  ASSUME NEW m, NEW b, IsMember(m, b), NEW k \in Nat \ {0}
  PROVE  SizeOf(b, m, k) \in Nat
<1>1. n_elements \in Nat \ {0} /\ Size \subseteq Nat /\ FixedSize \in Nat
  BY AllocationAssumption
<1>2. CASE ~b.VariableAllocSizes
  BY <1>1, <1>2 DEF SizeOf
<1>3. CASE b.VariableAllocSizes
  <2>1. m.sizes \in [1 .. n_elements -> Size]
    BY <1>3 DEF IsMember, Fills
  <2>2. k - 1 \in Int
    OBVIOUS
  <2>3. (k - 1) % n_elements \in 0 .. n_elements - 1
    BY <1>1, <2>2, ModRange
  <2>4. ((k - 1) % n_elements) + 1 \in 1 .. n_elements
    BY <1>1, <2>3
  <2>5. m.sizes[((k - 1) % n_elements) + 1] \in Nat
    BY <1>1, <2>1, <2>4
  <2> QED
    BY <1>3, <2>5, Zenon DEF SizeOf
<1> QED
  BY <1>2, <1>3

-----------------------------------------------------------------------------
(* The members of the benchable whose turn it is may change, no others. *)
MemberStep ==
  /\ DOMAIN members' = DOMAIN members
  /\ \A k \in DOMAIN members \ {bench} : members'[k] = members[k]

(* The benchables whose runs take a step for every iteration. *)
Looping == {"VectorWrapper", "StringRunner"}

(* A step of a benchable of another class, which does not throw. *)
WorkloadStep ==
  /\ UNCHANGED loopVars /\ MemberStep
  /\ Shaped(work') /\ work'.of = work.of
  /\ \/ pc = "run" /\ pc' = "run" /\ Turn.class \in Looping
     \/ pc = "run" /\ pc' = "end" /\ (i' = 0 \/ (i' = i /\ Turn.class \notin Looping))
     \/ pc = "reset" /\ pc' = "add" /\ i' = i

(* A run in one step leaves the heap and what was counted alone ... *)
LEMMA RunOnceStep ==
  ASSUME NEW classes, NEW m, NEW input, NEW outcome, NEW shows,
         RunOnce(classes, m, input, outcome, shows), Shaped(work), classes \cap Looping = {},
         "AllocationBench" \notin classes
  PROVE  WorkloadStep /\ ~IsAllocation(Turn)
<1>1. MemberStep
  BY DEF RunOnce, MemberStep
<1>2. Shaped(work') /\ work'.of = work.of
  BY DEF RunOnce, Shaped
<1>3. pc = "run" /\ pc' = "end" /\ i' = i /\ UNCHANGED loopVars /\ Turn.class \in classes
  BY DEF RunOnce
<1> QED
  BY <1>1, <1>2, <1>3 DEF WorkloadStep, IsAllocation

(* ... and so does a reset in one step. *)
LEMMA ResetStep ==
  ASSUME NEW classes, NEW m, ResetTo(classes, m), Shaped(work), "AllocationBench" \notin classes
  PROVE  WorkloadStep /\ ~IsAllocation(Turn)
<1>1. MemberStep
  BY DEF ResetTo, MemberStep
<1>2. /\ pc = "reset" /\ pc' = "add" /\ i' = i /\ UNCHANGED loopVars /\ work' = work
      /\ Turn.class \in classes
  BY DEF ResetTo
<1> QED
  BY <1>1, <1>2 DEF WorkloadStep, IsAllocation, Shaped

(* Every step of the other classes is one of these, or throws. *)
LEMMA WorkloadSteps ==
  ASSUME WorkloadNext, Shaped(work)
  PROVE  (WorkloadStep \/ (pc \in {"run", "reset"} /\ Fail)) /\ ~IsAllocation(Turn)
<1>1. CASE PushBack
  <2>1. MemberStep
    BY <1>1 DEF PushBack, MemberStep
  <2>2. Shaped(work') /\ work'.of = work.of
    BY <1>1 DEF PushBack, Shaped
  <2>3. /\ pc = "run" /\ pc' = (IF i' = 0 THEN "end" ELSE pc) /\ UNCHANGED loopVars
        /\ Turn.class = "VectorWrapper"
    BY <1>1, Zenon DEF PushBack
  <2> QED
    BY <2>1, <2>2, <2>3 DEF WorkloadStep, Looping, IsAllocation
<1>2. CASE CopyString
  <2>1. MemberStep
    BY <1>2 DEF CopyString, MemberStep
  <2>2. Shaped(work') /\ work'.of = work.of
    BY <1>2 DEF CopyString, Shaped
  <2>3. /\ pc = "run" /\ pc' = (IF i' = 0 THEN "end" ELSE pc) /\ UNCHANGED loopVars
        /\ Turn.class = "StringRunner"
    BY <1>2, Zenon DEF CopyString
  <2> QED
    BY <2>1, <2>2, <2>3 DEF WorkloadStep, Looping, IsAllocation
<1>3. CASE RunThrows
  <2>1. "AllocationBench" \notin QueueTesters
    BY DEF QueueTesters
  <2> QED
    BY <1>3, <2>1 DEF RunThrows, IsAllocation
<1>4. CASE ResetThrows
  <2>1. "AllocationBench" \notin SeedsFromHardware
    BY DEF SeedsFromHardware, BranchClasses
  <2> QED
    BY <1>4, <2>1 DEF ResetThrows, IsAllocation
<1>5. CASE BranchRun
  <2>1. BranchClasses \cap Looping = {} /\ "AllocationBench" \notin BranchClasses
    BY DEF BranchClasses, Looping
  <2> QED
    BY <1>5, <2>1, RunOnceStep, Zenon DEF BranchRun
<1>6. CASE AttributeRun
  <2>1. {"AttributeOptimisation"} \cap Looping = {} /\ "AllocationBench" \notin {"AttributeOptimisation"}
    BY DEF Looping
  <2> QED
    BY <1>6, <2>1, RunOnceStep, Zenon DEF AttributeRun
<1>7. CASE AccessRun
  <2>1. {"VectorAccess"} \cap Looping = {} /\ "AllocationBench" \notin {"VectorAccess"}
    BY DEF Looping
  <2> QED
    BY <1>7, <2>1, RunOnceStep, Zenon DEF AccessRun
<1>8. CASE AOSRun
  <2>1. {"AOS"} \cap Looping = {} /\ "AllocationBench" \notin {"AOS"}
    BY DEF Looping
  <2> QED
    BY <1>8, <2>1, RunOnceStep, Zenon DEF AOSRun
<1>9. CASE SOARun
  <2>1. {"SOA"} \cap Looping = {} /\ "AllocationBench" \notin {"SOA"}
    BY DEF Looping
  <2> QED
    BY <1>9, <2>1, RunOnceStep, Zenon DEF SOARun
<1>10. CASE ArrayWriteRun
  <2>1. {"ArrayWrite"} \cap Looping = {} /\ "AllocationBench" \notin {"ArrayWrite"}
    BY DEF Looping
  <2> QED
    BY <1>10, <2>1, RunOnceStep, Zenon DEF ArrayWriteRun
<1>11. CASE PolicyRun
  <2>1. {"ExecutionPolicies"} \cap Looping = {} /\ "AllocationBench" \notin {"ExecutionPolicies"}
    BY DEF Looping
  <2> QED
    BY <1>11, <2>1, RunOnceStep, Zenon DEF PolicyRun
<1>12. CASE NumbersRun
  <2>1. /\ {"Xoroshiro128plus", "MersenneTwister"} \cap Looping = {}
        /\ "AllocationBench" \notin {"Xoroshiro128plus", "MersenneTwister"}
    BY DEF Looping
  <2> QED
    BY <1>12, <2>1, RunOnceStep, Zenon DEF NumbersRun
<1>13. CASE FillRun
  <2>1. ArrayFills \cap Looping = {} /\ "AllocationBench" \notin ArrayFills
    BY DEF Looping, ArrayFills
  <2> QED
    BY <1>13, <2>1, RunOnceStep, Zenon DEF FillRun
<1>14. CASE QueueRun
  <2>1. QueueTesters \cap Looping = {} /\ "AllocationBench" \notin QueueTesters
    BY DEF Looping, QueueTesters
  <2> QED
    BY <1>14, <2>1, RunOnceStep, Zenon DEF QueueRun
<1>15. CASE VectorReset \/ AccessReset \/ ArrayWriteReset \/ PolicyReset \/ Reseed \/ Jump
            \/ QueueReset \/ ResetNothing \/ DrawNumbers
  <2>1. /\ "AllocationBench" \notin {"VectorWrapper"} /\ "AllocationBench" \notin {"VectorAccess"}
        /\ "AllocationBench" \notin {"ArrayWrite"} /\ "AllocationBench" \notin {"ExecutionPolicies"}
        /\ "AllocationBench" \notin {"MersenneTwister", "MersenneTwisterArrayFill"}
        /\ "AllocationBench" \notin {"Xoroshiro128plus"} /\ "AllocationBench" \notin QueueTesters
        /\ "AllocationBench" \notin Resetless
        /\ "AllocationBench" \notin BranchClasses \cup {"AttributeOptimisation"}
    BY DEF QueueTesters, Resetless, BranchClasses
  <2>2. CASE VectorReset
    BY <2>1, <2>2, ResetStep, Zenon DEF VectorReset
  <2>3. CASE AccessReset
    BY <2>1, <2>3, ResetStep, Zenon DEF AccessReset
  <2>4. CASE ArrayWriteReset
    BY <2>1, <2>4, ResetStep, Zenon DEF ArrayWriteReset
  <2>5. CASE PolicyReset
    BY <2>1, <2>5, ResetStep, Zenon DEF PolicyReset
  <2>6. CASE Reseed
    BY <2>1, <2>6, ResetStep, Zenon DEF Reseed
  <2>7. CASE Jump
    BY <2>1, <2>7, ResetStep, Zenon DEF Jump
  <2>8. CASE QueueReset
    BY <2>1, <2>8, ResetStep, Zenon DEF QueueReset
  <2>9. CASE ResetNothing
    BY <2>1, <2>9, ResetStep, Zenon DEF ResetNothing
  <2>10. CASE DrawNumbers
    BY <2>1, <2>10, ResetStep, Zenon DEF DrawNumbers
  <2> QED
    BY <1>15, <2>2, <2>3, <2>4, <2>5, <2>6, <2>7, <2>8, <2>9, <2>10, Zenon
<1> QED
  BY <1>1, <1>2, <1>3, <1>4, <1>5, <1>6, <1>7, <1>8, <1>9, <1>10, <1>11, <1>12, <1>13, <1>14, <1>15,
     Zenon DEF WorkloadNext

-----------------------------------------------------------------------------
(* A step of another class leaves the allocation benches and the heap alone.    *)
LEMMA WorkloadKeeps ==
  ASSUME Inv, WorkloadStep, ~IsAllocation(Turn), UNCHANGED heap
  PROVE  Inv'
<1>1. /\ calls' = calls /\ bench' = bench /\ heap' = heap
      /\ pc \in {"run", "reset"} /\ pc' \in {"run", "end", "add"}
      /\ DOMAIN members' = DOMAIN members
      /\ \A k \in DOMAIN members \ {bench} : members'[k] = members[k]
  BY DEF WorkloadStep, MemberStep, loopVars
<1>2. Turn' = Turn
  BY <1>1 DEF Turn
<1>3. RunnerInv'
  <2>1. (pc' \in Timed <=> pc \in Timed) /\ UNCHANGED loopVars
    BY DEF WorkloadStep, Timed
  <2>2. Body
    BY <1>1, <2>1 DEF Body, Active
  <2> QED
    BY <2>2, BodyKeepsRunner DEF Inv
<1>4. WorkInv'
  <2>1. Shaped(work') /\ work'.of = work.of /\ work.of = Turn
    BY <1>1 DEF WorkloadStep, Inv, WorkInv, Active
  <2> QED
    BY <1>2, <2>1 DEF WorkInv
<1>5. Allocating' = Allocating /\ Allocating \subseteq DOMAIN members /\ bench \notin Allocating
  BY <1>1 DEF Allocating, Turn
<1>6. \A k \in Allocating : members'[k] = members[k] /\ calls'[1][k] = calls[1][k] /\ k # bench
  BY <1>1, <1>5
<1>7. OthersInv'
  <2>1. /\ \A k \in Allocating : IsMember(members[k], calls[1][k])
        /\ \A k \in Allocating : k # bench => Empty(members[k])
    BY <1>1 DEF Inv, OthersInv, Active
  <2>3. /\ pc = "run" /\ Turn.class \notin Looping => i = 0
        /\ pc = "reset" => i = 0
        /\ heap = {}
    BY <1>1 DEF Inv, OthersInv, Looping
  <2>4. /\ pc' \notin {"run", "run_free", "reset_free", "failed"} => i' = 0
        /\ pc' = "run" /\ ~IsAllocation(Turn') /\ Turn'.class \notin {"VectorWrapper", "StringRunner"}
             => i' = 0
    BY <2>3, <1>2 DEF WorkloadStep, Looping
  <2>5. /\ \A k \in Allocating : IsMember(members[k], calls[1][k])'
        /\ \A k \in Allocating : Empty(members[k])'
    BY <2>1, <1>6
  <2> QED
    BY <1>1, <1>5, <2>3, <2>4, <2>5 DEF OthersInv
<1>8. TurnInv'
  <2>1. ~IsAllocation(Turn')
    BY <1>2
  <2> QED
    BY <2>1 DEF TurnInv
<1> QED
  BY <1>3, <1>4, <1>7, <1>8 DEF Inv

(* A step that throws. *)
LEMMA FailKeeps ==
  ASSUME Inv, Fail, pc \in {"construct", "run", "reset", "add", "print"}, pc = "print" => RunnerInv'
  PROVE  Inv'
<1>1. pc' = "failed" /\ work' = work
  BY DEF Fail
<1>2. RunnerInv'
  <2>1. pc # "print" => printed = <<>>
    BY DEF Inv, RunnerInv, PrintedInv
  <2> QED
    BY <2>1, FailKeepsRunner DEF Inv
<1>3. WorkInv'
  BY <1>1 DEF Inv, WorkInv, Shaped, Active
<1>4. OthersInv' /\ TurnInv'
  BY <1>1 DEF OthersInv, TurnInv, Active
<1> QED
  BY <1>2, <1>3, <1>4 DEF Inv

(* Steps of executeBench that leave the benchables and their memory alone.      *)
LEMMA StutterKeeps ==
  ASSUME Inv, UNCHANGED vars
  PROVE  Inv'
<1>1. /\ calls' = calls /\ bench' = bench /\ heap' = heap /\ pc' = pc /\ members' = members
      /\ i' = i /\ work' = work
  BY DEF vars, runnerVars
<1>2. Turn' = Turn /\ This' = This
  BY <1>1 DEF Turn, This
<1>3. RunnerInv'
  BY StutterKeepsRunner DEF Inv, vars
<1>4. WorkInv'
  BY <1>1, <1>2 DEF Inv, WorkInv
<1>5. OthersInv'
  BY <1>1, <1>2 DEF Inv, OthersInv, Allocating
<1>6. TurnInv'
  <2>1. Held' = Held
    BY <1>1, <1>2, Zenon DEF Held
  <2>2. TurnInv
    BY DEF Inv
  <2> QED
    BY <1>1, <1>2, <2>1, <2>2, Zenon DEF TurnInv, LoopInv, NewInv, ArenaInv
<1> QED
  BY <1>3, <1>4, <1>5, <1>6 DEF Inv

(* A call is over, or goes on to print. *)
LEMMA BetweenTurnsKeeps ==
  ASSUME Inv, RunnerInv', pc' \in {"construct", "print", "returned"}, heap' = heap, heap = {},
         i' = i, i = 0, work' = work
  PROVE  Inv'
<1>1. WorkInv'
  BY DEF Inv, WorkInv, Active
<1>2. OthersInv' /\ TurnInv'
  BY DEF OthersInv, TurnInv, Active
<1> QED
  BY <1>1, <1>2 DEF Inv

(* Printing and going on to the next call, when no memory is held. *)
LEMMA QuietKeeps ==
  ASSUME Inv, PrintNext \/ Return \/ NextCall, UNCHANGED heap
  PROVE  Inv'
<1>1. /\ pc \in {"print", "returned"} /\ pc' \in {"construct", "print", "returned"}
      /\ i' = i /\ work' = work
  BY DEF PrintNext, Return, NextCall
<1>2. heap = {} /\ i = 0
  BY <1>1 DEF Inv, OthersInv, Active
<1>3. RunnerInv'
  BY PrintKeepsRunner, ReturnKeepsRunner, NextCallKeepsRunner DEF Inv
<1> QED
  BY <1>1, <1>2, <1>3, BetweenTurnsKeeps

(* The benchable whose turn is next is one of its call. *)
TurnExists == bench \in DOMAIN calls[1]

(* The benchable whose turn it is exists, also after a step. *)
LEMMA NextTurnExists == ControlInv' => TurnExists'
<1>1. ControlInv => TurnExists
  BY TurnFacts DEF TurnExists
<1> QED
  BY <1>1, PTL

(* The next turn: nothing of an earlier run is left in any benchable.          *)
LEMMA TurnStarts ==
  ASSUME RunnerInv', Shaped(work'), pc' = "start", heap' = {}, i' = 0,
         \A k \in Allocating' : IsMember(members'[k], calls'[1][k]) /\ Empty(members'[k])
  PROVE  Inv'
<1>1. WorkInv'
  BY DEF WorkInv, Active
<1>2. OthersInv'
  BY DEF OthersInv, Active
<1>3. TurnInv'
  <2> SUFFICES ASSUME IsAllocation(Turn') PROVE (LoopInv /\ NewInv /\ ArenaInv)'
    BY DEF TurnInv
  <2>1. bench' \in Allocating'
    <3>1. ControlInv' /\ DOMAIN members' = DOMAIN calls'[1]
      BY DEF RunnerInv, ControlInv, Active
    <3>2. bench' \in DOMAIN calls'[1]
      BY <3>1, NextTurnExists DEF TurnExists
    <3> QED
      BY <3>1, <3>2 DEF Allocating, Turn
  <2>2. This'.a = <<>> /\ This'.current = 0
    BY <2>1 DEF This, Empty
  <2>3. Held' = {}
    BY Zenon DEF Held
  <2>4. DOMAIN <<>> = {}
    OBVIOUS
  <2> QED
    BY <2>2, <2>3, <2>4 DEF LoopInv, NewInv, ArenaInv
<1> QED
  BY <1>1, <1>2, <1>3 DEF Inv

(* Constructors leave allocation benches empty. *)
LEMMA ConstructKeeps ==
  ASSUME Inv, Construct(Made(calls[1])), UNCHANGED heap
  PROVE  Inv'
<1>1. /\ pc = "construct" /\ pc' = "start" /\ calls' = calls /\ i' = i /\ work' = work
      /\ members' \in Made(calls[1])
  BY DEF Construct
<1>2. RunnerInv'
  BY ConstructKeepsRunner DEF Inv
<1>3. heap = {} /\ i = 0 /\ Shaped(work)
  BY <1>1 DEF Inv, OthersInv, WorkInv, Active
<1>4. ASSUME NEW k \in Allocating'
      PROVE  IsMember(members'[k], calls'[1][k]) /\ Empty(members'[k])
  <2> DEFINE b == calls[1][k]
  <2>1. k \in DOMAIN members' /\ IsAllocation(b)
    BY <1>1 DEF Allocating
  <2>2. members'[k] \in MembersOf(b)
    BY <1>1, <2>1 DEF Made
  <2>3. members'[k] \in [a : {<<>>}, sizes : Fills(b), current : {0}]
    BY <2>1, <2>2, Zenon DEF MembersOf, AllocationMembers
  <2> DEFINE m == members'[k]
  <2> HIDE DEF m, b
  <2>4. /\ m = [a |-> m.a, sizes |-> m.sizes, current |-> m.current]
        /\ m.a = <<>> /\ m.sizes \in Fills(b) /\ m.current = 0
    BY <2>3 DEF m
  <2>5. \A S : <<>> \in Seq(S)
    OBVIOUS
  <2>6. IsMember(m, b) /\ Empty(m)
    BY <2>4, <2>5 DEF IsMember, Empty
  <2> QED
    BY <2>6, <1>1 DEF m, b
<1>5. Shaped(work')
  BY <1>1, <1>3
<1> QED
  BY <1>1, <1>2, <1>3, <1>4, <1>5, TurnStarts

(* Adding a time, with all that was allocated given back. *)
LEMMA AddTimeKeeps ==
  ASSUME Inv, AddTime, UNCHANGED heap
  PROVE  Inv'
<1>1. /\ pc = "add" /\ pc' \in {"start", "print"} /\ calls' = calls /\ members' = members
      /\ i' = i /\ work' = work
  BY DEF AddTime
<1>2. heap = {} /\ i = 0
  <2>1. ~IsAllocation(Turn) => heap = {}
    BY <1>1 DEF Inv, OthersInv, Active
  <2>2. CASE IsAllocation(Turn)
    <3>1. LoopInv /\ (Turn.A = "NEW" => NewInv) /\ (Turn.A = "ARENA" => ArenaInv)
      BY <1>1, <2>2 DEF Inv, TurnInv, Active
    <3>2. Held = {}
      BY <1>1, <3>1 DEF LoopInv
    <3>3. Turn.A \in {"ARENA", "NEW"}
      BY <2>2, TurnFacts, Templates DEF Inv, RunnerInv
    <3>4. heap = {}
      BY <3>1, <3>2, <3>3 DEF NewInv, ArenaInv
    <3> QED
      BY <3>4, <1>1 DEF Inv, OthersInv
  <2> QED
    BY <2>1, <2>2, <1>1 DEF Inv, OthersInv
<1>3. IsTimeOf(work, Turn)
  <2>1. work.of = Turn /\ (IsAllocation(Turn) => IsTimeOf(work, Turn))
    BY <1>1 DEF Inv, WorkInv, Active
  <2> QED
    BY <2>1 DEF IsTimeOf
<1>4. RunnerInv'
  BY <1>3, AddTimeKeepsRunner DEF Inv
<1>5. \A k \in Allocating' : IsMember(members'[k], calls'[1][k]) /\ Empty(members'[k])
  <2>1. \A k \in Allocating : IsMember(members[k], calls[1][k]) /\ Empty(members[k])
    BY <1>1 DEF Inv, OthersInv, Active
  <2>2. Allocating' = Allocating
    BY <1>1 DEF Allocating
  <2> QED
    BY <2>1, <2>2, <1>1
<1>6. Shaped(work')
  BY <1>1 DEF Inv, WorkInv
<1>7. CASE pc' = "start"
  BY <1>7, <1>1, <1>2, <1>4, <1>5, <1>6, TurnStarts
<1>8. CASE pc' = "print"
  BY <1>8, <1>1, <1>2, <1>4, BetweenTurnsKeeps
<1> QED
  BY <1>1, <1>7, <1>8

-----------------------------------------------------------------------------
(* What is known in the turn of an allocation bench. *)
LEMMA AllocationTurn ==
  ASSUME Inv, pc \in Active, IsAllocation(Turn)
  PROVE  /\ bench \in Allocating /\ bench \in DOMAIN members
         /\ IsMember(This, Turn)
         /\ DOMAIN This.a = 1 .. Len(This.a) /\ Len(This.a) \in Nat
         /\ This = [a |-> This.a, sizes |-> This.sizes, current |-> This.current]
         /\ Turn.A \in {"ARENA", "NEW"}
         /\ LoopInv /\ (Turn.A = "NEW" => NewInv) /\ (Turn.A = "ARENA" => ArenaInv)
<1>1. DOMAIN members = DOMAIN calls[1] /\ bench \in DOMAIN calls[1] /\ Turn = calls[1][bench]
  BY TurnFacts DEF Inv, RunnerInv, ControlInv
<1>2. bench \in Allocating /\ bench \in DOMAIN members
  BY <1>1 DEF Allocating
<1>3. IsMember(This, Turn)
  BY <1>1, <1>2 DEF Inv, OthersInv, This
<1>4. Turn.A \in {"ARENA", "NEW"}
  BY <1>1, TurnFacts, Templates DEF Inv, RunnerInv
<1>5. DOMAIN This.a = 1 .. Len(This.a) /\ Len(This.a) \in Nat
  BY <1>3 DEF IsMember
<1>6. This = [a |-> This.a, sizes |-> This.sizes, current |-> This.current]
  BY <1>3 DEF IsMember
<1> QED
  BY <1>2, <1>3, <1>4, <1>5, <1>6 DEF Inv, TurnInv

(* A step of its turn. *)
AllocationStep ==
  /\ pc \in Active /\ pc' \in Active \ {"start"} /\ IsAllocation(Turn)
  /\ calls' = calls /\ bench' = bench /\ MemberStep
  /\ IsMember(members'[bench], Turn)
  /\ pc' = "add" => Empty(members'[bench])
  /\ pc' \notin {"run", "run_free", "reset_free"} => i' = 0

(* A step of an allocation bench is one of its own members only. *)
LEMMA StepInTurn ==
  ASSUME Inv, AllocationStep
  PROVE  Turn' = Turn /\ This' = members'[bench] /\ OthersInv'
<1>1. Turn' = Turn /\ This' = members'[bench]
  BY DEF AllocationStep, Turn, This
<1>2. Allocating' = Allocating /\ \A k \in Allocating : k \in DOMAIN members
  BY DEF AllocationStep, MemberStep, Allocating
<1>3. /\ \A k \in Allocating : IsMember(members[k], calls[1][k])
      /\ \A k \in Allocating : k # bench => Empty(members[k])
  BY DEF Inv, OthersInv, AllocationStep
<1>4. ASSUME NEW k \in Allocating
      PROVE  /\ IsMember(members[k], calls[1][k])'
             /\ (k # bench \/ pc' \in {"start", "add"}) => Empty(members[k])'
  <2>1. CASE k = bench
    <3>1. pc' # "start" /\ IsMember(members'[bench], calls[1][bench])
          /\ (pc' = "add" => Empty(members'[bench])) /\ calls' = calls
      BY DEF AllocationStep, Turn
    <3> QED
      BY <2>1, <3>1
  <2>2. CASE k # bench
    <3>1. members'[k] = members[k] /\ calls' = calls
      BY <2>2, <1>2 DEF AllocationStep, MemberStep
    <3> QED
      BY <2>2, <3>1, <1>3
  <2> QED
    BY <2>1, <2>2
<1>5. OthersInv'
  <2>1. /\ pc' \in Active /\ IsAllocation(Turn') /\ bench' = bench
        /\ pc' \notin {"run", "run_free", "reset_free"} => i' = 0
    BY <1>1 DEF AllocationStep
  <2> QED
    BY <1>2, <1>4, <2>1 DEF OthersInv
<1> QED
  BY <1>1, <1>5

(* A run starts with nothing allocated or counted. *)
LEMMA StartTimerKeeps ==
  ASSUME Inv, StartTimer, UNCHANGED heap
  PROVE  Inv'
<1>1. /\ pc = "start" /\ pc' = "run" /\ calls' = calls /\ bench' = bench /\ members' = members
      /\ i' = i /\ work' = NewWork(Turn)
  BY DEF StartTimer
<1>2. RunnerInv'
  BY TimerKeepsRunner DEF Inv
<1>3. Turn' = Turn /\ This' = This
  BY <1>1 DEF Turn, This
<1>4. i = 0
  BY <1>1 DEF Inv, OthersInv
<1>5. WorkInv'
  <2>1. Shaped(work') /\ work'.of = Turn /\ work'.allocated = 0 /\ work'.freed = 0
    BY <1>1 DEF NewWork, Shaped
  <2> QED
    BY <2>1, <1>1, <1>3, <1>4 DEF WorkInv
<1>6. CASE IsAllocation(Turn)
  <2>1. /\ bench \in Allocating /\ IsMember(This, Turn) /\ LoopInv
        /\ Turn.A = "NEW" => NewInv
        /\ Turn.A = "ARENA" => ArenaInv
    BY <1>1, <1>6, AllocationTurn DEF Active
  <2>2. Empty(This)
    BY <1>1, <2>1 DEF Inv, OthersInv, Active, This
  <2>3. AllocationStep
    BY <1>1, <1>6, <2>1 DEF AllocationStep, MemberStep, Active, This
  <2>4. OthersInv'
    BY <2>3, StepInTurn
  <2>5. This.a = <<>> /\ Len(This.a) = 0 /\ Held = {}
    BY <1>1, <2>1, <2>2 DEF Empty, LoopInv
  <2>6. Held' = {}
    <3>1. Held' = 1 .. Len(This.a)
      BY <1>1, <1>3 DEF Held
    <3> QED
      BY <3>1, <2>5
  <2>7. LoopInv'
    BY <1>1, <1>3, <1>4, <2>5, PerRunPositive DEF LoopInv
  <2>8. Turn.A = "NEW" => NewInv'
    BY <1>1, <1>3, <2>1, <2>5, <2>6 DEF NewInv
  <2>9. Turn.A = "ARENA" => ArenaInv'
    BY <1>1, <1>3, <2>1, <2>5, <2>6 DEF ArenaInv
  <2> QED
    BY <1>2, <1>3, <1>5, <2>4, <2>7, <2>8, <2>9 DEF Inv, TurnInv
<1>7. CASE ~IsAllocation(Turn)
  <2>1. TurnInv'
    BY <1>3, <1>7 DEF TurnInv
  <2>2. OthersInv'
    BY <1>1, <1>3, <1>4, <1>7 DEF Inv, OthersInv, Active, Allocating
  <2> QED
    BY <1>2, <1>5, <2>1, <2>2 DEF Inv
<1> QED
  BY <1>6, <1>7

(* A run ends with its allocations counted. *)
LEMMA EndTimerKeeps ==
  ASSUME Inv, EndTimer, UNCHANGED heap
  PROVE  Inv'
<1>1. /\ pc = "end" /\ pc' = "reset" /\ calls' = calls /\ bench' = bench /\ members' = members
      /\ i' = i /\ work' = work
  BY DEF EndTimer
<1>2. RunnerInv'
  BY TimerKeepsRunner DEF Inv
<1>3. Turn' = Turn /\ This' = This
  BY <1>1 DEF Turn, This
<1>4. Held' = Held
  BY <1>1, <1>3 DEF Held
<1>5. WorkInv'
  BY <1>1, <1>3 DEF Inv, WorkInv, Active
<1>6. OthersInv'
  BY <1>1, <1>3 DEF Inv, OthersInv, Active, Allocating
<1>7. TurnInv'
  <2> SUFFICES ASSUME IsAllocation(Turn)
               PROVE  (LoopInv /\ (Turn.A = "NEW" => NewInv) /\ (Turn.A = "ARENA" => ArenaInv))'
    BY <1>3 DEF TurnInv
  <2>1. LoopInv /\ (Turn.A = "NEW" => NewInv) /\ (Turn.A = "ARENA" => ArenaInv)
    BY <1>1, AllocationTurn DEF Active
  <2>2. LoopInv'
    BY <1>1, <1>3, <2>1 DEF LoopInv
  <2>3. Turn.A = "NEW" => NewInv'
    BY <1>1, <1>3, <1>4, <2>1 DEF NewInv
  <2>4. Turn.A = "ARENA" => ArenaInv'
    BY <1>1, <1>3, <1>4, <2>1, Zenon DEF ArenaInv
  <2> QED
    BY <1>3, <2>2, <2>3, <2>4
<1> QED
  BY <1>2, <1>5, <1>6, <1>7 DEF Inv

-----------------------------------------------------------------------------
(* The step of the loops over the allocations. *)
LEMMA Advances ==
  ASSUME Advance, pc = "run", i \in 0 .. PerRun - 1
  PROVE  \/ i + 1 # PerRun /\ i' = i + 1 /\ pc' = "run" /\ i + 1 \in 0 .. PerRun - 1
         \/ i + 1 = PerRun /\ i' = 0 /\ pc' = "run_free" /\ Turn.BenchesDeletion
         \/ i + 1 = PerRun /\ i' = 0 /\ pc' = "end" /\ ~Turn.BenchesDeletion
<1>1. PerRun \in Nat \ {0}
  BY PerRunPositive
<1>2. i' = (i + 1) % PerRun
  BY DEF Advance, PerRun
<1>3. i' = IF i + 1 = PerRun THEN 0 ELSE i + 1
  BY <1>1, <1>2, Wraps, Zenon
<1>4. i + 1 # 0
  BY <1>1
<1>5. CASE i + 1 = PerRun
  <2>1. i' = 0
    BY <1>3, <1>5, Zenon
  <2> QED
    BY <2>1, <1>5, Zenon DEF Advance
<1>6. CASE i + 1 # PerRun
  <2>1. i' = i + 1 /\ i + 1 \in 0 .. PerRun - 1
    BY <1>1, <1>3, <1>6
  <2>2. pc' = "run"
    BY <2>1, <1>4, Zenon DEF Advance
  <2> QED
    BY <2>1, <2>2, <1>6
<1> QED
  BY <1>5, <1>6

(* What both allocators' steps have in common: one more allocation, counted.    *)
LEMMA AllocateKeeps ==
  ASSUME Inv, pc = "run", IsAllocation(Turn), Advance, UNCHANGED loopVars,
         work' = [work EXCEPT !.allocated = @ + 1],
         MemberStep, IsMember(members'[bench], Turn), Len(members'[bench].a) = i + 1
  PROVE  /\ RunnerInv' /\ WorkInv' /\ OthersInv'
         /\ Turn' = Turn /\ This' = members'[bench]
         /\ LoopInv' /\ Held' = 1 .. i + 1 /\ (pc' = "run_free" => i' = 0) /\ pc' # "reset_free"
<1>1. i \in 0 .. PerRun - 1 /\ PerRun \in Nat \ {0}
  BY AllocationTurn, PerRunPositive DEF LoopInv, Active
<1>2. \/ i + 1 # PerRun /\ i' = i + 1 /\ pc' = "run" /\ i + 1 \in 0 .. PerRun - 1
      \/ i + 1 = PerRun /\ i' = 0 /\ pc' = "run_free" /\ Turn.BenchesDeletion
      \/ i + 1 = PerRun /\ i' = 0 /\ pc' = "end" /\ ~Turn.BenchesDeletion
  BY <1>1, Advances
<1>3. calls' = calls /\ bench' = bench /\ pc' \in {"run", "run_free", "end"}
  BY <1>2 DEF loopVars
<1>4. AllocationStep
  BY <1>2, <1>3 DEF AllocationStep, Active
<1>5. Turn' = Turn /\ This' = members'[bench] /\ OthersInv'
  BY <1>4, StepInTurn
<1>6. RunnerInv'
  <2>1. Body
    BY <1>3 DEF Body, Active, Timed, MemberStep
  <2> QED
    BY <2>1, BodyKeepsRunner DEF Inv
<1>7. WorkInv'
  <2>1. Shaped(work) /\ work.of = Turn /\ work.allocated = i /\ work.freed = 0
    BY DEF Inv, WorkInv, Active
  <2>2. /\ Shaped(work') /\ work'.of = Turn /\ work'.allocated = i + 1 /\ work'.freed = 0
    BY <2>1 DEF Shaped
  <2>3. pc' = "run" => work'.allocated = i' /\ work'.freed = 0
    BY <1>2, <2>2
  <2>4. pc' = "run_free" => work'.allocated = PerRun /\ work'.freed = i'
    BY <1>2, <2>2
  <2>5. pc' = "end" => IsTimeOf(work', Turn)
    <3>1. pc' = "end" => ~Turn.BenchesDeletion /\ work'.allocated = PerRun
      BY <1>2, <2>2
    <3> QED
      BY <3>1, <2>2, Zenon DEF IsTimeOf, Freed
  <2> QED
    BY <1>3, <1>5, <2>2, <2>3, <2>4, <2>5 DEF WorkInv
<1>8. LoopInv'
  <2>1. Len(This'.a) = i + 1
    BY <1>5
  <2>2. pc' = "run_free" => Turn.BenchesDeletion
    BY <1>2, Zenon
  <2> QED
    BY <1>1, <1>2, <1>3, <1>5, <2>1, <2>2 DEF LoopInv
<1>9. Held' = 1 .. i + 1
  <2>1. Len(This'.a) = i + 1
    BY <1>5
  <2>2. CASE pc' = "run"
    BY <2>1, <2>2 DEF Held
  <2>3. CASE pc' = "run_free"
    <3>1. Held' = i' + 1 .. Len(This'.a)
      BY <2>3 DEF Held
    <3>2. i' = 0
      BY <1>2, <2>3
    <3> QED
      BY <3>1, <3>2, <2>1
  <2>4. CASE pc' = "end"
    <3>1. ~Turn.BenchesDeletion
      BY <1>2, <2>4
    <3> QED
      BY <3>1, <2>1, <2>4, <1>5, Zenon DEF Held
  <2> QED
    BY <1>3, <2>2, <2>3, <2>4
<1> QED
  BY <1>2, <1>3, <1>5, <1>6, <1>7, <1>8, <1>9

(* The arena puts an allocation after those before it. *)
LEMMA ArenaAllocateKeeps ==
  ASSUME Inv, ArenaAllocate, IsAllocation(Turn)
  PROVE  Inv'
<1> DEFINE a == This.a
<1> DEFINE current == This.current
<1> DEFINE size == SizeOf(Turn, This, i + 1)
<1> DEFINE n == Len(a)
<1> DEFINE m == [a |-> Append(a, current), sizes |-> This.sizes, current |-> current + size]
<1>1. /\ pc = "run" /\ Turn.A = "ARENA" /\ Advance /\ UNCHANGED loopVars /\ heap' = heap
      /\ work' = [work EXCEPT !.allocated = @ + 1]
      /\ members' = [members EXCEPT ![bench].a = Append(@, This.current),
                                    ![bench].current = @ + SizeOf(Turn, This, i + 1)]
  BY DEF ArenaAllocate
<1>2. /\ bench \in DOMAIN members /\ IsMember(This, Turn)
      /\ This = [a |-> a, sizes |-> This.sizes, current |-> current]
      /\ LoopInv /\ ArenaInv
  BY <1>1, AllocationTurn DEF Active
<1>3. n = i /\ i \in Nat /\ heap = {} /\ i + 1 \in Nat \ {0}
  BY <1>1, <1>2, PerRunPositive DEF LoopInv, ArenaInv
<1>4. a \in Seq(Nat) /\ current \in Nat /\ This.sizes \in Fills(Turn)
  BY <1>1, <1>2 DEF IsMember
<1>5. size \in Nat
  BY <1>2, <1>3, SizeOfNat
<1>6. members'[bench] = m /\ MemberStep
  <2>1. members[bench] = This
    BY DEF This
  <2> HIDE DEF size
  <2>2. members'[bench] = [This EXCEPT !.a = Append(@, current), !.current = @ + size]
    BY <1>1, <1>2, <2>1 DEF size
  <2>3. members'[bench] = m
    BY <1>2, <2>2
  <2>4. MemberStep
    BY <1>1 DEF MemberStep
  <2> QED
    BY <2>3, <2>4
<1> HIDE DEF size
<1>7. /\ m.a = Append(a, current) /\ m.sizes = This.sizes /\ m.current = current + size
      /\ m = [a |-> m.a, sizes |-> m.sizes, current |-> m.current]
  OBVIOUS
<1> HIDE DEF m, a, current
<1>8. /\ m.a \in Seq(Nat) /\ Len(m.a) = n + 1 /\ DOMAIN m.a = 1 .. n + 1
      /\ \A k \in 1 .. n : m.a[k] = a[k] /\ a[k] \in Nat
      /\ m.a[n + 1] = current
  BY <1>4, <1>7
<1>9. IsMember(m, Turn)
  <2>1. m.current \in Nat
    BY <1>4, <1>5, <1>7
  <2>2. m.a \in Seq(IF Turn.A = "ARENA" THEN Nat ELSE Block)
    BY <1>1, <1>8
  <2> QED
    BY <1>4, <1>7, <2>1, <2>2, Zenon DEF IsMember
<1>10. /\ RunnerInv' /\ WorkInv' /\ OthersInv'
       /\ Turn' = Turn /\ This' = m
       /\ LoopInv' /\ Held' = 1 .. i + 1 /\ (pc' = "run_free" => i' = 0) /\ pc' # "reset_free"
  <2>1. Len(members'[bench].a) = i + 1
    BY <1>3, <1>6, <1>8
  <2> QED
    BY <1>1, <1>6, <1>9, <2>1, AllocateKeeps
<1>11. ArenaInv'
  <2> DEFINE S(j) == SizeOf(Turn, This, j)
  <2>1. \A j : SizeOf(Turn, m, j) = S(j)
    BY <1>7, Zenon DEF SizeOf
  <2>2. \A j \in 1 .. n : a[j] + S(j) <= current
    <3>1. DOMAIN a = 1 .. n
      BY <1>4
    <3>2. Held = 1 .. n
      BY <1>1 DEF Held, a
    <3>3. ASSUME NEW j \in 1 .. n PROVE a[j] + S(j) <= current
      <4>1. Held # {}
        BY <3>2
      <4> QED
        BY <4>1, <3>1, <1>2 DEF ArenaInv, a, current
    <3> QED
      BY <3>3
  <2>3. \A j, k \in 1 .. n : j < k => a[j] + S(j) <= a[k]
    <3>1. DOMAIN a = 1 .. n
      BY <1>4
    <3>2. Held = 1 .. n
      BY <1>1 DEF Held, a
    <3>3. ASSUME NEW j \in 1 .. n, NEW k \in 1 .. n, j < k PROVE a[j] + S(j) <= a[k]
      <4>1. Held # {}
        BY <3>2
      <4> QED
        BY <4>1, <3>1, <3>3, <1>2 DEF ArenaInv, a
    <3> QED
      BY <3>3
  <2>4. \A j \in 1 .. n + 1 : S(j) \in Nat
    <3>1. \A j \in 1 .. n + 1 : j \in Nat \ {0}
      BY <1>3
    <3> QED
      BY <3>1, <1>2, SizeOfNat
  <2>5. S(n + 1) = size
    BY <1>3 DEF size
  <2> HIDE DEF S
  <2>6. ASSUME NEW j \in 1 .. n + 1 PROVE m.a[j] + S(j) <= m.current
    <3>1. CASE j = n + 1
      <4>1. m.a[j] = current /\ S(j) = size
        BY <3>1, <1>8, <2>5
      <4> QED
        BY <4>1, <1>4, <1>5, <1>7
    <3>2. CASE j # n + 1
      <4>1. j \in 1 .. n
        BY <3>2, <1>3
      <4>2. m.a[j] = a[j] /\ a[j] \in Nat /\ a[j] + S(j) <= current /\ S(j) \in Nat
        BY <4>1, <1>8, <2>2, <2>4
      <4> QED
        BY <4>2, <1>4, <1>5, <1>7
    <3> QED
      BY <3>1, <3>2
  <2>7. ASSUME NEW j \in 1 .. n + 1, NEW k \in 1 .. n + 1, j < k
        PROVE  m.a[j] + S(j) <= m.a[k]
    <3>1. j \in 1 .. n
      BY <2>7, <1>3
    <3>2. m.a[j] = a[j]
      BY <3>1, <1>8
    <3>3. CASE k = n + 1
      BY <3>1, <3>2, <3>3, <1>8, <2>2
    <3>4. CASE k # n + 1
      <4>1. k \in 1 .. n
        BY <3>4, <1>3
      <4>2. m.a[k] = a[k] /\ a[j] + S(j) <= a[k]
        BY <4>1, <3>1, <2>7, <1>8, <2>3
      <4> QED
        BY <4>2, <3>2
    <3> QED
      BY <3>3, <3>4
  <2>8. Held' # {}
    BY <1>3, <1>10
  <2>9. \A j \in DOMAIN m.a : m.a[j] + SizeOf(Turn, m, j) <= m.current
    BY <1>8, <2>1, <2>6
  <2>10. \A j, k \in DOMAIN m.a : j < k => m.a[j] + SizeOf(Turn, m, j) <= m.a[k]
    BY <1>8, <2>1, <2>7
  <2>11. heap' = {}
    BY <1>1, <1>3
  <2> QED
    BY <1>10, <2>8, <2>9, <2>10, <2>11 DEF ArenaInv
<1> QED
  BY <1>1, <1>10, <1>11 DEF Inv, TurnInv

(* new gives a block nobody has. *)
LEMMA NewAllocateKeeps ==
  ASSUME Inv, NewAllocate, IsAllocation(Turn)
  PROVE  Inv'
<1> DEFINE a == This.a
<1> DEFINE n == Len(a)
<1>1. /\ pc = "run" /\ Turn.A = "NEW" /\ Advance /\ UNCHANGED loopVars
      /\ work' = [work EXCEPT !.allocated = @ + 1]
  BY DEF NewAllocate
<1>2. PICK p \in Block \ heap :
        heap' = heap \cup {p} /\ members' = [members EXCEPT ![bench].a = Append(@, p)]
  BY DEF NewAllocate
<1> DEFINE m == [a |-> Append(a, p), sizes |-> This.sizes, current |-> This.current]
<1>3. /\ bench \in DOMAIN members /\ IsMember(This, Turn)
      /\ This = [a |-> a, sizes |-> This.sizes, current |-> This.current]
      /\ LoopInv /\ NewInv
  BY <1>1, AllocationTurn DEF Active
<1>4. n = i /\ i \in Nat
  BY <1>1, <1>3, PerRunPositive DEF LoopInv
<1>5. /\ a \in Seq(Block) /\ This.sizes \in Fills(Turn) /\ This.current = 0
  <2>1. Turn.A # "ARENA"
    BY <1>1
  <2> QED
    BY <2>1, <1>3 DEF IsMember, NewInv
<1>6. members'[bench] = m /\ MemberStep
  <2>1. members[bench] = This
    BY DEF This
  <2>2. members'[bench] = [This EXCEPT !.a = Append(@, p)]
    BY <1>2, <1>3, <2>1
  <2>3. members'[bench] = m
    BY <1>3, <2>2
  <2>4. MemberStep
    BY <1>2 DEF MemberStep
  <2> QED
    BY <2>3, <2>4
<1>7. /\ m.a = Append(a, p) /\ m.sizes = This.sizes /\ m.current = This.current
      /\ m = [a |-> m.a, sizes |-> m.sizes, current |-> m.current]
  OBVIOUS
<1> HIDE DEF m, a
<1>8. /\ m.a \in Seq(Block) /\ Len(m.a) = n + 1 /\ DOMAIN m.a = 1 .. n + 1
      /\ \A k \in 1 .. n : m.a[k] = a[k]
      /\ m.a[n + 1] = p
  BY <1>5, <1>7
<1>9. IsMember(m, Turn)
  <2>1. m.a \in Seq(IF Turn.A = "ARENA" THEN Nat ELSE Block) /\ m.current \in Nat
    BY <1>1, <1>5, <1>7, <1>8
  <2> QED
    BY <1>5, <1>7, <2>1, Zenon DEF IsMember
<1>10. /\ RunnerInv' /\ WorkInv' /\ OthersInv'
       /\ Turn' = Turn /\ This' = m
       /\ LoopInv' /\ Held' = 1 .. i + 1
  <2>1. Len(members'[bench].a) = i + 1
    BY <1>4, <1>6, <1>8
  <2> QED
    BY <1>1, <1>6, <1>9, <2>1, AllocateKeeps
<1>11. NewInv'
  <2>1. DOMAIN a = 1 .. n
    BY <1>5
  <2>2. /\ heap = {a[k] : k \in 1 .. n}
        /\ \A j, k \in 1 .. n : j # k => a[j] # a[k]
    <3>1. Held = 1 .. n
      BY <1>1 DEF Held, a
    <3> QED
      BY <1>3, <2>1, <3>1 DEF NewInv, a
  <2>3. \A k \in 1 .. n : a[k] # p
    BY <1>2, <2>2
  <2>4. \A k \in 1 .. n + 1 : k \in 1 .. n \/ k = n + 1
    BY <1>4
  <2>5. \A k \in 1 .. n : k \in 1 .. n + 1
    BY <1>4
  <2>6. \A j, k \in 1 .. n + 1 : j # k => m.a[j] # m.a[k]
    BY <1>8, <2>2, <2>3, <2>4, Zenon
  <2>7. heap' = {m.a[k] : k \in 1 .. n + 1}
    <3>1. ASSUME NEW q \in heap' PROVE \E k \in 1 .. n + 1 : q = m.a[k]
      <4>1. CASE q = p
        <5>1. n + 1 \in 1 .. n + 1
          BY <1>4
        <5> QED
          BY <4>1, <5>1, <1>8
      <4>2. CASE q \in heap
        BY <4>2, <2>2, <2>5, <1>8
      <4> QED
        BY <4>1, <4>2, <1>2
    <3>2. ASSUME NEW k \in 1 .. n + 1 PROVE m.a[k] \in heap'
      <4>1. CASE k \in 1 .. n
        BY <4>1, <2>2, <1>8, <1>2
      <4>2. CASE k = n + 1
        BY <4>2, <1>8, <1>2
      <4> QED
        BY <4>1, <4>2, <2>4
    <3> QED
      BY <3>1, <3>2
  <2>8. m.current = 0
    BY <1>5, <1>7
  <2> QED
    BY <1>4, <1>8, <1>10, <2>6, <2>7, <2>8 DEF NewInv
<1> QED
  BY <1>1, <1>10, <1>11 DEF Inv, TurnInv

-----------------------------------------------------------------------------
(* A step of the turn that only changes pc, of which nothing is measured.       *)
LEMMA UnmeasuredKeeps ==
  ASSUME Inv, AllocationStep, Body, work' = work, pc \notin {"run", "run_free"},
         pc' \notin {"run", "run_free"}
  PROVE  RunnerInv' /\ WorkInv' /\ OthersInv' /\ Turn' = Turn /\ This' = members'[bench]
<1>1. Turn' = Turn /\ This' = members'[bench] /\ OthersInv'
  BY StepInTurn
<1>2. RunnerInv'
  BY BodyKeepsRunner DEF Inv
<1>3. WorkInv'
  <2>1. Shaped(work) /\ work.of = Turn /\ IsTimeOf(work, Turn)
    BY DEF Inv, WorkInv, AllocationStep, Body
  <2> QED
    BY <1>1, <2>1 DEF WorkInv, AllocationStep
<1> QED
  BY <1>1, <1>2, <1>3

(* What a run did not free is for its reset to free. *)
LEMMA ResetBenchmarkKeeps ==
  ASSUME Inv, ResetBenchmark, IsAllocation(Turn), UNCHANGED heap
  PROVE  Inv'
<1>1. /\ pc = "reset" /\ pc' = (IF Turn.BenchesDeletion THEN "clear" ELSE "reset_free")
      /\ UNCHANGED loopVars /\ members' = members /\ i' = i /\ work' = work
  BY DEF ResetBenchmark
<1>2. /\ IsMember(This, Turn) /\ Len(This.a) \in Nat /\ LoopInv
      /\ (Turn.A = "NEW" => NewInv) /\ (Turn.A = "ARENA" => ArenaInv)
  BY <1>1, AllocationTurn DEF Active
<1>3. i = 0 /\ Len(This.a) = PerRun /\ PerRun \in Nat \ {0}
  BY <1>1, <1>2, PerRunPositive DEF Inv, OthersInv, LoopInv
<1>4. \/ pc' = "clear" /\ Turn.BenchesDeletion
      \/ pc' = "reset_free" /\ ~Turn.BenchesDeletion
  BY <1>1, Zenon
<1>5. /\ calls' = calls /\ bench' = bench
  BY <1>1 DEF loopVars
<1>6. AllocationStep /\ Body
  BY <1>1, <1>2, <1>3, <1>4, <1>5 DEF AllocationStep, Body, Active, Timed, MemberStep, This
<1>7. /\ RunnerInv' /\ WorkInv' /\ OthersInv' /\ Turn' = Turn /\ This' = This
  <2>1. members'[bench] = This
    BY <1>1 DEF This
  <2> QED
    BY <1>1, <1>4, <1>6, <2>1, UnmeasuredKeeps
<1>8. Held' = Held
  <2>1. CASE pc' = "clear"
    <3>1. Turn.BenchesDeletion /\ Held' = {}
      BY <1>4, <2>1 DEF Held
    <3>2. Held = {}
      BY <1>1, <3>1, Zenon DEF Held
    <3> QED
      BY <3>1, <3>2
  <2>2. CASE pc' = "reset_free"
    <3>1. ~Turn.BenchesDeletion /\ Held' = i' + 1 .. Len(This'.a)
      BY <1>4, <2>2 DEF Held
    <3>2. Held = 1 .. Len(This.a)
      BY <1>1, <3>1, Zenon DEF Held
    <3>3. i' + 1 = 1 /\ This' = This
      BY <1>1, <1>3, <1>7
    <3> QED
      BY <3>1, <3>2, <3>3, Zenon
  <2> QED
    BY <1>4, <2>1, <2>2
<1>9. LoopInv'
  <2>1. pc' = "clear" => Held' = {}
    BY Zenon DEF Held
  <2>2. pc' = "reset_free" => ~Turn'.BenchesDeletion
    BY <1>4, <1>7, Zenon
  <2> QED
    BY <1>1, <1>3, <1>4, <1>7, <2>1, <2>2 DEF LoopInv
<1>10. Turn.A = "NEW" => NewInv'
  BY <1>2, <1>7, <1>8 DEF NewInv
<1>11. Turn.A = "ARENA" => ArenaInv'
  <2> SUFFICES ASSUME Turn.A = "ARENA" PROVE ArenaInv'
    OBVIOUS
  <2>1. ArenaInv /\ i' = 0
    BY <1>1, <1>2, <1>3
  <2> QED
    BY <2>1, <1>7, <1>8, Zenon DEF ArenaInv
<1> QED
  BY <1>7, <1>9, <1>10, <1>11 DEF Inv, TurnInv

(* What resetBenchmark leaves: no pointers, and new random sizes. *)
DrawsSizes(fill) ==
  members' = [members EXCEPT ![bench].a = <<>>, ![bench].sizes = fill]

(* Clearing the pointers, whatever sizes are drawn ... *)
LEMMA ClearsTo ==
  ASSUME Inv, Clear, IsAllocation(Turn), UNCHANGED heap, NEW drawn \in Fills(Turn),
         DrawsSizes(drawn)
  PROVE  Inv'
<1>1. /\ pc = "clear" /\ pc' = "add" /\ UNCHANGED loopVars /\ i' = i /\ work' = work
  BY DEF Clear
<1>3. /\ bench \in DOMAIN members /\ LoopInv
      /\ This = [a |-> This.a, sizes |-> This.sizes, current |-> This.current]
      /\ (Turn.A = "NEW" => NewInv) /\ (Turn.A = "ARENA" => ArenaInv)
      /\ Turn.A \in {"ARENA", "NEW"}
  BY <1>1, AllocationTurn DEF Active
<1>4. Held = {} /\ Held' = {} /\ i = 0
  BY <1>1, <1>3 DEF LoopInv, Inv, OthersInv, Held
<1>5. This.current = 0 /\ heap = {}
  BY <1>3, <1>4 DEF NewInv, ArenaInv
<1> DEFINE m == [a |-> <<>>, sizes |-> drawn, current |-> 0]
<1>6. members'[bench] = m /\ MemberStep
  <2>1. members[bench] = This
    BY DEF This
  <2>2. members'[bench] = [This EXCEPT !.a = <<>>, !.sizes = drawn]
    BY <1>3, <2>1 DEF DrawsSizes
  <2>3. members'[bench] = m
    BY <1>3, <1>5, <2>2
  <2>4. MemberStep
    BY DEF MemberStep, DrawsSizes
  <2> QED
    BY <2>3, <2>4
<1>7. IsMember(m, Turn) /\ Empty(m)
  <2>1. \A S : <<>> \in Seq(S)
    OBVIOUS
  <2> QED
    BY <2>1 DEF IsMember, Empty
<1>8. calls' = calls /\ bench' = bench
  BY <1>1 DEF loopVars
<1>9. AllocationStep /\ Body
  BY <1>1, <1>4, <1>6, <1>7, <1>8 DEF AllocationStep, Body, Active, Timed, MemberStep
<1>10. /\ RunnerInv' /\ WorkInv' /\ OthersInv' /\ Turn' = Turn /\ This' = m
  BY <1>1, <1>6, <1>9, UnmeasuredKeeps
<1>11. This'.a = <<>> /\ This'.current = 0 /\ DOMAIN <<>> = {}
  BY <1>10
<1>12. LoopInv' /\ NewInv' /\ ArenaInv'
  BY <1>1, <1>4, <1>5, <1>11 DEF LoopInv, NewInv, ArenaInv
<1> QED
  BY <1>10, <1>12 DEF Inv, TurnInv

(* ... as each way to clear draws some. *)
LEMMA ClearStepKeeps ==
  ASSUME Inv, Clear, IsAllocation(Turn), UNCHANGED heap
  PROVE  Inv'
<1>1. \E fill \in Fills(Turn) : DrawsSizes(fill)
  BY Zenon DEF Clear, DrawsSizes
<1> QED
  BY <1>1, ClearsTo, Zenon

-----------------------------------------------------------------------------
(* What both allocators' ways to give memory back have in common: it is counted *)
(* if the timer is going.                                                     *)
LEMMA FreeKeeps ==
  ASSUME Inv, pc \in {"run_free", "reset_free"}, AllocationStep, UNCHANGED loopVars,
         work' = IF isTiming THEN [work EXCEPT !.freed = @ + 1] ELSE work,
         \/ pc' = AfterFree /\ (pc = "run_free" => Freed(Turn) = i + 1)
         \/ pc' = pc /\ i' = i + 1
  PROVE  RunnerInv' /\ WorkInv' /\ OthersInv' /\ Turn' = Turn /\ This' = members'[bench]
<1>1. Turn' = Turn /\ This' = members'[bench] /\ OthersInv'
  BY StepInTurn
<1>2. \/ pc = "run_free" /\ pc' \in {"run_free", "end"}
      \/ pc = "reset_free" /\ pc' \in {"reset_free", "clear"}
  BY DEF AfterFree
<1>3. RunnerInv'
  <2>1. Body
    BY <1>2 DEF Body, Active, Timed, AllocationStep, MemberStep
  <2> QED
    BY <2>1, BodyKeepsRunner DEF Inv
<1>4. WorkInv'
  <2>1. isTiming <=> pc = "run_free"
    BY DEF Inv, RunnerInv, ControlInv, Timed
  <2>2. IsAllocation(Turn) /\ Shaped(work) /\ work.of = Turn
    BY DEF Inv, WorkInv, Active, AllocationStep
  <2>3. CASE pc = "run_free"
    <3>1. work.allocated = PerRun /\ work.freed = i
      BY <2>2, <2>3 DEF Inv, WorkInv, Active
    <3>2. work' = [work EXCEPT !.freed = @ + 1]
      BY <2>1, <2>3, Zenon
    <3>3. Shaped(work') /\ work'.of = Turn /\ work'.allocated = PerRun /\ work'.freed = i + 1
      BY <2>2, <3>1, <3>2 DEF Shaped
    <3>4. CASE pc' = "run_free"
      <4>1. i' = i + 1
        BY <2>3, <3>4 DEF AfterFree
      <4> QED
        BY <1>1, <3>3, <3>4, <4>1 DEF WorkInv
    <3>5. CASE pc' = "end"
      <4>1. Freed(Turn) = i + 1
        BY <2>3, <3>5
      <4>2. IsTimeOf(work', Turn)
        BY <3>3, <4>1 DEF IsTimeOf
      <4> QED
        BY <1>1, <3>3, <3>5, <4>2 DEF WorkInv
    <3> QED
      BY <1>2, <2>3, <3>4, <3>5
  <2>4. CASE pc = "reset_free"
    <3>1. IsTimeOf(work, Turn)
      BY <2>2, <2>4 DEF Inv, WorkInv, Active
    <3>2. work' = work
      BY <2>1, <2>4, Zenon
    <3> QED
      BY <1>1, <1>2, <2>2, <2>4, <3>1, <3>2 DEF WorkInv
  <2> QED
    BY <2>3, <2>4
<1> QED
  BY <1>1, <1>3, <1>4

(* One reset gives back all of the arena. *)
LEMMA ArenaResetKeeps ==
  ASSUME Inv, ArenaReset, IsAllocation(Turn)
  PROVE  Inv'
<1>1. /\ pc \in {"run_free", "reset_free"} /\ Turn.A = "ARENA" /\ pc' = AfterFree
      /\ UNCHANGED loopVars /\ i' = i /\ heap' = heap
      /\ members' = [members EXCEPT ![bench].current = 0]
      /\ work' = IF isTiming THEN [work EXCEPT !.freed = @ + 1] ELSE work
  BY DEF ArenaReset, Freeing
<1> DEFINE m == [a |-> This.a, sizes |-> This.sizes, current |-> 0]
<1>2. /\ bench \in DOMAIN members /\ IsMember(This, Turn) /\ LoopInv /\ ArenaInv
      /\ This = [a |-> This.a, sizes |-> This.sizes, current |-> This.current]
  BY <1>1, AllocationTurn DEF Active
<1>3. i = 0 /\ heap = {} /\ Len(This.a) = PerRun
  BY <1>1, <1>2 DEF ArenaInv, LoopInv
<1>4. pc' \in {"end", "clear"}
  BY <1>1 DEF AfterFree
<1>5. members'[bench] = m /\ MemberStep
  <2>1. members[bench] = This
    BY DEF This
  <2>2. members'[bench] = [This EXCEPT !.current = 0]
    BY <1>1, <1>2, <2>1
  <2> QED
    BY <1>1, <1>2, <2>2 DEF MemberStep
<1>6. IsMember(m, Turn)
  BY <1>2 DEF IsMember
<1>7. calls' = calls /\ bench' = bench
  BY <1>1 DEF loopVars
<1>8. AllocationStep
  BY <1>1, <1>3, <1>4, <1>5, <1>6, <1>7 DEF AllocationStep, Active
<1>9. pc = "run_free" => Turn.BenchesDeletion /\ pc' = "end"
  BY <1>1, <1>2 DEF LoopInv, AfterFree
<1>10. pc = "run_free" => Freed(Turn) = i + 1
  BY <1>1, <1>3, <1>9 DEF Freed
<1>11. RunnerInv' /\ WorkInv' /\ OthersInv' /\ Turn' = Turn /\ This' = m
  BY <1>1, <1>5, <1>8, <1>10, FreeKeeps
<1>12. This'.a = This.a /\ This'.current = 0
  BY <1>11
<1>13. Held' = {}
  <2>1. CASE pc' = "clear"
    BY <2>1 DEF Held
  <2>2. CASE pc' = "end"
    <3>1. Turn'.BenchesDeletion
      BY <2>2, <1>1, <1>9, <1>11 DEF AfterFree
    <3> QED
      BY <2>2, <3>1, Zenon DEF Held
  <2> QED
    BY <1>4, <2>1, <2>2
<1>14. LoopInv' /\ ArenaInv'
  BY <1>1, <1>3, <1>4, <1>12, <1>13 DEF LoopInv, ArenaInv
<1> QED
  BY <1>1, <1>11, <1>14 DEF Inv, TurnInv

(* delete gives back one block, the next in order. *)
LEMMA DeleteKeeps ==
  ASSUME Inv, Delete, IsAllocation(Turn)
  PROVE  Inv'
<1> DEFINE a == This.a
<1>1. /\ pc \in {"run_free", "reset_free"} /\ Turn.A = "NEW"
      /\ heap' = heap \ {a[i + 1]} /\ i' = (i + 1) % Len(a)
      /\ pc' = (IF i' = 0 THEN AfterFree ELSE pc)
      /\ UNCHANGED loopVars /\ members' = members
      /\ work' = IF isTiming THEN [work EXCEPT !.freed = @ + 1] ELSE work
  BY Zenon DEF Delete, Freeing
<1>2. /\ bench \in DOMAIN members /\ IsMember(This, Turn) /\ LoopInv /\ NewInv
      /\ DOMAIN a = 1 .. Len(a)
  BY <1>1, AllocationTurn DEF Active
<1>3. i \in 0 .. PerRun - 1 /\ Len(a) = PerRun /\ PerRun \in Nat \ {0}
  BY <1>1, <1>2, PerRunPositive DEF LoopInv
<1>4. \/ i + 1 = PerRun /\ i' = 0 /\ pc' = AfterFree
      \/ i + 1 # PerRun /\ i' = i + 1 /\ pc' = pc /\ i' \in 0 .. PerRun - 1
  <2>1. i' = IF i + 1 = PerRun THEN 0 ELSE i + 1
    <3>1. (i + 1) % PerRun = IF i + 1 = PerRun THEN 0 ELSE i + 1
      BY <1>3, Wraps
    <3> QED
      BY <1>1, <1>3, <3>1, Zenon
  <2>2. CASE i + 1 = PerRun
    <3>1. i' = 0
      BY <2>1, <2>2, Zenon
    <3> QED
      BY <1>1, <2>2, <3>1, Zenon
  <2>3. CASE i + 1 # PerRun
    <3>1. i' = i + 1
      BY <2>1, <2>3, Zenon
    <3>2. i' # 0 /\ i' \in 0 .. PerRun - 1
      BY <1>3, <2>3, <3>1
    <3> QED
      BY <1>1, <2>3, <3>1, <3>2, Zenon
  <2> QED
    BY <2>2, <2>3
<1>5. AfterFree \in {"end", "clear"}
  BY DEF AfterFree
<1>6. calls' = calls /\ bench' = bench /\ members'[bench] = This /\ MemberStep
  BY <1>1 DEF loopVars, This, MemberStep
<1>7. AllocationStep
  BY <1>1, <1>2, <1>4, <1>5, <1>6 DEF AllocationStep, Active
<1>8. pc = "run_free" => Turn.BenchesDeletion
  BY <1>2 DEF LoopInv
<1>9. \/ pc' = AfterFree /\ (pc = "run_free" => Freed(Turn) = i + 1)
      \/ pc' = pc /\ i' = i + 1
  <2>1. pc = "run_free" => Freed(Turn) = PerRun
    BY <1>1, <1>8 DEF Freed
  <2> QED
    BY <1>4, <2>1
<1>10. RunnerInv' /\ WorkInv' /\ OthersInv' /\ Turn' = Turn /\ This' = This
  BY <1>1, <1>6, <1>7, <1>9, FreeKeeps
<1>11. Held = i + 1 .. PerRun
  BY <1>1, <1>3 DEF Held
<1>12. Held' = i + 2 .. PerRun
  <2>1. CASE i + 1 = PerRun
    <3>1. Held' = {}
      <4>1. pc' = AfterFree
        BY <1>4, <2>1
      <4>2. CASE pc = "run_free"
        BY <4>1, <4>2, <1>8, <1>10, Zenon DEF Held, AfterFree
      <4>3. CASE pc = "reset_free"
        BY <4>1, <4>3, Zenon DEF Held, AfterFree
      <4> QED
        BY <1>1, <4>2, <4>3
    <3>2. i + 2 .. PerRun = {}
      BY <1>3, <2>1
    <3> QED
      BY <3>1, <3>2, Zenon
  <2>2. CASE i + 1 # PerRun
    <3>1. pc' \in {"run_free", "reset_free"} /\ i' + 1 = i + 2
      BY <1>1, <1>3, <1>4, <2>2
    <3>2. Held' = i' + 1 .. Len(This'.a)
      BY <3>1 DEF Held
    <3> QED
      BY <3>1, <3>2, <1>3, <1>10
  <2> QED
    BY <2>1, <2>2
<1>13. LoopInv'
  <2>1. Len(This'.a) = PerRun
    BY <1>3, <1>10
  <2>2. pc' = "clear" => Held' = {}
    BY Zenon DEF Held
  <2>3. (pc' = "run_free" => Turn'.BenchesDeletion) /\ (pc' = "reset_free" => ~Turn'.BenchesDeletion)
    BY <1>1, <1>2, <1>4, <1>5, <1>10 DEF LoopInv
  <2>4. pc' \in {"run_free", "reset_free"} => i' \in 0 .. PerRun - 1
    BY <1>4, <1>5
  <2>5. pc' \in {"run_free", "reset_free", "end", "clear"}
    BY <1>1, <1>4, <1>5
  <2> QED
    BY <2>1, <2>2, <2>3, <2>4, <2>5 DEF LoopInv
<1>14. NewInv'
  <2>1. /\ This.current = 0 /\ heap = {a[k] : k \in i + 1 .. PerRun}
        /\ \A j, k \in 1 .. PerRun : j # k => a[j] # a[k]
    BY <1>2, <1>3, <1>11 DEF NewInv
  <2> HIDE DEF a
  <2>2. heap' = {a[k] : k \in i + 2 .. PerRun}
    <3>1. /\ i + 1 \in 1 .. PerRun
          /\ \A k \in i + 1 .. PerRun : k \in 1 .. PerRun /\ (k = i + 1 \/ k \in i + 2 .. PerRun)
          /\ \A k \in i + 2 .. PerRun : k \in i + 1 .. PerRun /\ k # i + 1
      BY <1>3
    <3>2. ASSUME NEW k \in i + 2 .. PerRun PROVE a[k] \in heap'
      BY <1>1, <2>1, <3>1
    <3>3. ASSUME NEW q \in heap' PROVE \E k \in i + 2 .. PerRun : q = a[k]
      <4>1. q \in heap /\ q # a[i + 1]
        BY <1>1
      <4>2. PICK k \in i + 1 .. PerRun : q = a[k]
        BY <4>1, <2>1
      <4> QED
        BY <4>1, <4>2, <3>1
    <3> QED
      BY <3>2, <3>3
  <2>3. heap' = {This'.a[k] : k \in Held'}
    BY <1>10, <1>12, <2>2 DEF a
  <2> QED
    BY <1>2, <1>10, <2>1, <2>3 DEF NewInv
<1> QED
  BY <1>1, <1>10, <1>13, <1>14 DEF Inv, TurnInv

-----------------------------------------------------------------------------
(* main may make any call the program has. *)
LEMMA StartsProper ==
  ASSUME NEW main \in Program
  PROVE  /\ IsSeq(main) /\ Len(main) > 0
         /\ \A c \in DOMAIN main : ProperCall(main[c])
<1>1. /\ main # <<>> /\ IsSeq(main)
      /\ \A c \in DOMAIN main :
           /\ main[c] # <<>> /\ IsSeq(main[c])
           /\ \A j, k \in DOMAIN main[c] : j # k => main[c][j].name # main[c][k].name
  BY ProgramAssumption DEF IsSeq
<1>2. ASSUME NEW s, IsSeq(s), s # <<>> PROVE Len(s) > 0
  <2>1. Len(s) \in Nat /\ s = [k \in 1 .. Len(s) |-> s[k]] /\ DOMAIN s = 1 .. Len(s)
    BY <1>2, SeqIsFunction
  <2>2. s \in Seq({s[k] : k \in DOMAIN s})
    BY <1>2 DEF IsSeq
  <2> QED
    BY <1>2, <2>1, <2>2, EmptySeq
<1>3. ASSUME NEW c \in DOMAIN main PROVE ProperCall(main[c])
  <2>1. IsSeq(main[c]) /\ Len(main[c]) > 0
    BY <1>1, <1>2
  <2>2. \A j, k \in DOMAIN main[c] : j # k => main[c][j].name # main[c][k].name
    BY <1>1
  <2>3. \A k \in DOMAIN main[c] : IsAllocation(main[c][k]) =>
          \E A \in {"ARENA", "NEW"}, BenchesDeletion, VariableAllocSizes \in BOOLEAN :
            main[c][k] = AllocationBench(A, BenchesDeletion, VariableAllocSizes)
    BY TemplateAssumption, Zenon
  <2>4. \A k \in DOMAIN main[c] : ProperArguments(main[c][k])
    BY ArgumentsAssumption, Zenon DEF ProperArguments
  <2>5. ComparesRivals(main[c])
    BY RivalsAssumption, Zenon DEF ComparesRivals
  <2> QED
    BY <2>1, <2>2, <2>3, <2>4, <2>5, Zenon DEF ProperCall
<1> QED
  BY <1>1, <1>2, <1>3

(* The invariant holds when main begins ... *)
LEMMA Starts ==
  ASSUME Init
  PROVE  Inv
<1>1. /\ calls \in Program /\ numSamples \in NumSamples
      /\ sample = 0 /\ bench = 1 /\ pc = "construct" /\ i = 0 /\ isTiming = FALSE
      /\ work = NewWork(Turn) /\ collection = <<>> /\ printed = <<>> /\ heap = {}
  BY DEF Init, RunnerInit, AllocationInit
<1>2. CallsInv
  BY <1>1, StartsProper DEF CallsInv
<1>3. ControlInv
  <2>1. 1 \in DOMAIN calls
    BY <1>2, SeqIsFunction DEF CallsInv
  <2>2. IsSeq(calls[1]) /\ Len(calls[1]) > 0
    BY <1>2, <2>1 DEF CallsInv, ProperCall
  <2>3. Len(calls[1]) \in Nat
    BY <2>2, SeqIsFunction
  <2>4. bench \in 1 .. Len(calls[1])
    BY <1>1, <2>2, <2>3
  <2>5. numSamples \in Nat \ {0}
    BY <1>1, RunnerAssumption
  <2> QED
    BY <1>1, <1>2, <2>4, <2>5 DEF ControlInv, Active, Timed
<1>4. CollectionInv
  <2>1. <<>> = [k \in 1 .. 0 |-> <<>>[k]] /\ 0 \in Nat
    OBVIOUS
  <2>2. IsSeq(<<>>) /\ Len(<<>>) = 0
    BY <2>1, FunctionIsSeq, Zenon
  <2>3. Entries = 0
    BY <1>1 DEF Entries
  <2> QED
    BY <1>1, <2>2, <2>3 DEF CollectionInv
<1>5. PrintedInv
  BY <1>1 DEF PrintedInv
<1>6. WorkInv
  <2>1. Shaped(work)
    BY <1>1 DEF NewWork, Shaped
  <2> QED
    BY <1>1, <2>1 DEF WorkInv, Active
<1>7. OthersInv /\ TurnInv
  BY <1>1 DEF OthersInv, TurnInv, Active
<1> QED
  BY <1>3, <1>4, <1>5, <1>6, <1>7 DEF Inv, RunnerInv

(* ... and every step keeps it. *)
LEMMA StepKeeps ==
  ASSUME Inv, [Next]_vars
  PROVE  Inv'
<1>1. CASE Construct(Made(calls[1])) /\ ConstructArr /\ UNCHANGED heap
  BY <1>1, ConstructKeeps
<1>2. CASE RunnerNext /\ UNCHANGED <<heap, arr>>
  <2>1. UNCHANGED heap
    BY <1>2
  <2>2. CASE ConstructThrows \/ AddTimeThrows
    BY <2>2, FailKeeps DEF ConstructThrows, AddTimeThrows
  <2>3. CASE StartTimer
    BY <2>1, <2>3, StartTimerKeeps
  <2>4. CASE EndTimer
    BY <2>1, <2>4, EndTimerKeeps
  <2>5. CASE AddTime
    BY <2>1, <2>5, AddTimeKeeps
  <2>6. CASE PrintThrows
    <3>1. RunnerInv'
      BY <2>6, PrintThrowsKeepsRunner DEF Inv
    <3>2. pc = "print" /\ Fail
      BY <2>6 DEF PrintThrows
    <3> QED
      BY <3>1, <3>2, FailKeeps
  <2>7. CASE PrintNext \/ Return \/ NextCall
    BY <2>1, <2>7, QuietKeeps
  <2> QED
    BY <1>2, <2>2, <2>3, <2>4, <2>5, <2>6, <2>7 DEF RunnerNext
<1>3. CASE AllocationNext /\ UNCHANGED arr
  <2>1. IsAllocation(Turn)
    BY <1>3 DEF AllocationNext
  <2>2. CASE ArenaAllocate
    BY <2>1, <2>2, ArenaAllocateKeeps
  <2>3. CASE NewAllocate
    BY <2>1, <2>3, NewAllocateKeeps
  <2>4. CASE AllocateThrows
    BY <2>4, FailKeeps DEF AllocateThrows
  <2>5. CASE ArenaReset
    BY <2>1, <2>5, ArenaResetKeeps
  <2>6. CASE Delete
    BY <2>1, <2>6, DeleteKeeps
  <2>7. CASE ResetBenchmark
    <3>1. UNCHANGED heap
      BY <2>7 DEF ResetBenchmark
    <3> QED
      BY <2>1, <2>7, <3>1, ResetBenchmarkKeeps
  <2>8. CASE Clear
    <3>1. UNCHANGED heap
      BY <2>8 DEF Clear
    <3> QED
      BY <2>1, <2>8, <3>1, ClearStepKeeps
  <2> QED
    BY <1>3, <2>2, <2>3, <2>4, <2>5, <2>6, <2>7, <2>8, Zenon DEF AllocationNext
<1>4. CASE WorkloadNext /\ UNCHANGED heap
  <2>1. (WorkloadStep \/ (pc \in {"run", "reset"} /\ Fail)) /\ ~IsAllocation(Turn)
    BY <1>4, WorkloadSteps DEF Inv, WorkInv
  <2>2. CASE WorkloadStep
    BY <1>4, <2>1, <2>2, WorkloadKeeps
  <2>3. CASE pc \in {"run", "reset"} /\ Fail
    BY <2>3, FailKeeps
  <2> QED
    BY <2>1, <2>2, <2>3
<1>5. CASE Ended
  BY <1>5, StutterKeeps DEF Ended
<1>6. CASE UNCHANGED vars
  BY <1>6, StutterKeeps
<1> QED
  BY <1>1, <1>2, <1>3, <1>4, <1>5, <1>6 DEF Next

(* The invariant holds in every state of the program. *)
THEOREM InvHolds == Spec => []Inv
<1>1. Init => Inv
  BY Starts
<1>2. Inv /\ [Next]_vars => Inv'
  BY StepKeeps
<1> QED
  BY <1>1, <1>2, PTL DEF Spec

-----------------------------------------------------------------------------
(* The invariant implies each of the properties: clean starts ... *)
LEMMA InvClean ==
  ASSUME Inv
  PROVE  CleanStart
<1> SUFFICES ASSUME pc = "start"
             PROVE  /\ ~isTiming /\ heap = {}
                    /\ \A k \in Allocating : members[k].a = <<>> /\ members[k].current = 0
  BY DEF CleanStart
<1>1. ~isTiming
  BY DEF Inv, RunnerInv, ControlInv, Timed
<1>2. heap = {}
  <2>1. CASE IsAllocation(Turn)
    <3>1. /\ LoopInv /\ (Turn.A = "NEW" => NewInv) /\ (Turn.A = "ARENA" => ArenaInv)
          /\ Turn.A \in {"ARENA", "NEW"}
      BY <2>1, AllocationTurn DEF Active
    <3>2. Held = {}
      BY <3>1 DEF LoopInv
    <3> QED
      BY <3>1, <3>2 DEF NewInv, ArenaInv
  <2>2. CASE ~IsAllocation(Turn)
    BY <2>2 DEF Inv, OthersInv
  <2> QED
    BY <2>1, <2>2
<1>3. \A k \in Allocating : Empty(members[k])
  BY DEF Inv, OthersInv, Active
<1> QED
  BY <1>1, <1>2, <1>3 DEF Empty

(* CleanStart: whatever main calls, a benchable is only run with the timer free *)
(* and all memory given back (AllocationBench, executeBench).                *)
THEOREM StartsClean == Spec => []CleanStart
BY InvHolds, InvClean, PTL

(* ... allocations apart ... *)
LEMMA InvSeparate ==
  ASSUME Inv
  PROVE  AllocationsSeparate
<1> SUFFICES ASSUME bench \in Allocating, pc \in {"run", "run_free", "reset_free"}
             PROVE  /\ \A j, k \in DOMAIN This.a : j < k =>
                         IF Turn.A = "ARENA"
                         THEN This.a[j] + SizeOf(Turn, This, j) <= This.a[k]
                         ELSE This.a[j] # This.a[k]
                    /\ Turn.A = "NEW" =>
                         \A k \in DOMAIN This.a : pc = "run" \/ k > i => This.a[k] \in heap
  BY Zenon DEF AllocationsSeparate
<1>1. /\ LoopInv /\ (Turn.A = "NEW" => NewInv) /\ (Turn.A = "ARENA" => ArenaInv)
      /\ Turn.A \in {"ARENA", "NEW"} /\ DOMAIN This.a = 1 .. Len(This.a) /\ Len(This.a) \in Nat
  <2>1. IsAllocation(Turn)
    BY DEF Allocating, Turn
  <2> QED
    BY <2>1, AllocationTurn DEF Active
<1>2. \/ pc = "run" /\ Held = 1 .. Len(This.a)
      \/ pc \in {"run_free", "reset_free"} /\ Held = i + 1 .. Len(This.a) /\ i \in 0 .. PerRun - 1
  BY <1>1 DEF LoopInv, Held
<1>3. PerRun \in Nat \ {0}
  BY PerRunPositive
<1>4. CASE Turn.A = "ARENA"
  <2>1. pc # "run" => i = 0
    BY <1>1, <1>4 DEF ArenaInv
  <2>2. Held = 1 .. Len(This.a)
    BY <1>2, <2>1
  <2>3. ASSUME NEW j \in DOMAIN This.a, NEW k \in DOMAIN This.a, j < k
        PROVE  This.a[j] + SizeOf(Turn, This, j) <= This.a[k]
    <3>1. Held # {}
      BY <2>2, <1>1
    <3> QED
      BY <3>1, <2>3, <1>1, <1>4 DEF ArenaInv
  <2> QED
    BY <1>4, <2>3
<1>5. CASE Turn.A = "NEW"
  <2>1. /\ \A j, k \in DOMAIN This.a : j # k => This.a[j] # This.a[k]
        /\ heap = {This.a[k] : k \in Held}
    BY <1>1, <1>5 DEF NewInv
  <2>2. \A j, k \in DOMAIN This.a : j < k => This.a[j] # This.a[k]
    BY <1>1, <2>1
  <2>3. ASSUME NEW k \in DOMAIN This.a, pc = "run" \/ k > i PROVE This.a[k] \in heap
    <3>1. k \in Held
      BY <1>1, <1>2, <1>3, <2>3
    <3> QED
      BY <2>1, <3>1
  <2> QED
    BY <1>5, <2>2, <2>3
<1> QED
  BY <1>1, <1>4, <1>5

(* AllocationsSeparate: no two allocations of a run overlap, and nothing is     *)
(* deleted that is not allocated (NewWrapper, Arena).                         *)
THEOREM AllocationsApart == Spec => []AllocationsSeparate
BY InvHolds, InvSeparate, PTL

(* ... times of one run ... *)
LEMMA InvMeasures ==
  ASSUME Inv
  PROVE  MeasuresOneRun
<1>1. CASE pc = "failed"
  <2>1. collection = <<>>
    BY <1>1 DEF Inv, RunnerInv, CollectionInv
  <2>2. DOMAIN collection = {}
    BY <2>1
  <2> QED
    BY <2>2 DEF MeasuresOneRun
<1>2. CASE pc # "failed"
  <2>1. /\ IsSeq(collection) /\ Len(collection) = Entries
        /\ \A k \in 1 .. Entries : IsEntry(collection[k], calls[1][k], Samples(k))
    BY <1>2 DEF Inv, RunnerInv, CollectionInv
  <2>2. /\ ProperCall(calls[1]) /\ DOMAIN calls[1] = 1 .. Len(calls[1])
        /\ Len(calls[1]) \in Nat /\ bench \in 1 .. Len(calls[1])
    BY TurnFacts DEF Inv, RunnerInv, ControlInv
  <2>3. DOMAIN collection = 1 .. Entries /\ 1 .. Entries \subseteq DOMAIN calls[1]
    <3>1. DOMAIN collection = 1 .. Entries
      BY <2>1, SeqIsFunction
    <3> QED
      BY <3>1, <2>2 DEF Entries
  <2> SUFFICES ASSUME NEW k \in DOMAIN collection, NEW n \in DOMAIN collection[k].clockTimes
               PROVE  LET t == collection[k].clockTimes[n] IN
                      /\ \E j \in DOMAIN calls[1] : t.of = calls[1][j]
                      /\ t.of.name = collection[k].name
                      /\ IsAllocation(t.of) =>
                           /\ t.allocated = PerRun
                           /\ t.freed = CASE ~t.of.BenchesDeletion -> 0
                                          [] t.of.BenchesDeletion /\ t.of.A = "ARENA" -> 1
                                          [] t.of.BenchesDeletion /\ t.of.A = "NEW" -> PerRun
    BY Zenon DEF MeasuresOneRun
  <2> DEFINE t == collection[k].clockTimes[n]
  <2> DEFINE b == calls[1][k]
  <2>4. IsEntry(collection[k], b, Samples(k)) /\ k \in DOMAIN calls[1]
    BY <2>1, <2>3
  <2>5. IsTimeOf(t, b)
    <3>1. DOMAIN collection[k].clockTimes = 1 .. Samples(k)
      BY <2>4, SeqIsFunction DEF IsEntry
    <3> QED
      BY <3>1, <2>4 DEF IsEntry
  <2>6. collection[k].name = b.name
    <3>1. collection[k] = [name |-> b.name, clockTimes |-> collection[k].clockTimes]
      BY <2>4 DEF IsEntry
    <3> QED
      BY <3>1
  <2> HIDE DEF t
  <2>7. t.of = b
    BY <2>5 DEF IsTimeOf
  <2>8. ASSUME IsAllocation(b)
        PROVE  /\ t.allocated = PerRun
               /\ t.freed = CASE ~b.BenchesDeletion -> 0
                              [] b.BenchesDeletion /\ b.A = "ARENA" -> 1
                              [] b.BenchesDeletion /\ b.A = "NEW" -> PerRun
    <3>1. t.allocated = PerRun /\ t.freed = Freed(b)
      BY <2>5, <2>8 DEF IsTimeOf
    <3>2. b.A \in {"ARENA", "NEW"}
      BY <2>2, <2>4, <2>8, Templates
    <3> HIDE DEF b
    <3>3. Freed(b) = CASE ~b.BenchesDeletion -> 0
                       [] b.BenchesDeletion /\ b.A = "ARENA" -> 1
                       [] b.BenchesDeletion /\ b.A = "NEW" -> PerRun
      <4>1. CASE ~b.BenchesDeletion
        BY <4>1 DEF Freed
      <4>2. CASE b.BenchesDeletion /\ b.A = "ARENA"
        BY <4>2 DEF Freed
      <4>3. CASE b.BenchesDeletion /\ b.A = "NEW"
        BY <4>3 DEF Freed
      <4> QED
        BY <3>2, <4>1, <4>2, <4>3
    <3> QED
      BY <3>1, <3>3
  <2> HIDE DEF b
  <2>9. \E j \in DOMAIN calls[1] : t.of = calls[1][j]
    BY <2>4, <2>7 DEF b
  <2> QED
    BY <2>6, <2>7, <2>8, <2>9 DEF t
<1> QED
  BY <1>1, <1>2

(* MeasuresOneRun: every time belongs to one run of the benchable it is filed   *)
(* under, and counts what that is about (Timer, addTime, AllocationBench).    *)
THEOREM OneRunMeasured == Spec => []MeasuresOneRun
BY InvHolds, InvMeasures, PTL

(* ... and whole reports. *)
LEMMA InvReports ==
  ASSUME Inv
  PROVE  ReportsAllOrNone
<1>1. pc = "failed" => printed = <<>>
  BY DEF Inv, RunnerInv, PrintedInv
<1>2. ASSUME pc = "returned"
      PROVE  printed = [k \in DOMAIN calls[1] |-> <<calls[1][k].name, numSamples>>]
  <2>1. /\ printed \in Seq({<<calls[1][k].name, numSamples>> : k \in DOMAIN calls[1]})
        /\ \A k \in 1 .. Len(printed) : printed[k] = <<calls[1][k].name, numSamples>>
        /\ Len(printed) = Len(calls[1])
    BY <1>2 DEF Inv, RunnerInv, PrintedInv
  <2>2. DOMAIN calls[1] = 1 .. Len(calls[1])
    BY TurnFacts DEF Inv, RunnerInv
  <2>3. printed = [k \in 1 .. Len(printed) |-> printed[k]]
    BY <2>1
  <2> QED
    BY <2>1, <2>2, <2>3
<1> QED
  BY <1>1, <1>2 DEF ReportsAllOrNone

(* ReportsAllOrNone: a call prints every benchable with every sample asked for, *)
(* or nothing (BenchmarkCollection::print, executeBench).                     *)
THEOREM AllOrNonePrinted == Spec => []ReportsAllOrNone
BY InvHolds, InvReports, PTL

-----------------------------------------------------------------------------
(* What the loops of the runs come to: the rounds of a loop, by which it is known. *)
Rounds(f, X, F, x, n) ==
  f \in [0 .. n -> X] /\ f[0] = x /\ \A k \in 1 .. n : f[k] = F[<<f[k - 1], k>>]

(* What it comes to is the last of its rounds. *)
LEMMA LoopRounds ==
  ASSUME NEW X, NEW n \in Nat, NEW F \in [X \X (1 .. n) -> X], NEW x \in X
  PROVE  \E f : Rounds(f, X, F, x, n) /\ f[n] = LoopOf(F, x, n)
<1>1. PICK f \in [0 .. n -> X] : Runs(f, F, x, n)
  BY RunsExist
<1> DEFINE g == CHOOSE h : Runs(h, F, x, n)
<1>2. Runs(g, F, x, n)
  BY <1>1
<1>3. g[n] = LoopOf(F, x, n)
  BY DEF LoopOf
<1> HIDE DEF g
<1>4. /\ f[0] = x /\ \A k \in 1 .. n : f[k] = F[<<f[k - 1], k>>]
      /\ g[0] = x /\ \A k \in 1 .. n : g[k] = F[<<g[k - 1], k>>]
  <2>1. ASSUME NEW h, Runs(h, F, x, n)
        PROVE  h[0] = x /\ \A k \in 1 .. n : h[k] = F[<<h[k - 1], k>>]
    <3>1. \A k \in 0 .. n : h[k] = IF k = 0 THEN x ELSE F[<<h[k - 1], k>>]
      BY <2>1, Zenon DEF Runs
    <3>2. 0 \in 0 .. n /\ \A k \in 1 .. n : k \in 0 .. n /\ k # 0
      OBVIOUS
    <3> QED
      BY <3>1, <3>2
  <2> QED
    BY <2>1, <1>1, <1>2
<1>5. f[n] = g[n]
  <2>1. \A k \in 1 .. n : f[k - 1] = g[k - 1] => f[k] = g[k]
    BY <1>4
  <2>2. f[0] = g[0]
    BY <1>4
  <2> HIDE <1>4
  <2> QED
    BY <2>1, <2>2, SameRounds
<1>6. Rounds(f, X, F, x, n) /\ f[n] = LoopOf(F, x, n)
  BY <1>3, <1>4, <1>5, Zenon DEF Rounds
<1> QED
  BY <1>6

-----------------------------------------------------------------------------
(* Where the entities are after c passes over them, as structures and as arrays. *)
Coordinate(T, c) == IF T = "uint8_t" THEN c % 256 ELSE c
EntityAt(T, c) ==
  [attack |-> 1, defense |-> 1, health |-> 1, x |-> Coordinate(T, c), y |-> 0, z |-> 0]
ArraysAt(T, c) ==
  [attacks |-> All(1), defenses |-> All(1), healths |-> All(1),
   x_locs |-> All(Coordinate(T, c)), y_locs |-> All(0), z_locs |-> All(0)]

(* One pass more. *)
LEMMA CoordinateMoves ==
  ASSUME NEW T, NEW c \in Nat
  PROVE  Plus1(T, Coordinate(T, c)) = Coordinate(T, c + 1)
<1>1. ((c % 256) + 1) % 256 = (c + 1) % 256
  BY ModPlus
<1> QED
  BY <1>1 DEF Plus1, Coordinate

(* A run over the structures ... *)
LEMMA EntitiesMoved ==
  ASSUME NEW T, NEW c \in Nat
  PROVE  MovedEntities(T, All(EntityAt(T, c))) = All(EntityAt(T, c + iterations))
<1> DEFINE n == iterations
<1> DEFINE x == All(EntityAt(T, c))
<1> DEFINE Pass(es) == [e \in DOMAIN es |-> [es[e] EXCEPT !.x = Plus1(T, @)]]
<1> DEFINE P(f) == f = [k \in 0 .. n |-> IF k = 0 THEN x ELSE Pass(f[k - 1])]
<1> DEFINE w == [k \in 0 .. n |-> All(EntityAt(T, c + k))]
<1> DEFINE g == CHOOSE f : P(f)
<1>1. MovedEntities(T, x) = g[n]
  BY DEF MovedEntities, Iterated, Loop
<1>2. n \in Nat /\ c + 0 = c
  BY RunnerAssumption
<1>3. ASSUME NEW j \in Nat PROVE Pass(All(EntityAt(T, j))) = All(EntityAt(T, j + 1))
  <2>1. [EntityAt(T, j) EXCEPT !.x = Plus1(T, @)] = EntityAt(T, j + 1)
    BY CoordinateMoves DEF EntityAt
  <2>2. Pass(All(EntityAt(T, j)))
          = [e \in 1 .. numEntities |-> [EntityAt(T, j) EXCEPT !.x = Plus1(T, @)]]
    <3> DEFINE a == EntityAt(T, j)
    <3> HIDE DEF a
    <3>1. Pass(All(a)) = [e \in 1 .. numEntities |-> [a EXCEPT !.x = Plus1(T, @)]]
      BY DEF All
    <3> QED
      BY <3>1 DEF a
  <2> HIDE DEF Pass
  <2> QED
    BY <2>1, <2>2, Zenon DEF All
<1>4. P(w)
  <2>1. ASSUME NEW k \in 0 .. n PROVE w[k] = IF k = 0 THEN x ELSE Pass(w[k - 1])
    <3>1. CASE k = 0
      BY <3>1, <1>2
    <3>2. CASE k # 0
      <4>1. k - 1 \in 0 .. n /\ c + (k - 1) \in Nat /\ (c + (k - 1)) + 1 = c + k
        BY <3>2, <1>2
      <4>2. w[k - 1] = All(EntityAt(T, c + (k - 1))) /\ w[k] = All(EntityAt(T, c + k))
        BY <4>1
      <4> HIDE DEF Pass, w, x
      <4> QED
        BY <3>2, <4>1, <4>2, <1>3
    <3> QED
      BY <3>1, <3>2
  <2>2. w = [k \in 0 .. n |-> w[k]]
    OBVIOUS
  <2> HIDE DEF w, x, Pass
  <2> QED
    BY <2>1, <2>2
<1> HIDE DEF P
<1>5. P(g)
  BY <1>4
<1> HIDE DEF g
<1>6. g[n] = w[n]
  <2> USE DEF P
  <2> HIDE DEF Pass, w, x
  <2>0. 0 \in 0 .. n /\ \A k \in 1 .. n : k \in 0 .. n /\ k # 0
    BY <1>2
  <2>1. g[0] = x /\ \A k \in 1 .. n : g[k] = Pass(g[k - 1])
    BY <1>5, <2>0
  <2>2. w[0] = x /\ \A k \in 1 .. n : w[k] = Pass(w[k - 1])
    BY <1>4, <2>0
  <2>3. g[0] = w[0]
    BY <2>1, <2>2
  <2>4. \A k \in 1 .. n : g[k - 1] = w[k - 1] => g[k] = w[k]
    BY <2>1, <2>2
  <2> QED
    BY <1>2, <2>3, <2>4, SameRounds
<1>7. w[n] = All(EntityAt(T, c + n))
  BY <1>2
<1> QED
  BY <1>1, <1>6, <1>7

(* ... and one over the arrays end in the same place. *)
LEMMA LocationsMoved ==
  ASSUME NEW T, NEW c \in Nat
  PROVE  MovedLocations(T, All(Coordinate(T, c))) = All(Coordinate(T, c + iterations))
<1> DEFINE n == iterations
<1> DEFINE x == All(Coordinate(T, c))
<1> DEFINE Pass(xs) == [e \in DOMAIN xs |-> Plus1(T, xs[e])]
<1> DEFINE P(f) == f = [k \in 0 .. n |-> IF k = 0 THEN x ELSE Pass(f[k - 1])]
<1> DEFINE w == [k \in 0 .. n |-> All(Coordinate(T, c + k))]
<1> DEFINE g == CHOOSE f : P(f)
<1>1. MovedLocations(T, x) = g[n]
  BY DEF MovedLocations, Iterated, Loop
<1>2. n \in Nat /\ c + 0 = c
  BY RunnerAssumption
<1>3. ASSUME NEW j \in Nat PROVE Pass(All(Coordinate(T, j))) = All(Coordinate(T, j + 1))
  <2> DEFINE a == Coordinate(T, j)
  <2>1. Plus1(T, a) = Coordinate(T, j + 1)
    BY CoordinateMoves
  <2> HIDE DEF a
  <2>2. Pass(All(a)) = [e \in 1 .. numEntities |-> Plus1(T, a)]
    BY DEF All
  <2> HIDE DEF Pass
  <2>3. Pass(All(a)) = All(Coordinate(T, j + 1))
    BY <2>1, <2>2, Zenon DEF All
  <2> QED
    BY <2>3 DEF a
<1>4. P(w)
  <2>1. ASSUME NEW k \in 0 .. n PROVE w[k] = IF k = 0 THEN x ELSE Pass(w[k - 1])
    <3>1. CASE k = 0
      BY <3>1, <1>2
    <3>2. CASE k # 0
      <4>1. k - 1 \in 0 .. n /\ c + (k - 1) \in Nat /\ (c + (k - 1)) + 1 = c + k
        BY <3>2, <1>2
      <4>2. w[k - 1] = All(Coordinate(T, c + (k - 1))) /\ w[k] = All(Coordinate(T, c + k))
        BY <4>1
      <4> HIDE DEF Pass, w, x
      <4> QED
        BY <3>2, <4>1, <4>2, <1>3
    <3> QED
      BY <3>1, <3>2
  <2>2. w = [k \in 0 .. n |-> w[k]]
    OBVIOUS
  <2> HIDE DEF w, x, Pass
  <2> QED
    BY <2>1, <2>2
<1> HIDE DEF P
<1>5. P(g)
  BY <1>4
<1> HIDE DEF g
<1>6. g[n] = w[n]
  <2> USE DEF P
  <2> HIDE DEF Pass, w, x
  <2>0. 0 \in 0 .. n /\ \A k \in 1 .. n : k \in 0 .. n /\ k # 0
    BY <1>2
  <2>1. g[0] = x /\ \A k \in 1 .. n : g[k] = Pass(g[k - 1])
    BY <1>5, <2>0
  <2>2. w[0] = x /\ \A k \in 1 .. n : w[k] = Pass(w[k - 1])
    BY <1>4, <2>0
  <2>3. g[0] = w[0]
    BY <2>1, <2>2
  <2>4. \A k \in 1 .. n : g[k - 1] = w[k - 1] => g[k] = w[k]
    BY <2>1, <2>2
  <2> QED
    BY <1>2, <2>3, <2>4, SameRounds
<1>7. w[n] = All(Coordinate(T, c + n))
  BY <1>2
<1> QED
  BY <1>1, <1>6, <1>7

(* The structures as columns are the arrays. *)
LEMMA ColumnsAre ==
  ASSUME NEW T, NEW c \in Nat
  PROVE  Columns([entities |-> All(EntityAt(T, c))]) = ArraysAt(T, c)
<1> DEFINE m == [entities |-> All(EntityAt(T, c))]
<1> DEFINE a == EntityAt(T, c)
<1>0. m.entities = All(a) /\ DOMAIN All(a) = 1 .. numEntities /\ \A e \in 1 .. numEntities : All(a)[e] = a
  BY DEF All
<1>1. \A field : Column(m, field) = All(a[field])
  <2> HIDE DEF m, a
  <2> QED
    BY <1>0 DEF Column, All
<1>2. /\ a["attack"] = 1 /\ a["defense"] = 1 /\ a["health"] = 1 /\ a["x"] = Coordinate(T, c)
      /\ a["y"] = 0 /\ a["z"] = 0
  BY DEF EntityAt
<1> HIDE DEF m, a
<1>3. Columns(m) = ArraysAt(T, c)
  BY <1>1, <1>2, Zenon DEF Columns, ArraysAt
<1> QED
  BY <1>3 DEF m, a

-----------------------------------------------------------------------------
(***************************************************************************)
(* Coordinates are sequences of what was added to them.  A run under any policy *)
(* is a run of for_each steps.                                               *)
(***************************************************************************)
Moves == {t[axis] : t \in Transforms, axis \in 1 .. 3}
Positions == [1 .. 3 -> [1 .. numEntities -> Seq(Moves)]]
Step(transform) ==
  [p \in Positions \X (1 .. iterations) |->
     [axis \in 1 .. 3 |-> ForEach(p[1][axis], transform[axis])]]
TransformedAlike(m) == LoopOf(Step(m.transform), m.pos, iterations)

(* The indexed loop does what for_each does. *)
LEMMA LoopIsForEach ==
  ASSUME NEW X, NEW coords \in [1 .. numEntities -> X], NEW t
  PROVE  IndexedLoop(coords, t) = ForEach(coords, t)
<1> DEFINE n == numEntities
<1> DEFINE Set(cs, c) == [cs EXCEPT ![c] = heavyTransform(@, t)]
<1> DEFINE P(f) == f = [k \in 0 .. n |-> IF k = 0 THEN coords ELSE Set(f[k - 1], k)]
<1> DEFINE w == [k \in 0 .. n |->
                   [c \in 1 .. n |-> IF c <= k THEN heavyTransform(coords[c], t) ELSE coords[c]]]
<1> DEFINE g == CHOOSE f : P(f)
<1>1. n \in Nat /\ Len(coords) = n
  <2>1. n \in Nat
    BY WorkloadAssumption
  <2>2. coords \in Seq(X)
    BY <2>1
  <2> QED
    BY <2>1, <2>2
<1>2. IndexedLoop(coords, t) = g[n]
  <2>1. IndexedLoop(coords, t) = (CHOOSE f : f = [k \in 0 .. Len(coords) |->
                                    IF k = 0 THEN coords ELSE Set(f[k - 1], k)])[Len(coords)]
    BY DEF IndexedLoop, Loop
  <2> QED
    BY <1>1, <2>1
<1>3. P(w)
  <2>1. ASSUME NEW k \in 0 .. n PROVE w[k] = IF k = 0 THEN coords ELSE Set(w[k - 1], k)
    <3>1. CASE k = 0
      <4>1. w[k] = [c \in 1 .. n |-> coords[c]]
        BY <3>1, <1>1
      <4> QED
        BY <3>1, <4>1
    <3>2. CASE k # 0
      <4>1. k - 1 \in 0 .. n /\ k \in 1 .. n
        BY <3>2, <1>1
      <4> DEFINE u == w[k - 1]
      <4>2. u = [c \in 1 .. n |-> IF c <= k - 1 THEN heavyTransform(coords[c], t) ELSE coords[c]]
        BY <4>1
      <4>3. w[k] = [c \in 1 .. n |-> IF c <= k THEN heavyTransform(coords[c], t) ELSE coords[c]]
        OBVIOUS
      <4> HIDE DEF w, u
      <4>4. u[k] = coords[k]
        BY <4>1, <4>2
      <4>5. Set(u, k) = [c \in 1 .. n |-> IF c = k THEN heavyTransform(u[k], t) ELSE u[c]]
        BY <4>1, <4>2
      <4>6. ASSUME NEW c \in 1 .. n PROVE Set(u, k)[c] = w[k][c]
        <5>1. CASE c = k
          BY <5>1, <4>3, <4>4, <4>5
        <5>2. CASE c # k
          <6>1. Set(u, k)[c] = u[c]
            BY <5>2, <4>5
          <6>2. c <= k <=> c <= k - 1
            BY <5>2, <4>1, <1>1
          <6>3. u[c] = IF c <= k - 1 THEN heavyTransform(coords[c], t) ELSE coords[c]
            BY <4>2
          <6>4. w[k][c] = IF c <= k THEN heavyTransform(coords[c], t) ELSE coords[c]
            BY <4>3
          <6> QED
            BY <6>1, <6>2, <6>3, <6>4, Zenon
        <5> QED
          BY <5>1, <5>2
      <4>7. Set(u, k) = [c \in 1 .. n |-> Set(u, k)[c]] /\ w[k] = [c \in 1 .. n |-> w[k][c]]
        BY <4>3, <4>5
      <4>8. Set(u, k) = w[k]
        BY <4>6, <4>7
      <4> QED
        BY <3>2, <4>8 DEF u
    <3> QED
      BY <3>1, <3>2
  <2>2. w = [k \in 0 .. n |-> w[k]]
    OBVIOUS
  <2> HIDE DEF w, Set
  <2> QED
    BY <2>1, <2>2
<1> HIDE DEF P
<1>4. P(g)
  BY <1>3
<1> HIDE DEF g
<1>5. g[n] = w[n]
  <2> USE DEF P
  <2> HIDE DEF Set, w
  <2>0. 0 \in 0 .. n /\ \A k \in 1 .. n : k \in 0 .. n /\ k # 0
    BY <1>1
  <2>1. g[0] = coords /\ \A k \in 1 .. n : g[k] = Set(g[k - 1], k)
    BY <1>4, <2>0
  <2>2. w[0] = coords /\ \A k \in 1 .. n : w[k] = Set(w[k - 1], k)
    BY <1>3, <2>0
  <2>3. g[0] = w[0] /\ \A k \in 1 .. n : g[k - 1] = w[k - 1] => g[k] = w[k]
    BY <2>1, <2>2
  <2> QED
    BY <1>1, <2>3, SameRounds
<1>6. w[n] = ForEach(coords, t)
  <2>1. w[n] = [c \in 1 .. n |-> heavyTransform(coords[c], t)]
    BY <1>1
  <2>2. DOMAIN coords = 1 .. n
    OBVIOUS
  <2> QED
    BY <2>1, <2>2, Zenon DEF ForEach
<1> QED
  BY <1>2, <1>5, <1>6

(* Coordinates stay such. *)
LEMMA StepType ==
  ASSUME NEW transform, \A axis \in 1 .. 3 : transform[axis] \in Moves
  PROVE  Step(transform) \in [Positions \X (1 .. iterations) -> Positions]
<1> SUFFICES ASSUME NEW pos \in Positions
             PROVE  [axis \in 1 .. 3 |-> ForEach(pos[axis], transform[axis])] \in Positions
  BY DEF Step
<1>1. ASSUME NEW axis \in 1 .. 3
      PROVE  ForEach(pos[axis], transform[axis]) \in [1 .. numEntities -> Seq(Moves)]
  <2>1. pos[axis] \in [1 .. numEntities -> Seq(Moves)]
    BY DEF Positions
  <2>2. \A c \in 1 .. numEntities : heavyTransform(pos[axis][c], transform[axis]) \in Seq(Moves)
    <3> SUFFICES ASSUME NEW c \in 1 .. numEntities
                 PROVE  Append(pos[axis][c], transform[axis]) \in Seq(Moves)
      BY DEF heavyTransform
    <3>1. pos[axis][c] \in Seq(Moves) /\ transform[axis] \in Moves
      BY <2>1
    <3> QED
      BY <3>1, AppendProperties
  <2> QED
    BY <2>1, <2>2 DEF ForEach
<1> QED
  BY <1>1 DEF Positions

(* Every policy therefore does the same in a run. *)
LEMMA PoliciesAlike ==
  ASSUME NEW P, NEW m, m.pos \in Positions, \A axis \in 1 .. 3 : m.transform[axis] \in Moves
  PROVE  Transformed(P, m) = TransformedAlike(m) /\ TransformedAlike(m) \in Positions
<1> DEFINE n == iterations
<1> DEFINE F == Step(m.transform)
<1> DEFINE Pass(pos) == [axis \in 1 .. 3 |->
             IF P = "INDEXED_LOOP" THEN IndexedLoop(pos[axis], m.transform[axis])
                                   ELSE ForEach(pos[axis], m.transform[axis])]
<1> DEFINE Q(f) == f = [k \in 0 .. n |-> IF k = 0 THEN m.pos ELSE Pass(f[k - 1])]
<1> DEFINE g == CHOOSE f : Q(f)
<1>1. n \in Nat
  BY RunnerAssumption
<1>2. Transformed(P, m) = g[n]
  BY DEF Transformed, Iterated, Loop
<1>3. F \in [Positions \X (1 .. n) -> Positions]
  BY StepType
<1>4. ASSUME NEW pos \in Positions, NEW k \in 1 .. n PROVE F[<<pos, k>>] = Pass(pos)
  <2>1. F[<<pos, k>>] = [axis \in 1 .. 3 |-> ForEach(pos[axis], m.transform[axis])]
    BY <1>4 DEF Step
  <2>2. \A axis \in 1 .. 3 :
          IndexedLoop(pos[axis], m.transform[axis]) = ForEach(pos[axis], m.transform[axis])
    <3> SUFFICES ASSUME NEW axis \in 1 .. 3
                 PROVE  IndexedLoop(pos[axis], m.transform[axis]) = ForEach(pos[axis], m.transform[axis])
      OBVIOUS
    <3>1. pos[axis] \in [1 .. numEntities -> Seq(Moves)]
      BY DEF Positions
    <3> QED
      BY <3>1, LoopIsForEach
  <2> HIDE DEF F
  <2> QED
    BY <2>1, <2>2
<1> HIDE DEF F, Pass
<1>r. PICK f : Rounds(f, Positions, F, m.pos, n) /\ f[n] = LoopOf(F, m.pos, n)
  BY <1>1, <1>3, LoopRounds
<1>5. /\ f \in [0 .. n -> Positions] /\ f[0] = m.pos /\ \A k \in 1 .. n : f[k] = F[<<f[k - 1], k>>]
      /\ f[n] = LoopOf(F, m.pos, n)
  BY <1>r, Zenon DEF Rounds
<1>6. \A k \in 1 .. n : f[k] = Pass(f[k - 1])
  <2> SUFFICES ASSUME NEW k \in 1 .. n PROVE f[k] = Pass(f[k - 1])
    OBVIOUS
  <2>1. k - 1 \in 0 .. n
    BY <1>1
  <2>2. f[k - 1] \in Positions
    BY <1>5, <2>1
  <2> QED
    BY <2>2, <1>4, <1>5
<1>7. Q(f)
  <2>1. \A k \in 0 .. n : f[k] = IF k = 0 THEN m.pos ELSE Pass(f[k - 1])
    <3>1. \A k \in 0 .. n : k # 0 => k \in 1 .. n
      BY <1>1
    <3> QED
      BY <3>1, <1>5, <1>6
  <2>2. f = [k \in 0 .. n |-> f[k]]
    BY <1>5
  <2> QED
    BY <2>1, <2>2
<1>8. Q(g)
  <2> HIDE DEF Q
  <2> QED
    BY <1>7
<1> HIDE DEF g
<1>9. g[n] = f[n]
  <2>0. 0 \in 0 .. n /\ \A k \in 1 .. n : k \in 0 .. n /\ k # 0
    BY <1>1
  <2>1. g[0] = m.pos /\ \A k \in 1 .. n : g[k] = Pass(g[k - 1])
    BY <1>8, <2>0
  <2>2. g[0] = f[0] /\ \A k \in 1 .. n : g[k - 1] = f[k - 1] => g[k] = f[k]
    BY <2>1, <1>5, <1>6
  <2> QED
    BY <1>1, <2>2, SameRounds
<1>10. f[n] \in Positions
  BY <1>1, <1>5
<1> QED
  BY <1>2, <1>5, <1>9, <1>10 DEF TransformedAlike, F

-----------------------------------------------------------------------------
(* What the loop of the attribute benchmark counts. *)
Tallies == [successes : Nat, equalities : Nat]
Tally(seen) == [p \in Tallies \X (1 .. Len(seen)) |-> Counts("DEFAULT", p[1], seen[p[2]])]
CountedAlike(seen) == LoopOf(Tally(seen), [successes |-> 0, equalities |-> 0], Len(seen))

(* Every attribute, and no branch, counts a number the same ... *)
LEMMA CountsAlike ==
  ASSUME NEW A, NEW counts \in Tallies, NEW number \in Int
  PROVE  Counts(A, counts, number) = Counts("DEFAULT", counts, number)
         /\ Counts("DEFAULT", counts, number) \in Tallies
<1>1. /\ counts.successes \in Nat /\ counts.equalities \in Nat
      /\ counts = [successes |-> counts.successes, equalities |-> counts.equalities]
  BY DEF Tallies
<1>2. ATTRIBUTE_SIZE_NEEDED \in Int
  BY DEF ATTRIBUTE_SIZE_NEEDED
<1>3. CASE A # "BRANCHLESS"
  BY <1>1, <1>2, <1>3 DEF Counts, Tallies
<1>4. CASE A = "BRANCHLESS"
  <2> DEFINE s == counts.successes
  <2> DEFINE e == counts.equalities
  <2>1. CASE number > ATTRIBUTE_SIZE_NEEDED
    BY <1>1, <1>2, <1>4, <2>1 DEF Counts, Tallies
  <2>2. CASE number = ATTRIBUTE_SIZE_NEEDED
    BY <1>1, <1>2, <1>4, <2>2 DEF Counts, Tallies
  <2>3. CASE number < ATTRIBUTE_SIZE_NEEDED
    BY <1>1, <1>2, <1>4, <2>3 DEF Counts, Tallies
  <2> QED
    BY <1>2, <2>1, <2>2, <2>3
<1> QED
  BY <1>3, <1>4

(* ... and so all of them. *)
LEMMA AttributesAlike ==
  ASSUME NEW A, NEW seen \in Seq(Int)
  PROVE  Counted(A, seen) = CountedAlike(seen)
<1> DEFINE n == Len(seen)
<1> DEFINE x == [successes |-> 0, equalities |-> 0]
<1> DEFINE F == Tally(seen)
<1> DEFINE Round(c, k) == Counts(A, c, seen[k])
<1> DEFINE Q(f) == f = [k \in 0 .. n |-> IF k = 0 THEN x ELSE Round(f[k - 1], k)]
<1> DEFINE g == CHOOSE f : Q(f)
<1>1. n \in Nat /\ x \in Tallies /\ \A k \in 1 .. n : seen[k] \in Int
  BY DEF Tallies
<1>2. Counted(A, seen) = g[n]
  BY DEF Counted, Loop
<1>3. F \in [Tallies \X (1 .. n) -> Tallies]
  <2> SUFFICES ASSUME NEW c \in Tallies, NEW k \in 1 .. n
               PROVE  Counts("DEFAULT", c, seen[k]) \in Tallies
    BY DEF Tally
  <2> QED
    BY <1>1, CountsAlike
<1>4. ASSUME NEW c \in Tallies, NEW k \in 1 .. n PROVE F[<<c, k>>] = Round(c, k)
  <2>1. F[<<c, k>>] = Counts("DEFAULT", c, seen[k])
    BY <1>4 DEF Tally
  <2> QED
    BY <1>1, <2>1, CountsAlike
<1> HIDE DEF F, Round, x
<1>r. PICK f : Rounds(f, Tallies, F, x, n) /\ f[n] = LoopOf(F, x, n)
  BY <1>1, <1>3, LoopRounds
<1>5. /\ f \in [0 .. n -> Tallies] /\ f[0] = x /\ \A k \in 1 .. n : f[k] = F[<<f[k - 1], k>>]
      /\ f[n] = LoopOf(F, x, n)
  BY <1>r, Zenon DEF Rounds
<1>6. \A k \in 1 .. n : f[k] = Round(f[k - 1], k)
  <2> SUFFICES ASSUME NEW k \in 1 .. n PROVE f[k] = Round(f[k - 1], k)
    OBVIOUS
  <2>1. k - 1 \in 0 .. n
    BY <1>1
  <2>2. f[k - 1] \in Tallies
    BY <1>5, <2>1
  <2> QED
    BY <2>2, <1>4, <1>5
<1>7. Q(f)
  <2>1. \A k \in 0 .. n : f[k] = IF k = 0 THEN x ELSE Round(f[k - 1], k)
    <3>1. \A k \in 0 .. n : k # 0 => k \in 1 .. n
      BY <1>1
    <3> QED
      BY <3>1, <1>5, <1>6
  <2>2. f = [k \in 0 .. n |-> f[k]]
    BY <1>5
  <2> QED
    BY <2>1, <2>2
<1>8. Q(g)
  <2> HIDE DEF Q
  <2> QED
    BY <1>7
<1> HIDE DEF g
<1>9. g[n] = f[n]
  <2>0. 0 \in 0 .. n /\ \A k \in 1 .. n : k \in 0 .. n /\ k # 0
    BY <1>1
  <2>1. g[0] = x /\ \A k \in 1 .. n : g[k] = Round(g[k - 1], k)
    BY <1>8, <2>0
  <2>2. g[0] = f[0] /\ \A k \in 1 .. n : g[k - 1] = f[k - 1] => g[k] = f[k]
    BY <2>1, <1>5, <1>6
  <2> QED
    BY <1>1, <2>2, SameRounds
<1> QED
  BY <1>2, <1>5, <1>9 DEF CountedAlike, F, x

-----------------------------------------------------------------------------
(* A fill leaves the numbers of its benchable alone, after one iteration or more. *)
LEMMA FillsWhole ==
  ASSUME This.made \in Nat
  PROVE  AllFilled.made \in Nat /\ {AllFilled.a[j][1] : j \in 1 .. N} = {bench}
<1> DEFINE n == iterations
<1> DEFINE m == This.made
<1> DEFINE x == [a |-> arr, made |-> m]
<1> DEFINE Fill(s) == [a |-> Filled(s.a, s.made), made |-> s.made + N]
<1> DEFINE P(f) == f = [k \in 0 .. n |-> IF k = 0 THEN x ELSE Fill(f[k - 1])]
<1> DEFINE w == [k \in 0 .. n |-> [a |-> IF k = 0 THEN arr ELSE Filled(arr, m + N * (k - 1)),
                                   made |-> m + N * k]]
<1> DEFINE g == CHOOSE f : P(f)
<1>1. AllFilled = g[n]
  BY DEF AllFilled, Iterated, Loop
<1>2. n \in Nat \ {0} /\ N \in Nat \ {0} /\ m \in Nat
  BY RunnerAssumption, WorkloadAssumption
<1>3. \A a, b, k : Filled(a, k) = Filled(b, k)
  BY DEF Filled
<1>4. P(w)
  <2>1. ASSUME NEW k \in 0 .. n PROVE w[k] = IF k = 0 THEN x ELSE Fill(w[k - 1])
    <3>1. CASE k = 0
      <4>1. m + N * 0 = m
        BY <1>2
      <4>2. w[k] = [a |-> arr, made |-> m + N * 0]
        BY <3>1
      <4> QED
        BY <3>1, <4>1, <4>2
    <3>2. CASE k # 0
      <4>1. k - 1 \in 0 .. n
        BY <3>2, <1>2
      <4>2. N * ((k - 1) + 1) = N * (k - 1) + N /\ (k - 1) + 1 = k /\ N * (k - 1) \in Int
        BY <1>2, <4>1, MulSucc
      <4>3. m + N * k = (m + N * (k - 1)) + N
        BY <1>2, <4>2
      <4>4. /\ w[k] = [a |-> Filled(arr, m + N * (k - 1)), made |-> m + N * k]
            /\ w[k - 1].made = m + N * (k - 1)
        BY <3>2, <4>1
      <4> HIDE DEF w, m, n
      <4>5. Fill(w[k - 1]) = [a |-> Filled(arr, m + N * (k - 1)), made |-> (m + N * (k - 1)) + N]
        BY <4>4, <1>3
      <4> QED
        BY <3>2, <4>3, <4>4, <4>5
    <3> QED
      BY <3>1, <3>2
  <2>2. w = [k \in 0 .. n |-> w[k]]
    OBVIOUS
  <2> HIDE DEF w, x, Fill
  <2> QED
    BY <2>1, <2>2
<1> HIDE DEF P
<1>5. P(g)
  BY <1>4
<1> HIDE DEF g
<1>6. g[n] = w[n]
  <2> USE DEF P
  <2> HIDE DEF Fill, w, x
  <2>0. 0 \in 0 .. n /\ \A k \in 1 .. n : k \in 0 .. n /\ k # 0
    BY <1>2
  <2>1. g[0] = x /\ \A k \in 1 .. n : g[k] = Fill(g[k - 1])
    BY <1>5, <2>0
  <2>2. w[0] = x /\ \A k \in 1 .. n : w[k] = Fill(w[k - 1])
    BY <1>4, <2>0
  <2>3. g[0] = w[0] /\ \A k \in 1 .. n : g[k - 1] = w[k - 1] => g[k] = w[k]
    BY <2>1, <2>2
  <2> QED
    BY <1>2, <2>3, SameRounds
<1>7. w[n].a = Filled(arr, m + N * (n - 1)) /\ w[n].made = m + N * n
  BY <1>2
<1>8. m + N * n \in Nat
  BY <1>2
<1> HIDE DEF w
<1>9. \A j \in 1 .. N : w[n].a[j][1] = bench
  <2> SUFFICES ASSUME NEW j \in 1 .. N PROVE w[n].a[j][1] = bench
    OBVIOUS
  <2>1. w[n].a[j] = <<bench, m + N * (n - 1) + j>>
    BY <1>7 DEF Filled
  <2> QED
    BY <2>1
<1>10. {w[n].a[j][1] : j \in 1 .. N} = {bench}
  <2>1. 1 \in 1 .. N
    BY <1>2
  <2> QED
    BY <1>9, <2>1
<1> QED
  BY <1>1, <1>6, <1>7, <1>8, <1>10

-----------------------------------------------------------------------------
(* The lines a write touches. *)
LEMMA LinesTouched ==
  ASSUME NEW b, b.AccessIndex \in 0 .. 63
  PROVE  LET lines == {byte \div 64 : byte \in Written(b)} IN
         /\ (Cardinality(lines) = 2) <=> Crossing(b.AccessIndex)
         /\ Aligned(b.AccessIndex) => Cardinality(lines) = 1
<1> DEFINE A == b.AccessIndex
<1> DEFINE lines == {byte \div 64 : byte \in Written(b)}
<1>1. Written(b) = A .. A + 7 /\ A \in 0 .. 63
  BY DEF Written
<1> HIDE DEF A
<1>2. CASE A > 56
  <2>1. A \div 64 = 0 /\ (A + 7) \div 64 = 1 /\ A \in A .. A + 7 /\ A + 7 \in A .. A + 7
    BY <1>1, <1>2
  <2>2. \A byte \in A .. A + 7 : byte \div 64 \in 0 .. 1
    BY <1>1
  <2>3. lines = 0 .. 1
    <3>1. 0 \in lines /\ 1 \in lines /\ lines \subseteq 0 .. 1
      BY <1>1, <2>1, <2>2
    <3>2. 0 .. 1 = {0, 1}
      OBVIOUS
    <3> HIDE DEF lines
    <3> QED
      BY <3>1, <3>2
  <2>4. Cardinality(0 .. 1) = 2
    <3>1. 0 \in Int /\ 1 \in Int /\ ~(0 > 1) /\ 1 - 0 + 1 = 2
      OBVIOUS
    <3> QED
      BY <3>1, FS_Interval, Zenon
  <2>5. ~Aligned(A)
    BY <1>1, <1>2 DEF Aligned
  <2>6. Crossing(A)
    BY <1>2 DEF Crossing
  <2> HIDE DEF lines
  <2>7. ((Cardinality(lines) = 2) <=> Crossing(A)) /\ (Aligned(A) => Cardinality(lines) = 1)
    BY <2>3, <2>4, <2>5, <2>6
  <2> QED
    BY <2>7 DEF A, lines
<1>3. CASE ~(A > 56)
  <2>1. \A byte \in A .. A + 7 : byte \div 64 = 0
    BY <1>1, <1>3
  <2>2. A \in A .. A + 7
    BY <1>1
  <2>3. lines = {0}
    BY <1>1, <2>1, <2>2
  <2>4. Cardinality({0}) = 1
    BY FS_Singleton
  <2>5. ~Crossing(A)
    BY <1>3 DEF Crossing
  <2> HIDE DEF lines
  <2>6. ((Cardinality(lines) = 2) <=> Crossing(A)) /\ (Aligned(A) => Cardinality(lines) = 1)
    BY <2>3, <2>4, <2>5
  <2> QED
    BY <2>6 DEF A, lines
<1> QED
  BY <1>2, <1>3

-----------------------------------------------------------------------------
(* The k-th number of n passes over L numbers is the r-th of the pass q. *)
LEMMA Place ==
  ASSUME NEW L \in Nat \ {0}, NEW n \in Nat, NEW k \in 1 .. n * L
  PROVE  \E q \in 0 .. n - 1, r \in 0 .. L - 1 : k = L * q + r + 1 /\ (k - 1) % L = r
<1> DEFINE q == (k - 1) \div L
<1> DEFINE r == (k - 1) % L
<1>1. n * L \in Int /\ n * L = L * n /\ k \in Int /\ 1 <= k /\ k <= n * L
  BY SMT
<1>2. q \in Int /\ k - 1 = L * q + r /\ r \in 0 .. L - 1
  <2>1. k - 1 \in Int
    BY <1>1
  <2> DEFINE a == k - 1
  <2> HIDE DEF a
  <2>2. a \div L \in Int /\ a = L * (a \div L) + (a % L) /\ a % L \in 0 .. L - 1
    BY <2>1, DivMod, ModRange DEF a
  <2> QED
    BY <2>2 DEF a
<1> HIDE DEF q, r
<1>3. L * q \in Int /\ L * (q + 1) = L * q + L /\ L * (n - q) = L * n - L * q
  <2>1. L * (q + 1) = L * q + L
    BY <1>2, MulSucc
  <2>2. L * (n - q) = L * n - L * q
    BY <1>2, MulSub
  <2>3. L * q \in Int
    BY <1>2
  <2> QED
    BY <2>1, <2>2, <2>3
<1>4. 0 < q + 1
  <2>1. 0 < L * (q + 1)
    BY <1>1, <1>2, <1>3
  <2> QED
    BY <2>1, <1>2, MulAbove
<1>5. 0 < n - q
  <2>1. 0 < L * (n - q)
    BY <1>1, <1>2, <1>3
  <2> QED
    BY <2>1, <1>2, MulAbove
<1>6. q \in 0 .. n - 1 /\ k = L * q + r + 1
  BY <1>1, <1>2, <1>3, <1>4, <1>5
<1> QED
  BY <1>2, <1>6 DEF r

(* Every place is that of a number. *)
LEMMA PlaceBack ==
  ASSUME NEW L \in Nat \ {0}, NEW n \in Nat, NEW q \in 0 .. n - 1, NEW r \in 0 .. L - 1
  PROVE  L * q + r + 1 \in 1 .. n * L /\ (L * q + r + 1 - 1) % L = r
<1>1. L * q \in Nat /\ L * (q + 1) = L * q + L /\ n * L = L * n /\ L * n \in Int
  <2>1. L * (q + 1) = L * q + L
    BY MulSucc
  <2> QED
    BY <2>1
<1>2. L * (q + 1) <= L * n
  <2>1. L * (n - (q + 1)) = L * n - L * (q + 1) /\ n - (q + 1) \in Nat
    BY MulSub
  <2>2. \A x \in Nat : L * x \in Nat
    OBVIOUS
  <2>3. L * (n - (q + 1)) >= 0
    BY <2>1, <2>2
  <2>4. L * (q + 1) \in Int
    BY <1>1
  <2> QED
    BY <1>1, <2>1, <2>3, <2>4
<1>3. L * q + r + 1 - 1 = L * q + r
  BY <1>1
<1>4. (L * q + r) % L = r
  BY <1>1, ModUnique
<1> QED
  BY <1>1, <1>2, <1>3, <1>4

(* No two numbers have one place. *)
LEMMA PlaceOnce ==
  ASSUME NEW L \in Nat \ {0}, NEW p \in Nat, NEW q \in Nat,
         NEW r \in 0 .. L - 1, NEW s \in 0 .. L - 1, L * p + r = L * q + s
  PROVE  p = q /\ r = s
<1>1. L * p \in Int /\ L * q \in Int
  OBVIOUS
<1>2. r = s
  <2>1. (L * p + r) % L = r /\ (L * q + s) % L = s
    BY <1>1, ModUnique
  <2> QED
    BY <2>1
<1>3. L * p = L * q
  BY <1>1, <1>2
<1>4. L * (p - q) = L * p - L * q /\ L * (q - p) = L * q - L * p
  BY MulSub
<1>5. p - q < 1 /\ q - p < 1
  <2>1. L * (p - q) < L /\ L * (q - p) < L
    BY <1>1, <1>3, <1>4
  <2> QED
    BY <2>1, MulBelow
<1> QED
  BY <1>2, <1>5

-----------------------------------------------------------------------------
(* What the passes over a list come to. *)
LEMMA PassesAre ==
  ASSUME NEW list, list \in Seq(Int)
  PROVE  /\ Passes(list) = [k \in 1 .. iterations * Len(list) |-> list[((k - 1) % Len(list)) + 1]]
         /\ iterations * Len(list) \in Nat
         /\ Len(Passes(list)) = iterations * Len(list)
<1>1. iterations * Len(list) \in Nat
  BY RunnerAssumption
<1>2. Passes(list) = [k \in 1 .. iterations * Len(list) |-> list[((k - 1) % Len(list)) + 1]]
  BY Zenon DEF Passes
<1> DEFINE n == iterations * Len(list)
<1> DEFINE f == Passes(list)
<1>3. f = [k \in 1 .. n |-> f[k]]
  BY <1>2
<1> HIDE DEF n, f
<1>4. Len(f) = n
  BY <1>1, <1>3, FunctionIsSeq DEF n
<1> QED
  BY <1>1, <1>2, <1>4 DEF n, f

(* An ascending list turns the branch once within a pass, and once from one    *)
(* pass to the next.                                                         *)
LEMMA TurnsBound ==
  ASSUME NEW list, list \in Seq(Int), IsAscending(list)
  PROVE  Turns(Passes(list)) <= 2 * iterations - 1
<1> DEFINE L == Len(list)
<1> DEFINE n == iterations
<1> DEFINE P == Passes(list)
<1> DEFINE High(x) == x > SIZE_NEEDED_FOR_SUCCESS
<1> DEFINE T == {k \in 1 .. Len(P) - 1 : High(P[k]) # High(P[k + 1])}
<1>1. /\ L \in Nat /\ n \in Nat \ {0} /\ DOMAIN list = 1 .. L
      /\ \A j \in 1 .. L : list[j] \in Int
  BY RunnerAssumption
<1>2. /\ P = [k \in 1 .. n * L |-> list[((k - 1) % L) + 1]]
      /\ n * L \in Nat /\ Len(P) = n * L
  BY PassesAre
<1>3. Turns(P) = Cardinality(T)
  BY DEF Turns
<1> HIDE DEF L, n, P
<1>4. SIZE_NEEDED_FOR_SUCCESS \in Int
  BY DEF SIZE_NEEDED_FOR_SUCCESS
<1>5. \A j, k \in 1 .. L : j < k => list[j] <= list[k]
  BY <1>1 DEF IsAscending
<1>6. CASE L = 0
  <2>1. T = {}
    <3>1. Len(P) = 0
      BY <1>1, <1>2, <1>6
    <3>2. 1 .. Len(P) - 1 = {}
      BY <3>1
    <3> QED
      BY <3>2
  <2>2. Cardinality(T) = 0
    BY <2>1, FS_EmptySet
  <2> QED
    BY <1>1, <1>3, <2>2 DEF n, P
<1>7. CASE L # 0
  <2>1. L \in Nat \ {0}
    BY <1>1, <1>7
  <2> DEFINE At(k, q, r) ==
        /\ q \in 0 .. n - 1 /\ r \in 0 .. L - 1 /\ k = L * q + r + 1
        /\ P[k] = list[r + 1]
        /\ r + 1 < L => P[k + 1] = list[r + 2]
        /\ r + 1 = L => q <= n - 2
  <2>2. ASSUME NEW k \in T PROVE \E q, r : At(k, q, r)
    <3>1. k \in 1 .. n * L - 1 /\ k \in 1 .. n * L /\ k + 1 \in 1 .. n * L
      BY <1>2
    <3>2. PICK q \in 0 .. n - 1, r \in 0 .. L - 1 : k = L * q + r + 1 /\ (k - 1) % L = r
      BY <2>1, <1>1, <3>1, Place
    <3>3. P[k] = list[r + 1]
      BY <1>2, <3>1, <3>2
    <3>4. ASSUME r + 1 < L PROVE P[k + 1] = list[r + 2]
      <4>1. PICK s : s = r + 1
        OBVIOUS
      <4>2. s \in 0 .. L - 1
        BY <2>1, <3>4, <4>1
      <4>3. L * q + s + 1 = k + 1 /\ L * q + s + 1 - 1 = (k + 1) - 1
        BY <2>1, <3>2, <4>1
      <4>4. (L * q + s + 1 - 1) % L = s
        BY <2>1, <1>1, <4>2, PlaceBack
      <4>5. ((k + 1) - 1) % L = s
        BY <4>3, <4>4
      <4>6. P[k + 1] = list[s + 1]
        BY <1>2, <3>1, <4>5
      <4> QED
        BY <4>1, <4>6
    <3>5. ASSUME r + 1 = L PROVE q <= n - 2
      <4>1. L * (q + 1) = L * q + L /\ L * q \in Int
        BY <2>1, MulSucc
      <4>2. L * (n - (q + 1)) = L * n - L * (q + 1) /\ n - (q + 1) \in Int
        BY <2>1, <1>1, MulSub
      <4>3. k = L * (q + 1) /\ n * L = L * n
        <5>1. n * L = L * n
          BY <1>1
        <5>2. k = L * q + (r + 1)
          BY <2>1, <3>2, <4>1
        <5> QED
          BY <5>1, <5>2, <3>5, <4>1
      <4>a. k \in Int /\ k < n * L /\ L * n \in Int
        BY <1>1, <1>2, <2>1, <3>1
      <4>4. 0 < L * (n - (q + 1))
        BY <4>2, <4>3, <4>a
      <4>5. 0 < n - (q + 1)
        BY <2>1, <4>2, <4>4, MulAbove
      <4> QED
        BY <1>1, <4>5
    <3>6. At(k, q, r)
      BY <3>2, <3>3, <3>4, <3>5
    <3> QED
      BY <3>6
  <2> DEFINE Pass(k) == CHOOSE q : \E r : At(k, q, r)
  <2> DEFINE Rest(k) == CHOOSE r : At(k, Pass(k), r)
  <2>3. ASSUME NEW k \in T PROVE At(k, Pass(k), Rest(k))
    <3> HIDE DEF At
    <3>1. \E r : At(k, Pass(k), r)
      BY <2>2
    <3> HIDE DEF Pass
    <3> QED
      BY <3>1
  <2> HIDE DEF Pass, Rest
  <2> DEFINE f == [k \in T |-> IF Rest(k) + 1 = L THEN 2 * Pass(k) + 1 ELSE 2 * Pass(k)]
  <2> DEFINE S == 0 .. 2 * n - 2
  <2>4. f \in [T -> S]
    <3> SUFFICES ASSUME NEW k \in T
                 PROVE  (IF Rest(k) + 1 = L THEN 2 * Pass(k) + 1 ELSE 2 * Pass(k)) \in S
      OBVIOUS
    <3>1. At(k, Pass(k), Rest(k))
      BY <2>3
    <3>2. /\ Pass(k) \in 0 .. n - 1 /\ Rest(k) \in 0 .. L - 1
          /\ Rest(k) + 1 = L => Pass(k) <= n - 2
      BY <3>1
    <3> HIDE DEF T, At
    <3> QED
      BY <3>2, <1>1, SMTT(30)
  <2>5. ASSUME NEW j \in T, NEW k \in T, f[j] = f[k] PROVE j = k
    <3> DEFINE q == Pass(j)
    <3> DEFINE r == Rest(j)
    <3> DEFINE s == Rest(k)
    <3>1. At(j, q, r) /\ At(k, Pass(k), s)
      BY <2>3
    <3>2. f[j] = (IF r + 1 = L THEN 2 * q + 1 ELSE 2 * q)
          /\ f[k] = (IF s + 1 = L THEN 2 * Pass(k) + 1 ELSE 2 * Pass(k))
      OBVIOUS
    <3>3. High(P[j]) # High(P[j + 1]) /\ High(P[k]) # High(P[k + 1])
      OBVIOUS
    <3> HIDE DEF f, q, r, s, T, High
    <3>a. q \in Int /\ Pass(k) \in Int
      <4>1. q \in 0 .. n - 1 /\ Pass(k) \in 0 .. n - 1
        BY <3>1
      <4> QED
        BY <4>1
    <3>4. Pass(k) = q /\ (r + 1 = L <=> s + 1 = L)
      <4> DEFINE p == Pass(k)
      <4>1. (IF r + 1 = L THEN 2 * q + 1 ELSE 2 * q) = (IF s + 1 = L THEN 2 * p + 1 ELSE 2 * p)
        BY <2>5, <3>2, Zenon
      <4> HIDE DEF p
      <4>2. p \in Int /\ q \in Int
        BY <3>a DEF p
      <4>3. p = q /\ (r + 1 = L <=> s + 1 = L)
        BY <4>1, <4>2
      <4> QED
        BY <4>3 DEF p
    <3>5. CASE r + 1 = L
      BY <2>1, <3>1, <3>4, <3>5
    <3>6. CASE r + 1 # L
      <4>0. r \in 0 .. L - 1 /\ s \in 0 .. L - 1 /\ r + 1 < L /\ s + 1 < L
        BY <2>1, <3>1, <3>4, <3>6
      <4>1. /\ P[j] = list[r + 1] /\ P[j + 1] = list[r + 2]
            /\ P[k] = list[s + 1] /\ P[k + 1] = list[s + 2]
        BY <3>1, <4>0
      <4>2. High(list[r + 1]) # High(list[r + 2]) /\ High(list[s + 1]) # High(list[s + 2])
        BY <3>3, <4>1
      <4>3. ASSUME NEW a \in 0 .. L - 1, NEW b \in 0 .. L - 1, a + 1 < L, b + 1 < L, a < b,
                   High(list[a + 1]) # High(list[a + 2]), High(list[b + 1]) # High(list[b + 2])
            PROVE  FALSE
        <5>1. a + 1 \in 1 .. L /\ a + 2 \in 1 .. L /\ b + 1 \in 1 .. L /\ b + 2 \in 1 .. L
          BY <4>3, <2>1
        <5>2. list[a + 1] <= list[a + 2] /\ list[b + 1] <= list[b + 2]
          BY <5>1, <1>5
        <5>3. list[a + 2] <= list[b + 1]
          <6>1. CASE a + 2 = b + 1
            <7>1. list[a + 2] = list[b + 1]
              BY <6>1
            <7>2. list[a + 2] \in Int
              BY <5>1, <1>1
            <7> QED
              BY <7>1, <7>2
          <6>2. CASE a + 2 # b + 1
            <7>1. a + 2 < b + 1
              BY <4>3, <6>2
            <7> QED
              BY <5>1, <7>1, <1>5
          <6> QED
            BY <6>1, <6>2
        <5>4. list[a + 1] \in Int /\ list[a + 2] \in Int /\ list[b + 1] \in Int /\ list[b + 2] \in Int
          BY <5>1, <1>1
        <5>5. \A x, y : High(x) # High(y) => ~(High(x) <=> High(y))
          BY DEF High
        <5>6. /\ ~(High(list[a + 1]) <=> High(list[a + 2]))
              /\ ~(High(list[b + 1]) <=> High(list[b + 2]))
          BY <4>3, <5>5
        <5> QED
          BY <1>4, <5>2, <5>3, <5>4, <5>6, SMTT(30) DEF High
      <4>4. ~(r < s) /\ ~(s < r)
        BY <4>0, <4>2, <4>3
      <4>5. r = s
        BY <4>0, <4>4
      <4> QED
        BY <3>1, <3>4, <4>5
    <3> QED
      BY <3>5, <3>6
  <2>6. f \in Injection(T, S)
    <3> HIDE DEF S
    <3>1. DOMAIN f = T
      OBVIOUS
    <3> HIDE DEF f, T
    <3> QED
      BY <2>4, <2>5, <3>1 DEF Injection, IsInjective
  <2>7. IsFiniteSet(S) /\ Cardinality(S) = 2 * n - 1
    <3>1. 0 \in Int /\ 2 * n - 2 \in Int /\ ~(0 > 2 * n - 2) /\ 2 * n - 2 - 0 + 1 = 2 * n - 1
      BY <1>1
    <3> QED
      BY <3>1, FS_Interval, Zenon
  <2>8. Cardinality(T) <= Cardinality(S)
    <3> HIDE DEF f, T, S
    <3> QED
      BY <2>6, <2>7, FS_Injection
  <2> QED
    BY <1>3, <2>7, <2>8 DEF n, P
<1> QED
  BY <1>6, <1>7

(* They are numbers too. *)
LEMMA PassesType ==
  ASSUME NEW list, list \in Seq(Int)
  PROVE  Passes(list) \in Seq(Int)
<1> DEFINE L == Len(list)
<1> DEFINE n == iterations
<1>1. L \in Nat /\ n \in Nat /\ n * L \in Nat /\ \A j \in 1 .. L : list[j] \in Int
  BY RunnerAssumption
<1>2. Passes(list) = [k \in 1 .. n * L |-> list[((k - 1) % L) + 1]]
  BY PassesAre
<1> HIDE DEF L, n
<1>3. ASSUME NEW k \in 1 .. n * L PROVE list[((k - 1) % L) + 1] \in Int
  <2>1. L \in Nat \ {0}
    <3>1. L = 0 => n * L = 0
      BY <1>1
    <3> QED
      BY <1>1, <3>1
  <2>2. k - 1 \in Int
    OBVIOUS
  <2>3. (k - 1) % L \in 0 .. L - 1
    BY <2>1, <2>2, ModRange
  <2>4. ((k - 1) % L) + 1 \in 1 .. L
    BY <2>1, <2>3
  <2> QED
    BY <1>1, <2>4
<1> QED
  BY <1>1, <1>2, <1>3
-----------------------------------------------------------------------------
(***************************************************************************)
(* std::sort exists: a number's place is how many are not behind it, those    *)
(* equal to it and further back among the ones behind.                       *)
(***************************************************************************)
NotBehind(list, k) ==
  {j \in DOMAIN list : list[j] < list[k] \/ (list[j] = list[k] /\ j <= k)}

(* The further place has the more before it. *)
LEMMA PlacesGrow ==
  ASSUME NEW list, list \in Seq(Int)
  PROVE  /\ \A k \in DOMAIN list :
              /\ IsFiniteSet(NotBehind(list, k))
              /\ Cardinality(NotBehind(list, k)) \in DOMAIN list
         /\ \A j, k \in DOMAIN list :
              list[j] < list[k] \/ (list[j] = list[k] /\ j < k) =>
                Cardinality(NotBehind(list, j)) < Cardinality(NotBehind(list, k))
<1>1. /\ DOMAIN list = 1 .. Len(list) /\ Len(list) \in Nat
      /\ \A k \in DOMAIN list : list[k] \in Int /\ k \in Int
  OBVIOUS
<1>2. IsFiniteSet(DOMAIN list) /\ Cardinality(DOMAIN list) = Len(list)
  <2>1. Cardinality(1 .. Len(list)) = (IF 1 > Len(list) THEN 0 ELSE Len(list) - 1 + 1)
        /\ IsFiniteSet(1 .. Len(list))
    BY <1>1, FS_Interval
  <2> QED
    BY <1>1, <2>1
<1>3. ASSUME NEW k \in DOMAIN list
      PROVE  /\ IsFiniteSet(NotBehind(list, k)) /\ Cardinality(NotBehind(list, k)) \in Nat
             /\ Cardinality(NotBehind(list, k)) \in DOMAIN list
  <2> DEFINE B == NotBehind(list, k)
  <2>1. B \in SUBSET (DOMAIN list) /\ k \in B
    BY <1>1 DEF NotBehind
  <2> HIDE DEF B
  <2>2. IsFiniteSet(B) /\ Cardinality(B) <= Len(list) /\ Cardinality(B) \in Nat
    BY <1>2, <2>1, FS_Subset, FS_CardinalityType
  <2>3. Cardinality(B) # 0
    BY <2>1, <2>2, FS_EmptySet
  <2>4. Cardinality(B) \in DOMAIN list
    BY <1>1, <2>2, <2>3
  <2> QED
    BY <2>2, <2>4 DEF B
<1>4. ASSUME NEW j \in DOMAIN list, NEW k \in DOMAIN list,
             list[j] < list[k] \/ (list[j] = list[k] /\ j < k)
      PROVE  Cardinality(NotBehind(list, j)) < Cardinality(NotBehind(list, k))
  <2> DEFINE B == NotBehind(list, j)
  <2> DEFINE C == NotBehind(list, k)
  <2>1. B \in SUBSET C
    BY <1>1, <1>4 DEF NotBehind
  <2>2. k \in C /\ k \notin B
    BY <1>1, <1>4 DEF NotBehind
  <2>3. IsFiniteSet(C) /\ Cardinality(C) \in Nat /\ Cardinality(B) \in Nat
    BY <1>3
  <2> HIDE DEF B, C
  <2>4. Cardinality(B) <= Cardinality(C) /\ Cardinality(B) # Cardinality(C)
    BY <2>1, <2>2, <2>3, FS_Subset
  <2>5. Cardinality(B) < Cardinality(C)
    BY <2>3, <2>4
  <2> QED
    BY <2>5 DEF B, C
<1> QED
  BY <1>3, <1>4

(* A list can be brought in order. *)
LEMMA CanOrder ==
  ASSUME NEW list, list \in Seq(Int)
  PROVE  \E p \in Orders(list) : IsAscending(Ordered(list, p))
<1> DEFINE D == DOMAIN list
<1> DEFINE rank == [k \in D |-> Cardinality(NotBehind(list, k))]
<1>1. D = 1 .. Len(list) /\ Len(list) \in Nat /\ \A k \in D : list[k] \in Int /\ k \in Int
  OBVIOUS
<1>2. /\ rank \in [D -> D]
      /\ \A j, k \in D : list[j] < list[k] \/ (list[j] = list[k] /\ j < k) => rank[j] < rank[k]
  BY PlacesGrow
<1> HIDE DEF rank
<1>3. rank \in Injection(D, D)
  <2>1. ASSUME NEW j \in D, NEW k \in D, rank[j] = rank[k] PROVE j = k
    <3>1. rank[j] \in Int /\ rank[k] \in Int
      BY <1>1, <1>2
    <3>2. ~(rank[j] < rank[k]) /\ ~(rank[k] < rank[j])
      BY <2>1, <3>1
    <3> QED
      BY <1>1, <1>2, <3>2, SMTT(30)
  <2>2. DOMAIN rank = D
    BY <1>2
  <2> HIDE DEF D
  <2> QED
    BY <1>2, <2>1, <2>2 DEF Injection, IsInjective
<1>4. rank \in Surjection(D, D)
  <2>1. IsFiniteSet(D)
    BY <1>1, FS_Interval
  <2> HIDE DEF D
  <2> QED
    BY <1>3, <2>1, FS_Injection
<1> DEFINE p == [k \in D |-> CHOOSE j \in D : rank[j] = k]
<1>5. p \in [D -> D] /\ \A k \in D : rank[p[k]] = k
  <2>1. \A k \in D : \E j \in D : rank[j] = k
    BY <1>4 DEF Surjection
  <2> HIDE DEF D
  <2> QED
    BY <2>1
<1>6. \A k \in D : p[rank[k]] = k
  <2> SUFFICES ASSUME NEW k \in D PROVE p[rank[k]] = k
    OBVIOUS
  <2> HIDE DEF D, p
  <2>1. rank[k] \in D /\ p[rank[k]] \in D /\ rank[p[rank[k]]] = rank[k]
    BY <1>2, <1>5
  <2> QED
    BY <1>2, <1>3, <2>1 DEF Injection, IsInjective
<1> HIDE DEF p
<1>7. p \in Orders(list)
  <2>1. \A k \in D : \E j \in D : p[j] = k
    <3> SUFFICES ASSUME NEW k \in D PROVE \E j \in D : p[j] = k
      OBVIOUS
    <3>1. rank[k] \in D
      BY <1>2
    <3> QED
      BY <3>1, <1>6
  <2> QED
    BY <1>5, <2>1 DEF Orders
<1>8. IsAscending(Ordered(list, p))
  <2>1. DOMAIN Ordered(list, p) = D /\ \A k \in D : Ordered(list, p)[k] = list[p[k]]
    BY DEF Ordered
  <2>2. ASSUME NEW j \in D, NEW k \in D, j < k PROVE list[p[j]] <= list[p[k]]
    <3>1. p[j] \in D /\ p[k] \in D /\ rank[p[j]] = j /\ rank[p[k]] = k
      BY <1>5
    <3>2. ~(list[p[k]] < list[p[j]])
      <4>1. ~(rank[p[k]] < rank[p[j]])
        BY <1>1, <2>2, <3>1
      <4> QED
        BY <1>2, <3>1, <4>1, Zenon
    <3> QED
      BY <1>1, <3>1, <3>2
  <2> HIDE DEF D
  <2> QED
    BY <2>1, <2>2 DEF IsAscending
<1> QED
  BY <1>7, <1>8

-----------------------------------------------------------------------------
(* How often the branch of a branch benchmark is taken. *)
Successes(list) == CountOf(Passes(list), LAMBDA n : n > SIZE_NEEDED_FOR_SUCCESS)

(* Sorting a list of numbers S moves the numbers a run looks at, and leaves it a list of S. *)
LEMMA OrderedIs ==
  ASSUME NEW S, S \subseteq Int, NEW list \in Seq(S), NEW p \in Orders(list)
  PROVE  /\ Ordered(list, p) \in Seq(S) /\ Len(Ordered(list, p)) = Len(list)
         /\ \A k \in DOMAIN list : p[k] \in DOMAIN list /\ Ordered(list, p)[k] = list[p[k]]
         /\ p \in Bijection(DOMAIN list, DOMAIN list)
<1> DEFINE D == DOMAIN list
<1>1. D = 1 .. Len(list) /\ Len(list) \in Nat /\ \A k \in D : list[k] \in S
  OBVIOUS
<1>2. p \in [D -> D] /\ \A k \in D : \E j \in D : p[j] = k
  BY DEF Orders
<1>3. Ordered(list, p) = [k \in D |-> list[p[k]]]
  BY DEF Ordered
<1>4. \A k \in D : p[k] \in D /\ list[p[k]] \in S
  BY <1>1, <1>2
<1>5. Ordered(list, p) \in Seq(S) /\ Len(Ordered(list, p)) = Len(list)
  <2>1. Ordered(list, p) = [k \in 1 .. Len(list) |-> list[p[k]]]
    BY <1>1, <1>3
  <2>2. \A k \in 1 .. Len(list) : list[p[k]] \in S
    BY <1>1, <1>4
  <2> HIDE DEF D
  <2> QED
    BY <1>1, <2>1, <2>2
<1>6. p \in Surjection(D, D)
  BY <1>2 DEF Surjection
<1>7. p \in Injection(D, D)
  <2>1. IsFiniteSet(D)
    BY <1>1, FS_Interval
  <2> HIDE DEF D
  <2> QED
    BY <1>6, <2>1, FS_SurjSameCardinalityImpliesInj
<1> QED
  BY <1>3, <1>4, <1>5, <1>6, <1>7 DEF Bijection

(* Sorted or not, the numbers taken are as many. *)
LEMMA SuccessesOrdered ==
  ASSUME NEW list \in Seq(Int), NEW p \in Orders(list)
  PROVE  Successes(Ordered(list, p)) = Successes(list)
<1> DEFINE L == Len(list)
<1> DEFINE n == iterations
<1> DEFINE sorted == Ordered(list, p)
<1> DEFINE P == Passes(list)
<1> DEFINE Q == Passes(sorted)
<1> DEFINE Test(x) == x > SIZE_NEEDED_FOR_SUCCESS
<1> DEFINE A == {k \in 1 .. n * L : Test(Q[k])}
<1> DEFINE B == {k \in 1 .. n * L : Test(P[k])}
<1>1. /\ DOMAIN list = 1 .. L /\ L \in Nat /\ n \in Nat /\ n * L \in Nat
      /\ sorted \in Seq(Int) /\ Len(sorted) = L
      /\ \A k \in 1 .. L : p[k] \in 1 .. L /\ sorted[k] = list[p[k]]
      /\ p \in Bijection(1 .. L, 1 .. L)
  <2>1. DOMAIN list = 1 .. L /\ L \in Nat /\ n \in Nat /\ n * L \in Nat
    BY RunnerAssumption
  <2>2. /\ sorted \in Seq(Int) /\ Len(sorted) = L
        /\ \A k \in DOMAIN list : p[k] \in DOMAIN list /\ sorted[k] = list[p[k]]
        /\ p \in Bijection(DOMAIN list, DOMAIN list)
    BY OrderedIs
  <2> HIDE DEF L, sorted
  <2> QED
    BY <2>1, <2>2
<1>n. L \in Nat /\ n \in Nat /\ n * L \in Nat
  BY <1>1
<1>2. /\ P = [k \in 1 .. n * L |-> list[((k - 1) % L) + 1]]
      /\ Q = [k \in 1 .. n * L |-> sorted[((k - 1) % L) + 1]]
  <2>1. Passes(list) = [k \in 1 .. iterations * Len(list) |-> list[((k - 1) % Len(list)) + 1]]
    BY PassesAre
  <2> HIDE DEF sorted
  <2>2. Passes(sorted) = [k \in 1 .. iterations * Len(sorted) |-> sorted[((k - 1) % Len(sorted)) + 1]]
    BY <1>1, PassesAre
  <2> QED
    BY <1>1, <2>1, <2>2
<1>3. Successes(list) = Cardinality(B) /\ Successes(sorted) = Cardinality(A)
  <2>1. DOMAIN P = 1 .. n * L /\ DOMAIN Q = 1 .. n * L
    BY <1>2
  <2> HIDE DEF P, Q, sorted
  <2>2. Successes(list) = Cardinality({k \in DOMAIN P : P[k] > SIZE_NEEDED_FOR_SUCCESS})
    BY DEF Successes, CountOf, P
  <2>3. Successes(sorted) = Cardinality({k \in DOMAIN Q : Q[k] > SIZE_NEEDED_FOR_SUCCESS})
    BY DEF Successes, CountOf, Q
  <2> QED
    BY <2>1, <2>2, <2>3
<1> HIDE DEF L, n, sorted, P, Q, Test
<1>4. CASE L = 0
  <2>1. n * L = 0
    BY <1>1, <1>4
  <2>2. A = {} /\ B = {}
    BY <2>1
  <2> QED
    BY <1>3, <2>2 DEF sorted
<1>5. CASE L # 0
  <2>1. L \in Nat \ {0}
    BY <1>1, <1>5
  <2> DEFINE At(k, q, r) == q \in 0 .. n - 1 /\ r \in 0 .. L - 1 /\ k = L * q + r + 1
  <2>2. ASSUME NEW k \in 1 .. n * L, NEW q, NEW r, At(k, q, r)
        PROVE  P[k] = list[r + 1] /\ Q[k] = list[p[r + 1]]
    <3>1. (L * q + r + 1 - 1) % L = r
      BY <2>1, <2>2, <1>n, PlaceBack
    <3>2. (k - 1) % L = r
      <4>1. k = L * q + r + 1
        BY <2>2
      <4> QED
        <5>1. L * q \in Int /\ r \in Int
          BY <1>n, <2>2
        <5>2. L * q + r + 1 - 1 = L * q + r /\ k - 1 = L * q + r
          BY <4>1, <5>1
        <5> QED
          BY <3>1, <5>2
    <3>3. r + 1 \in 1 .. L
      BY <2>1, <2>2
    <3> QED
      BY <1>1, <1>2, <3>2, <3>3
  <2>3. ASSUME NEW k \in 1 .. n * L PROVE \E q, r : At(k, q, r)
    <3>1. PICK q \in 0 .. n - 1, r \in 0 .. L - 1 : k = L * q + r + 1 /\ (k - 1) % L = r
      BY <2>1, <1>n, Place
    <3>2. At(k, q, r)
      BY <3>1
    <3> HIDE DEF At
    <3> QED
      BY <3>2
  <2> DEFINE Pass(k) == CHOOSE q : \E r : At(k, q, r)
  <2> DEFINE Rest(k) == CHOOSE r : At(k, Pass(k), r)
  <2>4. ASSUME NEW k \in 1 .. n * L PROVE At(k, Pass(k), Rest(k))
    <3> HIDE DEF At
    <3>1. \E r : At(k, Pass(k), r)
      BY <2>3
    <3> HIDE DEF Pass
    <3> QED
      BY <3>1
  <2> HIDE DEF Pass, Rest
  <2> DEFINE Moved(k) == L * Pass(k) + p[Rest(k) + 1]
  <2>5. ASSUME NEW k \in 1 .. n * L
        PROVE  /\ Moved(k) \in 1 .. n * L /\ P[Moved(k)] = Q[k]
               /\ At(Moved(k), Pass(k), p[Rest(k) + 1] - 1)
    <3> DEFINE s == p[Rest(k) + 1] - 1
    <3>1. At(k, Pass(k), Rest(k))
      BY <2>4
    <3>2. Rest(k) + 1 \in 1 .. L
      BY <2>1, <3>1
    <3>3. p[Rest(k) + 1] \in 1 .. L
      BY <1>1, <3>2
    <3>4. s \in 0 .. L - 1 /\ s + 1 = p[Rest(k) + 1] /\ L * Pass(k) \in Int
      BY <3>1, <3>3, <2>1, SMTT(30)
    <3>5. Moved(k) = L * Pass(k) + s + 1
      BY <3>4, <3>3
    <3> HIDE DEF s, Moved
    <3>6. Moved(k) \in 1 .. n * L
      <4>1. L * Pass(k) + s + 1 \in 1 .. n * L
        BY <2>1, <1>n, <3>1, <3>4, PlaceBack
      <4> QED
        BY <4>1, <3>5
    <3>7. At(Moved(k), Pass(k), s)
      BY <3>1, <3>4, <3>5
    <3>8. P[Moved(k)] = list[s + 1] /\ Q[k] = list[p[Rest(k) + 1]]
      <4> HIDE DEF At
      <4> QED
        BY <2>2, <3>1, <3>6, <3>7
    <3> QED
      BY <3>4, <3>6, <3>7, <3>8 DEF s
  <2>6. ASSUME NEW j \in 1 .. n * L, NEW k \in 1 .. n * L, Moved(j) = Moved(k)
        PROVE  j = k
    <3>1. /\ At(j, Pass(j), Rest(j)) /\ At(k, Pass(k), Rest(k))
          /\ At(Moved(j), Pass(j), p[Rest(j) + 1] - 1)
          /\ At(Moved(k), Pass(k), p[Rest(k) + 1] - 1)
      BY <2>4, <2>5
    <3> HIDE DEF Moved
    <3>2. Pass(j) = Pass(k) /\ p[Rest(j) + 1] - 1 = p[Rest(k) + 1] - 1
      <4>1. /\ Pass(j) \in Nat /\ Pass(k) \in Nat
            /\ p[Rest(j) + 1] - 1 \in 0 .. L - 1 /\ p[Rest(k) + 1] - 1 \in 0 .. L - 1
        BY <3>1
      <4> DEFINE a == p[Rest(j) + 1] - 1
      <4> DEFINE b == p[Rest(k) + 1] - 1
      <4>2. L * Pass(j) + a = L * Pass(k) + b
        <5>1. L * Pass(j) + a + 1 = L * Pass(k) + b + 1
          BY <2>6, <3>1
        <5>2. L * Pass(j) \in Int /\ L * Pass(k) \in Int /\ a \in Int /\ b \in Int
          BY <4>1, <2>1
        <5> HIDE DEF a, b
        <5> QED
          BY <5>1, <5>2
      <4> HIDE DEF a, b
      <4>3. a \in 0 .. L - 1 /\ b \in 0 .. L - 1
        BY <4>1 DEF a, b
      <4>4. Pass(j) = Pass(k) /\ a = b
        <5>1. PICK u \in Nat, v \in Nat : u = Pass(j) /\ v = Pass(k)
          BY <4>1
        <5>2. L * u + a = L * v + b
          BY <4>2, <5>1, Zenon
        <5>3. u = v /\ a = b
          BY <2>1, <4>3, <5>2, PlaceOnce
        <5> QED
          BY <5>1, <5>3
      <4> QED
        BY <4>4 DEF a, b
    <3>a. Rest(j) \in 0 .. L - 1 /\ Rest(k) \in 0 .. L - 1
      BY <3>1
    <3>3. Rest(j) + 1 \in 1 .. L /\ Rest(k) + 1 \in 1 .. L
      BY <2>1, <3>a
    <3>4. p[Rest(j) + 1] = p[Rest(k) + 1]
      BY <1>1, <3>2, <3>3, SMTT(30)
    <3>5. Rest(j) + 1 = Rest(k) + 1
      BY <1>1, <3>3, <3>4 DEF Bijection, Injection, IsInjective
    <3>6. Rest(j) = Rest(k)
      BY <3>1, <3>5
    <3> QED
      BY <3>1, <3>2, <3>6
  <2>7. ASSUME NEW k \in 1 .. n * L PROVE \E j \in 1 .. n * L : Moved(j) = k
    <3>1. At(k, Pass(k), Rest(k))
      BY <2>4
    <3>2. Rest(k) + 1 \in 1 .. L
      BY <2>1, <3>1
    <3>3. PICK t \in 1 .. L : p[t] = Rest(k) + 1
      BY <1>1, <3>2 DEF Bijection, Surjection
    <3> DEFINE r == t - 1
    <3> DEFINE j == L * Pass(k) + r + 1
    <3>4. r \in 0 .. L - 1 /\ r + 1 = t /\ L * Pass(k) \in Int
      BY <3>1, <2>1
    <3> HIDE DEF r
    <3>5. j \in 1 .. n * L
      BY <2>1, <1>n, <3>1, <3>4, PlaceBack
    <3> HIDE DEF j
    <3>6. At(j, Pass(j), Rest(j))
      BY <2>4, <3>5
    <3>7. L * Pass(k) + r = L * Pass(j) + Rest(j)
      <4>1. L * Pass(k) + r + 1 = L * Pass(j) + Rest(j) + 1
        BY <3>6 DEF j
      <4>2. L * Pass(k) \in Int /\ L * Pass(j) \in Int /\ r \in Int /\ Rest(j) \in Int
        BY <3>4, <3>6, <2>1
      <4> QED
        BY <4>1, <4>2
    <3>8. Pass(k) = Pass(j) /\ r = Rest(j)
      <4>1. PICK u \in Nat, v \in Nat, s \in 0 .. L - 1 :
              u = Pass(k) /\ v = Pass(j) /\ s = Rest(j)
        BY <3>1, <3>6
      <4>2. L * u + r = L * v + s
        BY <3>7, <4>1, Zenon
      <4>3. u = v /\ r = s
        BY <2>1, <3>4, <4>2, PlaceOnce
      <4> QED
        BY <4>1, <4>3
    <3>9. Moved(j) = L * Pass(k) + p[t]
      BY <3>4, <3>8
    <3>10. Moved(j) = k
      BY <3>1, <3>3, <3>4, <3>9
    <3> QED
      BY <3>5, <3>10
  <2> DEFINE f == [k \in A |-> Moved(k)]
  <2>8. f \in Bijection(A, B)
    <3>1. f \in [A -> B]
      BY <2>5
    <3>2. ASSUME NEW j \in A, NEW k \in A, f[j] = f[k] PROVE j = k
      BY <2>6, <3>2
    <3>3. ASSUME NEW k \in B PROVE \E j \in A : f[j] = k
      <4>1. PICK j \in 1 .. n * L : Moved(j) = k
        BY <2>7
      <4>2. Q[j] = P[k]
        BY <2>5, <4>1
      <4>3. j \in A
        BY <4>2
      <4> QED
        BY <4>1, <4>3
    <3>4. DOMAIN f = A
      OBVIOUS
    <3> HIDE DEF f, A, B
    <3> QED
      BY <3>1, <3>2, <3>3, <3>4 DEF Bijection, Injection, Surjection, IsInjective
  <2>9. IsFiniteSet(A)
    <3>1. IsFiniteSet(1 .. n * L)
      BY <1>1, FS_Interval
    <3>2. A \in SUBSET (1 .. n * L)
      OBVIOUS
    <3> HIDE DEF A
    <3> QED
      BY <3>1, <3>2, FS_Subset
  <2>10. Cardinality(B) = Cardinality(A)
    <3> HIDE DEF A, B, f
    <3> QED
      BY <2>8, <2>9, FS_Bijection DEF ExistsBijection
  <2> QED
    BY <1>3, <2>10 DEF sorted
<1> QED
  BY <1>4, <1>5

(* The numbers of the distribution are numbers. *)
LEMMA NumbersAre ==
  /\ Distribution \subseteq Int
  /\ \A list \in Seq(Distribution) : list \in Seq(Int)
<1>1. Distribution \subseteq Int
  BY DEF Distribution
<1>2. ASSUME NEW list \in Seq(Distribution) PROVE list \in Seq(Int)
  <2>1. Len(list) \in Nat /\ list = [k \in 1 .. Len(list) |-> list[k]]
    OBVIOUS
  <2>2. \A k \in 1 .. Len(list) : list[k] \in Distribution
    OBVIOUS
  <2>3. \A k \in 1 .. Len(list) : list[k] \in Int
    BY <1>1, <2>2
  <2> QED
    BY <2>1, <2>3
<1> QED
  BY <1>1, <1>2

(* The sorted list of a list of the distribution. *)
LEMMA AscendingIs ==
  ASSUME NEW list \in Seq(Distribution)
  PROVE  /\ Ascending(list) \in Seq(Distribution) /\ IsAscending(Ascending(list))
         /\ Successes(Ascending(list)) = Successes(list)
<1>1. Distribution \subseteq Int
  BY NumbersAre
<1>2. list \in Seq(Int)
  BY NumbersAre
<1> DEFINE p == CHOOSE q \in Orders(list) : IsAscending(Ordered(list, q))
<1>3. p \in Orders(list) /\ IsAscending(Ordered(list, p))
  <2>1. \E q \in Orders(list) : IsAscending(Ordered(list, q))
    BY <1>2, CanOrder
  <2> QED
    BY <2>1, Zenon
<1>4. Ascending(list) = Ordered(list, p)
  BY DEF Ascending
<1> HIDE DEF p
<1>5. Ordered(list, p) \in Seq(Distribution)
  BY <1>1, <1>3, OrderedIs
<1>6. Successes(Ordered(list, p)) = Successes(list)
  BY <1>2, <1>3, SuccessesOrdered
<1> QED
  BY <1>3, <1>4, <1>5, <1>6

(* Nothing has moved at first. *)
LEMMA NotMovedYet == \A T : Coordinate(T, 0) = 0
<1>1. 0 % 256 = 0
  OBVIOUS
<1> QED
  BY <1>1 DEF Coordinate

-----------------------------------------------------------------------------
(***************************************************************************)
(* What a run of the other benchables uses of the heap.  A vector that grows   *)
(* goes the same way from Begun in every run: g is where it is after n of the  *)
(* iterations, with the allocations so far.                                  *)
(***************************************************************************)
Begun(b) == [size |-> 0, capacity |-> b.S, allocated |-> 0, freed |-> 0]
Grow(g) ==
  IF g.size < g.capacity
  THEN [g EXCEPT !.size = @ + 1]
  ELSE [size |-> g.size + 1, capacity |-> g.size + Max({1, g.size}),
        allocated |-> g.allocated + 1, freed |-> IF g.capacity > 0 THEN g.freed + 1 ELSE g.freed]
IsGrown(g, b, n) ==
  \E f : /\ f[0] = Begun(b)
         /\ \A k \in 0 .. n - 1 : f[k + 1] = Grow(f[k])
         /\ f[n] = g

(* The copies of a string that are on the heap. *)
Copies(b, n) == IF OnHeap(Spaces(b).length) THEN n ELSE 0

(* The entities are the benchables whose locations no reset takes back. *)
Moving == {"AOS", "SOA"}

(* What the n-th time t of b says was done: how the outcome follows from the     *)
(* input, and what it shows.                                                 *)
Does(t, b, n) ==
  /\ b.class \in BranchClasses => t.did.outcome = Successes(t.did.input)
  /\ b.class = "BranchPredictionSorted" => t.did.shows <= 2 * iterations - 1
  /\ b.class = "AttributeOptimisation" => t.did.outcome = CountedAlike(Passes(t.did.input))
  /\ b.class = "VectorAccess" => t.did.outcome = iterations * numEntities
  /\ b.class \in Moving =>
       /\ t.did.input = ArraysAt(b.T, iterations * (n - 1))
       /\ t.did.outcome = ArraysAt(b.T, iterations * (n - 1) + iterations)
  /\ b.class = "ArrayWrite" => t.did.shows = {byte \div 64 : byte \in Written(b)}
  /\ b.class = "ExecutionPolicies" => t.did.outcome = TransformedAlike(t.did.input)
  /\ b.class \in ArrayFills => \E k \in Nat \ {0} : t.did.shows = {k}
  /\ b.class \in QueueTesters => t.did.outcome = b.numPairs * iterations

(* t is the n-th time of b: its use of the heap, what it found of the random     *)
(* numbers, and what it did.                                                 *)
Use(t, b, n) ==
  /\ b.class = "VectorWrapper" =>
       \E g : IsGrown(g, b, iterations) /\ t.allocated = g.allocated /\ t.freed = g.freed
  /\ b.class = "StringRunner" =>
       t.allocated = Copies(b, iterations) /\ t.freed = Copies(b, iterations)
  /\ b.class \notin Looping \cup {"AllocationBench"} => t.allocated = 0 /\ t.freed = 0
  /\ b.class = "VectorAccess" =>
       t.did.input = indices([seed |-> "10000", drawn |-> numEntities * n])
  /\ b.class = "Xoroshiro128plus" => t.did.input.seeding = n - 1
  /\ Does(t, b, n)

(* The members m of b as its run r + 1 finds them: numbers, coordinates, counts. *)
Holds(m, b, r) ==
  /\ b.class \in BranchClasses \cup {"AttributeOptimisation"} => m.numbers \in Seq(Distribution)
  /\ b.class = "BranchPredictionSorted" => IsAscending(m.numbers)
  /\ b.class = "AOS" => m = [entities |-> All(EntityAt(b.T, iterations * r))]
  /\ b.class = "SOA" => m = ArraysAt(b.T, iterations * r)
  /\ b.class = "ExecutionPolicies" =>
       /\ m = [transform |-> m.transform, pos |-> m.pos]
       /\ m.transform \in Transforms /\ m.pos \in Positions
  /\ b.class \in ArrayFills => m = [seeding |-> m.seeding, made |-> m.made] /\ m.made \in Nat
IsLeft(m, b, r) ==
  /\ b.class = "VectorWrapper" => m = Cleared(b)
  /\ b.class = "StringRunner" => m = Spaces(b)
  /\ b.class = "VectorAccess" => m = [seed |-> "10000", drawn |-> numEntities * (r + 1)]
  /\ b.class = "Xoroshiro128plus" => m = [seeding |-> r, made |-> m.made]
  /\ Holds(m, b, r)

(* Nothing more is to happen to b before its next run. *)
Left(b, p) == p = "add" \/ (p \in {"end", "reset"} /\ b.class \in Moving)
Resets(k) == IF k < bench \/ (k = bench /\ Left(calls[1][k], pc)) THEN sample + 1 ELSE sample

TimesInv ==
  pc # "failed" =>
    \A k \in 1 .. Entries : \A n \in 1 .. Samples(k) :
      Use(collection[k].clockTimes[n], calls[1][k], n)

(* Only a vector is not what it was, while its run is not reset.                *)
MembersInv ==
  pc \in Active =>
    \A k \in DOMAIN members :
      k # bench \/ pc \in {"start", "add"} \/ calls[1][k].class # "VectorWrapper" =>
        IsLeft(members[k], calls[1][k], Resets(k))

(* Where the vector's run is; g is This and work. *)
VectorRun ==
  /\ i \in 0 .. iterations - 1
  /\ This = [size |-> This.size, capacity |-> This.capacity]
  /\ IsGrown([size |-> This.size, capacity |-> This.capacity,
              allocated |-> work.allocated, freed |-> work.freed], Turn, i)

StringRun ==
  i \in 0 .. iterations - 1 /\ work.allocated = Copies(Turn, i) /\ work.freed = Copies(Turn, i)

RunInv ==
  /\ pc = "run" =>
       /\ Turn.class = "VectorWrapper" => VectorRun
       /\ Turn.class = "StringRunner" => StringRun
       /\ Turn.class \notin Looping \cup {"AllocationBench"} => work.allocated = 0 /\ work.freed = 0
  /\ pc \in Active \ {"start", "run"} => Use(work, Turn, sample + 1)

UsesInv == TimesInv /\ MembersInv /\ RunInv

-----------------------------------------------------------------------------
(* A vector starts to grow, grows on, and can only have grown one way.         *)
LEMMA GrownBegun ==
  ASSUME NEW b
  PROVE  IsGrown(Begun(b), b, 0)
<1> DEFINE f == [k \in {0} |-> Begun(b)]
<1>1. f[0] = Begun(b) /\ 0 .. 0 - 1 = {}
  OBVIOUS
<1> HIDE DEF f
<1> QED
  BY <1>1 DEF IsGrown

(* One push more. *)
LEMMA GrownOn ==
  ASSUME NEW b, NEW n \in Nat, NEW g, IsGrown(g, b, n)
  PROVE  IsGrown(Grow(g), b, n + 1)
<1>1. PICK f : f[0] = Begun(b) /\ (\A k \in 0 .. n - 1 : f[k + 1] = Grow(f[k])) /\ f[n] = g
  BY DEF IsGrown
<1> DEFINE e == [k \in 0 .. n + 1 |-> IF k = n + 1 THEN Grow(g) ELSE f[k]]
<1>2. e[0] = Begun(b) /\ e[n + 1] = Grow(g)
  BY <1>1
<1>3. ASSUME NEW k \in 0 .. (n + 1) - 1 PROVE e[k + 1] = Grow(e[k])
  <2>1. e[k] = f[k]
    OBVIOUS
  <2>2. CASE k = n
    BY <2>1, <2>2, <1>1, <1>2
  <2>3. CASE k # n
    <3>1. k \in 0 .. n - 1 /\ e[k + 1] = f[k + 1]
      BY <2>3
    <3> QED
      BY <3>1, <2>1, <1>1
  <2> QED
    BY <2>2, <2>3
<1> HIDE DEF e
<1> QED
  BY <1>2, <1>3 DEF IsGrown

(* A vector grows the same way in every run. *)
LEMMA GrownOnce ==
  ASSUME NEW b, NEW n \in Nat, NEW g, NEW h, IsGrown(g, b, n), IsGrown(h, b, n)
  PROVE  g = h
<1>1. PICK f : f[0] = Begun(b) /\ (\A k \in 0 .. n - 1 : f[k + 1] = Grow(f[k])) /\ f[n] = g
  BY DEF IsGrown
<1>2. PICK e : e[0] = Begun(b) /\ (\A k \in 0 .. n - 1 : e[k + 1] = Grow(e[k])) /\ e[n] = h
  BY DEF IsGrown
<1> DEFINE T == {k \in Nat : k <= n => f[k] = e[k]}
<1>3. 0 \in T
  BY <1>1, <1>2
<1>4. ASSUME NEW k \in Nat, k \in T PROVE k + 1 \in T
  <2>1. CASE k + 1 <= n
    <3>1. k \in 0 .. n - 1 /\ f[k] = e[k]
      BY <1>4, <2>1
    <3>2. f[k + 1] = e[k + 1]
      BY <3>1, <1>1, <1>2, Zenon
    <3> QED
      BY <3>2
  <2>2. CASE ~(k + 1 <= n)
    BY <2>2
  <2> QED
    BY <2>1, <2>2
<1>5. n \in T
  <2> HIDE DEF T
  <2>1. Nat \subseteq T
    BY <1>3, <1>4, Induction
  <2> QED
    BY <2>1
<1> QED
  BY <1>1, <1>2, <1>5

(* A step of the turn that leaves the other benchables alone. *)
LEMMA UsesInTurn ==
  ASSUME Inv, UsesInv, UNCHANGED <<calls, bench, sample, collection>>,
         pc \in Active, pc' \in Active \ {"start"}, MemberStep, RunInv',
         pc' = "add" \/ Turn.class # "VectorWrapper" =>
           IsLeft(members'[bench], Turn, IF Left(Turn, pc') THEN sample + 1 ELSE sample)
  PROVE  UsesInv'
<1>1. pc # "failed" /\ pc' # "failed"
  BY DEF Active
<1>2. TimesInv'
  BY <1>1 DEF UsesInv, TimesInv, Entries, Samples
<1>3. MembersInv'
  <2> SUFFICES ASSUME NEW k \in DOMAIN members,
                      k # bench \/ pc' = "add" \/ calls[1][k].class # "VectorWrapper"
               PROVE  IsLeft(members'[k], calls[1][k], Resets(k)')
    BY DEF MembersInv, MemberStep
  <2>1. CASE k = bench
    <3>2. calls[1][k] = Turn
      BY <2>1 DEF Turn
    <3>1. Resets(k)' = IF Left(Turn, pc') THEN sample + 1 ELSE sample
      <4>1. bench \in Int
        BY TurnFacts DEF Inv, RunnerInv
      <4> QED
        BY <2>1, <3>2, <4>1 DEF Resets
    <3> QED
      BY <2>1, <3>1, <3>2, Zenon
  <2>2. CASE k # bench
    <3>1. members'[k] = members[k]
      BY <2>2 DEF MemberStep
    <3>2. Resets(k)' = Resets(k)
      BY <2>2 DEF Resets
    <3>3. IsLeft(members[k], calls[1][k], Resets(k))
      BY <2>2 DEF UsesInv, MembersInv
    <3> QED
      BY <3>1, <3>2, <3>3
  <2> QED
    BY <2>1, <2>2
<1> QED
  BY <1>2, <1>3 DEF UsesInv

(* What the invariant says of the benchable whose turn it is. *)
LEMMA LeftInTurn ==
  ASSUME Inv, UsesInv, pc \in Active \ {"add"},
         pc = "start" \/ Turn.class # "VectorWrapper"
  PROVE  IsLeft(This, Turn, IF Left(Turn, pc) THEN sample + 1 ELSE sample)
<1>1. bench \in DOMAIN members /\ calls[1][bench] = Turn /\ members[bench] = This
  BY TurnFacts DEF Inv, RunnerInv, ControlInv, This
<1>2. Resets(bench) = IF Left(Turn, pc) THEN sample + 1 ELSE sample
  <2>1. bench \in Int
    BY TurnFacts DEF Inv, RunnerInv, ControlInv
  <2> QED
    BY <1>1, <2>1 DEF Resets
<1>3. IsLeft(members[bench], calls[1][bench], Resets(bench))
  BY <1>1, Zenon DEF UsesInv, MembersInv
<1> QED
  BY <1>1, <1>2, <1>3, Zenon

(* A run starts from members a reset or a constructor left. *)
LEMMA StartTimerKeepsUses ==
  ASSUME Inv, UsesInv, StartTimer
  PROVE  UsesInv'
<1>1. /\ pc = "start" /\ pc' = "run" /\ calls' = calls /\ bench' = bench /\ sample' = sample
      /\ collection' = collection /\ members' = members /\ i' = i /\ work' = NewWork(Turn)
  BY DEF StartTimer
<1>2. Turn' = Turn /\ This' = This /\ i = 0 /\ iterations \in Nat \ {0}
  BY <1>1, RunnerAssumption DEF Turn, This, Inv, OthersInv
<1>3. IsLeft(This, Turn, sample) /\ ~Left(Turn, pc')
  BY <1>1, LeftInTurn DEF Active, Left
<1>4. work'.allocated = 0 /\ work'.freed = 0
  BY <1>1 DEF NewWork
<1>5. RunInv'
  <2>1. Turn.class = "VectorWrapper" => VectorRun'
    <3> SUFFICES ASSUME Turn.class = "VectorWrapper" PROVE VectorRun'
      OBVIOUS
    <3>1. This = [size |-> 0, capacity |-> Turn.S]
      BY <1>3 DEF IsLeft, Cleared
    <3>2. This.size = 0 /\ This.capacity = Turn.S
      BY <3>1
    <3>3. IsGrown([size |-> This.size, capacity |-> This.capacity, allocated |-> 0, freed |-> 0],
                  Turn, 0)
      BY <3>2, GrownBegun DEF Begun
    <3>4. i' \in 0 .. iterations - 1 /\ i' = 0
      BY <1>1, <1>2
    <3> QED
      BY <1>2, <1>4, <3>1, <3>2, <3>3, <3>4 DEF VectorRun
  <2>2. Turn.class = "StringRunner" => StringRun'
    <3>1. Copies(Turn, 0) = 0
      BY DEF Copies
    <3>2. i' \in 0 .. iterations - 1 /\ i' = 0
      BY <1>1, <1>2
    <3> QED
      BY <1>2, <1>4, <3>1, <3>2 DEF StringRun
  <2> QED
    BY <1>1, <1>2, <1>4, <2>1, <2>2 DEF RunInv
<1>6. UNCHANGED <<calls, bench, sample, collection>> /\ MemberStep /\ members'[bench] = This
  BY <1>1 DEF MemberStep, This
<1>7. pc \in Active /\ pc' \in Active \ {"start"} /\ pc' # "add"
  BY <1>1 DEF Active
<1> QED
  BY <1>3, <1>5, <1>6, <1>7, UsesInTurn, Zenon

(* A run ends with its use of the heap complete. *)
LEMMA EndTimerKeepsUses ==
  ASSUME Inv, UsesInv, EndTimer
  PROVE  UsesInv'
<1>1. /\ pc = "end" /\ pc' = "reset" /\ calls' = calls /\ bench' = bench /\ sample' = sample
      /\ collection' = collection /\ members' = members /\ i' = i /\ work' = work
  BY DEF EndTimer
<1>2. Turn' = Turn /\ This' = This
  BY <1>1 DEF Turn, This
<1>3. Turn.class # "VectorWrapper" =>
        IsLeft(This, Turn, IF Left(Turn, pc') THEN sample + 1 ELSE sample)
  <2>1. Left(Turn, pc') <=> Left(Turn, pc)
    BY <1>1 DEF Left
  <2> QED
    BY <1>1, <2>1, LeftInTurn DEF Active
<1>4. RunInv'
  BY <1>1, <1>2 DEF UsesInv, RunInv, Active
<1>5. UNCHANGED <<calls, bench, sample, collection>> /\ MemberStep /\ members'[bench] = This
  BY <1>1 DEF MemberStep, This
<1>6. pc \in Active /\ pc' \in Active \ {"start"} /\ pc' # "add"
  BY <1>1 DEF Active
<1> QED
  BY <1>3, <1>4, <1>5, <1>6, UsesInTurn, Zenon

(* An exception leaves nothing to say. *)
LEMMA FailKeepsUses ==
  ASSUME UsesInv, Fail
  PROVE  UsesInv'
<1>1. pc' = "failed"
  BY DEF Fail
<1> QED
  BY <1>1 DEF UsesInv, TimesInv, MembersInv, RunInv, Active

(* A step of an allocation bench. *)
LEMMA AllocationKeepsUses ==
  ASSUME Inv, UsesInv, AllocationNext
  PROVE  UsesInv'
<1>1. IsAllocation(Turn) /\ Turn.class = "AllocationBench"
  BY DEF AllocationNext, IsAllocation
<1>2. CASE AllocateThrows
  BY <1>2, FailKeepsUses DEF AllocateThrows
<1>3. CASE ~AllocateThrows
  <2>1. /\ UNCHANGED loopVars /\ MemberStep
        /\ pc \in Active \ {"start", "add"} /\ pc' \in Active \ {"start"}
    <3>1. CASE ArenaAllocate
      BY <3>1 DEF ArenaAllocate, MemberStep, Advance, Active
    <3>2. CASE NewAllocate
      BY <3>2 DEF NewAllocate, MemberStep, Advance, Active
    <3>3. CASE ArenaReset
      BY <3>3 DEF ArenaReset, MemberStep, Freeing, AfterFree, Active
    <3>4. CASE Delete
      BY <3>4 DEF Delete, MemberStep, Freeing, AfterFree, Active
    <3>5. CASE ResetBenchmark
      BY <3>5 DEF ResetBenchmark, MemberStep, Active
    <3>6. CASE Clear
      <4>1. \E fill \in Fills(Turn) : DrawsSizes(fill)
        BY <3>6, Zenon DEF Clear, DrawsSizes
      <4>2. MemberStep
        BY <4>1 DEF DrawsSizes, MemberStep
      <4> QED
        BY <3>6, <4>2 DEF Clear, Active
    <3> QED
      BY <1>3, <3>1, <3>2, <3>3, <3>4, <3>5, <3>6, Zenon DEF AllocationNext
  <2>2. UNCHANGED <<calls, bench, sample, collection>>
    BY <2>1 DEF loopVars
  <2>3. Turn' = Turn
    BY <2>2 DEF Turn
  <2>4. \A t, n : Use(t, Turn, n)
    BY <1>1 DEF Use, Does, BranchClasses, Moving, ArrayFills, QueueTesters
  <2>5. RunInv'
    <3>1. Use(work, Turn, sample + 1)'
      BY <2>3, <2>4
    <3> QED
      BY <1>1, <2>3, <3>1 DEF RunInv
  <2>6. \A m, r : IsLeft(m, Turn, r)
    BY <1>1 DEF IsLeft, Holds, BranchClasses, ArrayFills
  <2> QED
    BY <2>1, <2>2, <2>5, <2>6, UsesInTurn
<1> QED
  BY <1>2, <1>3

-----------------------------------------------------------------------------
(* The step of the loop over the iterations. *)
LEMMA NextIteration ==
  ASSUME i \in 0 .. iterations - 1, i' = (i + 1) % iterations,
         pc = "run", pc' = IF i' = 0 THEN "end" ELSE pc
  PROVE  \/ i + 1 # iterations /\ i' = i + 1 /\ pc' = "run" /\ i + 1 \in 0 .. iterations - 1
         \/ i + 1 = iterations /\ pc' = "end"
<1>1. iterations \in Nat \ {0}
  BY RunnerAssumption
<1>2. i' = IF i + 1 = iterations THEN 0 ELSE i + 1
  <2>1. (i + 1) % iterations = IF i + 1 = iterations THEN 0 ELSE i + 1
    BY <1>1, Wraps
  <2> QED
    BY <2>1, Zenon
<1>3. CASE i + 1 = iterations
  <2>1. i' = 0
    BY <1>2, <1>3, Zenon
  <2> QED
    BY <2>1, <1>3, Zenon
<1>4. CASE i + 1 # iterations
  <2>1. i' = i + 1 /\ i + 1 \in 0 .. iterations - 1 /\ i + 1 # 0
    BY <1>1, <1>2, <1>4
  <2>2. pc' = "run"
    BY <2>1, Zenon
  <2> QED
    BY <2>1, <2>2, <1>4
<1> QED
  BY <1>3, <1>4

(* A push grows the vector as every run has grown it. *)
LEMMA PushBackKeepsUses ==
  ASSUME Inv, UsesInv, PushBack
  PROVE  UsesInv'
<1> DEFINE g == [size |-> This.size, capacity |-> This.capacity,
                 allocated |-> work.allocated, freed |-> work.freed]
<1> DEFINE m == members'[bench]
<1>1. /\ pc = "run" /\ Turn.class = "VectorWrapper" /\ UNCHANGED loopVars
      /\ i' = (i + 1) % iterations /\ pc' = IF i' = 0 THEN "end" ELSE pc
  BY Zenon DEF PushBack
<1>2. /\ i \in 0 .. iterations - 1 /\ i \in Nat
      /\ This = [size |-> This.size, capacity |-> This.capacity]
      /\ IsGrown(g, Turn, i)
  BY <1>1, RunnerAssumption DEF UsesInv, RunInv, VectorRun
<1>3. bench \in DOMAIN members /\ Shaped(work) /\ members[bench] = This
  BY <1>1, TurnFacts DEF Inv, RunnerInv, ControlInv, WorkInv, Active, This
<1>4. /\ MemberStep /\ m = [size |-> m.size, capacity |-> m.capacity]
      /\ [size |-> m.size, capacity |-> m.capacity,
          allocated |-> work'.allocated, freed |-> work'.freed] = Grow(g)
  <2>1. g.size = This.size /\ g.capacity = This.capacity /\ g.allocated = work.allocated
        /\ g.freed = work.freed
    OBVIOUS
  <2>2. CASE This.size < This.capacity
    <3>1. members' = [members EXCEPT ![bench].size = @ + 1] /\ work' = work
      BY <1>1, <2>2 DEF PushBack
    <3>2. m = [This EXCEPT !.size = This.size + 1]
      BY <1>3, <3>1
    <3>3. m = [size |-> This.size + 1, capacity |-> This.capacity]
      BY <1>2, <3>2
    <3>4. Grow(g) = [size |-> This.size + 1, capacity |-> This.capacity,
                     allocated |-> work.allocated, freed |-> work.freed]
      BY <2>1, <2>2 DEF Grow
    <3>5. MemberStep
      BY <3>1 DEF MemberStep
    <3> HIDE DEF m, g
    <3> QED
      BY <3>1, <3>3, <3>4, <3>5
  <2>3. CASE ~(This.size < This.capacity)
    <3> DEFINE new == [size |-> This.size + 1, capacity |-> This.size + Max({1, This.size})]
    <3> DEFINE freed == IF This.capacity > 0 THEN work.freed + 1 ELSE work.freed
    <3>1. /\ members' = [members EXCEPT ![bench] =
               [size |-> @.size + 1, capacity |-> @.size + Max({1, @.size})]]
          /\ work' = [work EXCEPT !.allocated = @ + 1,
                                  !.freed = IF This.capacity > 0 THEN @ + 1 ELSE @]
      BY <1>1, <2>3 DEF PushBack
    <3>2. m = new
      BY <1>3, <3>1
    <3>3. work'.allocated = work.allocated + 1 /\ work'.freed = freed
      BY <1>3, <3>1 DEF Shaped
    <3>4. Grow(g) = [size |-> new.size, capacity |-> new.capacity,
                     allocated |-> work.allocated + 1, freed |-> freed]
      <4>1. ~(g.size < g.capacity)
        BY <2>1, <2>3
      <4>2. Grow(g) = [size |-> g.size + 1, capacity |-> g.size + Max({1, g.size}),
                       allocated |-> g.allocated + 1,
                       freed |-> IF g.capacity > 0 THEN g.freed + 1 ELSE g.freed]
        BY <4>1, Zenon DEF Grow
      <4> HIDE DEF g
      <4> QED
        BY <2>1, <4>2
    <3>5. MemberStep
      BY <3>1 DEF MemberStep
    <3>6. new = [size |-> new.size, capacity |-> new.capacity]
      OBVIOUS
    <3> HIDE DEF m, g, new, freed
    <3> QED
      BY <3>2, <3>3, <3>4, <3>5, <3>6
  <2> QED
    BY <2>2, <2>3
<1> HIDE DEF m, g
<1>5. IsGrown([size |-> m.size, capacity |-> m.capacity,
               allocated |-> work'.allocated, freed |-> work'.freed], Turn, i + 1)
  BY <1>2, <1>4, GrownOn
<1>6. \/ i + 1 # iterations /\ i' = i + 1 /\ pc' = "run" /\ i + 1 \in 0 .. iterations - 1
      \/ i + 1 = iterations /\ pc' = "end"
  BY <1>1, <1>2, NextIteration
<1>7. UNCHANGED <<calls, bench, sample, collection>> /\ Turn' = Turn /\ This' = m
  BY <1>1 DEF loopVars, Turn, This, m
<1>8. RunInv'
  <2>1. CASE pc' = "run"
    <3>1. VectorRun'
      BY <1>4, <1>5, <1>6, <1>7, <2>1 DEF VectorRun
    <3> QED
      BY <1>1, <1>7, <2>1, <3>1 DEF RunInv, Looping
  <2>2. CASE pc' = "end"
    <3>1. \E h : IsGrown(h, Turn, iterations) /\ work'.allocated = h.allocated
                 /\ work'.freed = h.freed
      <4> DEFINE h == [size |-> m.size, capacity |-> m.capacity,
                       allocated |-> work'.allocated, freed |-> work'.freed]
      <4>1. i + 1 = iterations
        BY <1>6, <2>2
      <4>2. IsGrown(h, Turn, iterations)
        BY <1>5, <4>1
      <4>3. h.allocated = work'.allocated /\ h.freed = work'.freed
        OBVIOUS
      <4> HIDE DEF h
      <4> QED
        BY <4>2, <4>3
    <3>2. Does(work', Turn, sample + 1)
      BY <1>1 DEF Does, BranchClasses, Moving, ArrayFills, QueueTesters
    <3>3. Use(work', Turn, sample + 1)
      BY <1>1, <3>1, <3>2, Zenon DEF Use, Looping
    <3> QED
      BY <1>7, <2>2, <3>3 DEF RunInv
  <2> QED
    BY <1>6, <2>1, <2>2
<1>9. pc \in Active /\ pc' \in Active \ {"start"} /\ pc' # "add"
  BY <1>1, <1>6 DEF Active
<1> QED
  BY <1>1, <1>4, <1>7, <1>8, <1>9, UsesInTurn

(* A copy of a string is on the heap or not, like those before. *)
LEMMA CopyStringKeepsUses ==
  ASSUME Inv, UsesInv, CopyString
  PROVE  UsesInv'
<1>1. /\ pc = "run" /\ Turn.class = "StringRunner" /\ UNCHANGED loopVars /\ members' = members
      /\ work' = (IF OnHeap(This.length)
                  THEN [work EXCEPT !.allocated = @ + 1, !.freed = @ + 1] ELSE work)
      /\ i' = (i + 1) % iterations /\ pc' = IF i' = 0 THEN "end" ELSE pc
  BY Zenon DEF CopyString
<1>2. i \in 0 .. iterations - 1 /\ work.allocated = Copies(Turn, i) /\ work.freed = Copies(Turn, i)
  BY <1>1 DEF UsesInv, RunInv, StringRun
<1>3. Shaped(work)
  BY DEF Inv, WorkInv
<1>4. IsLeft(This, Turn, sample) /\ This = Spaces(Turn)
  <2>1. ~Left(Turn, pc)
    BY <1>1 DEF Left
  <2> QED
    BY <1>1, <2>1, LeftInTurn DEF Active, IsLeft
<1>5. work'.allocated = Copies(Turn, i + 1) /\ work'.freed = Copies(Turn, i + 1)
  <2>1. This.length = Spaces(Turn).length
    BY <1>4
  <2>2. CASE OnHeap(This.length)
    <3>1. work' = [work EXCEPT !.allocated = @ + 1, !.freed = @ + 1]
      BY <1>1, <2>2
    <3>2. work'.allocated = work.allocated + 1 /\ work'.freed = work.freed + 1
      BY <1>3, <3>1 DEF Shaped
    <3>3. Copies(Turn, i) = i /\ Copies(Turn, i + 1) = i + 1
      BY <2>1, <2>2, Zenon DEF Copies
    <3> QED
      BY <1>2, <3>2, <3>3
  <2>3. CASE ~OnHeap(This.length)
    <3>1. Copies(Turn, i) = 0 /\ Copies(Turn, i + 1) = 0
      BY <2>1, <2>3, Zenon DEF Copies
    <3> QED
      BY <1>1, <1>2, <2>3, <3>1
  <2> QED
    BY <2>2, <2>3
<1>6. \/ i + 1 # iterations /\ i' = i + 1 /\ pc' = "run" /\ i + 1 \in 0 .. iterations - 1
      \/ i + 1 = iterations /\ pc' = "end"
  BY <1>1, <1>2, NextIteration
<1>7. /\ UNCHANGED <<calls, bench, sample, collection>> /\ Turn' = Turn /\ MemberStep
      /\ members'[bench] = This
  BY <1>1 DEF loopVars, Turn, This, MemberStep
<1>8. RunInv'
  <2>1. CASE pc' = "run"
    <3>1. StringRun'
      BY <1>5, <1>6, <1>7, <2>1 DEF StringRun
    <3> QED
      BY <1>1, <1>7, <2>1, <3>1 DEF RunInv, Looping
  <2>2. CASE pc' = "end"
    <3>1. Does(work', Turn, sample + 1)
      BY <1>1 DEF Does, BranchClasses, Moving, ArrayFills, QueueTesters
    <3>2. Use(work', Turn, sample + 1)
      BY <1>1, <1>5, <1>6, <2>2, <3>1 DEF Use, Looping
    <3> QED
      BY <1>7, <2>2, <3>2 DEF RunInv
  <2> QED
    BY <1>6, <2>1, <2>2
<1>9. pc \in Active /\ pc' \in Active \ {"start"} /\ pc' # "add" /\ ~Left(Turn, pc')
  BY <1>1, <1>6 DEF Active, Left, Moving
<1> QED
  BY <1>4, <1>7, <1>8, <1>9, UsesInTurn, Zenon

(* A vector allocates unless there was room for all.  *)
LEMMA GrownCounts ==
  ASSUME NEW b, b.S \in Nat, NEW n \in Nat, NEW g, IsGrown(g, b, n)
  PROVE  (g.allocated = 0) <=> (b.S >= n)
<1>1. PICK f : f[0] = Begun(b) /\ (\A k \in 0 .. n - 1 : f[k + 1] = Grow(f[k])) /\ f[n] = g
  BY DEF IsGrown
<1> DEFINE Good(h, k) ==
      /\ h.size = k /\ h.allocated \in Nat
      /\ h.allocated = 0 => h.capacity = b.S /\ k <= b.S
      /\ h.allocated # 0 => b.S < k
<1>2. ASSUME NEW h, NEW k \in Nat, Good(h, k), h = [size |-> h.size, capacity |-> h.capacity, allocated |-> h.allocated, freed |-> h.freed]
      PROVE  Good(Grow(h), k + 1)
  <2>1. CASE h.size < h.capacity
    <3>1. Grow(h) = [h EXCEPT !.size = h.size + 1]
      BY <2>1 DEF Grow
    <3>2. Grow(h).size = h.size + 1 /\ Grow(h).capacity = h.capacity /\ Grow(h).allocated = h.allocated
      BY <1>2, <3>1
    <3> QED
      BY <1>2, <2>1, <3>2
  <2>2. CASE ~(h.size < h.capacity)
    <3>1. Grow(h).size = h.size + 1 /\ Grow(h).allocated = h.allocated + 1
      BY <2>2 DEF Grow
    <3> QED
      BY <1>2, <2>2, <3>1
  <2> QED
    BY <2>1, <2>2
<1> DEFINE Rec(h) == h = [size |-> h.size, capacity |-> h.capacity, allocated |-> h.allocated, freed |-> h.freed]
<1>3. ASSUME NEW h, Rec(h) PROVE Rec(Grow(h))
  <2>1. CASE h.size < h.capacity
    <3>1. Grow(h) = [h EXCEPT !.size = h.size + 1]
      BY <2>1 DEF Grow
    <3>2. Grow(h) = [size |-> h.size + 1, capacity |-> h.capacity, allocated |-> h.allocated, freed |-> h.freed]
      BY <1>3, <3>1
    <3> QED
      BY <3>2
  <2>2. CASE ~(h.size < h.capacity)
    BY <2>2 DEF Grow
  <2> QED
    BY <2>1, <2>2
<1> DEFINE T == {k \in Nat : k <= n => Good(f[k], k) /\ Rec(f[k])}
<1>4. 0 \in T
  BY <1>1 DEF Begun
<1>5. ASSUME NEW k \in Nat, k \in T PROVE k + 1 \in T
  <2> HIDE DEF Good, Rec
  <2>1. CASE k + 1 <= n
    <3>1. k \in 0 .. n - 1 /\ Good(f[k], k) /\ Rec(f[k])
      BY <1>5, <2>1
    <3>2. f[k + 1] = Grow(f[k])
      BY <3>1, <1>1, Zenon
    <3>3. Good(Grow(f[k]), k + 1)
      BY <3>1, <1>2 DEF Rec
    <3>4. Rec(Grow(f[k]))
      BY <3>1, <1>3
    <3> QED
      BY <3>2, <3>3, <3>4
  <2>2. CASE ~(k + 1 <= n)
    BY <2>2
  <2> QED
    BY <2>1, <2>2
<1>6. n \in T
  <2> HIDE DEF T
  <2>1. Nat \subseteq T
    BY <1>4, <1>5, Induction
  <2> QED
    BY <2>1
<1>7. Good(f[n], n)
  BY <1>6
<1> QED
  BY <1>1, <1>7

-----------------------------------------------------------------------------
(* What a run in one step finds. *)
LEMMA FoundByRun ==
  ASSUME Inv, UsesInv, pc = "run", Turn.class \notin Looping
  PROVE  IsLeft(This, Turn, sample) /\ sample \in Nat
<1>1. ~Left(Turn, pc) /\ pc \in Active \ {"add"} /\ Turn.class # "VectorWrapper"
  BY DEF Left, Active, Looping
<1>2. IsLeft(This, Turn, sample)
  BY <1>1, LeftInTurn
<1>3. sample \in Nat
  BY <1>1 DEF Inv, RunnerInv, ControlInv
<1> QED
  BY <1>2, <1>3

(* Any time of such a run, with what it did ... *)
Timing(t, input, outcome, shows) ==
  /\ t.allocated = 0 /\ t.freed = 0
  /\ t.did.input = input /\ t.did.outcome = outcome /\ t.did.shows = shows

(* ... is in use if it is what the run is to do. *)
LEMMA RanKeepsUses ==
  ASSUME Inv, UsesInv, NEW classes, NEW m, NEW input, NEW outcome, NEW shows,
         RunOnce(classes, m, input, outcome, shows),
         classes \cap (Looping \cup {"AllocationBench"}) = {},
         IsLeft(m, Turn, IF Turn.class \in Moving THEN sample + 1 ELSE sample),
         \A t : Timing(t, input, outcome, shows) => Use(t, Turn, sample + 1)
  PROVE  UsesInv'
<1>1. /\ pc = "run" /\ pc' = "end" /\ UNCHANGED loopVars /\ Turn.class \in classes
      /\ members' = [members EXCEPT ![bench] = m]
      /\ work' = [work EXCEPT !.did = [input |-> input, outcome |-> outcome, shows |-> shows]]
  BY DEF RunOnce
<1>2. bench \in DOMAIN members /\ Shaped(work)
  BY <1>1, TurnFacts DEF Inv, RunnerInv, ControlInv, WorkInv, Active
<1>3. MemberStep /\ members'[bench] = m
  BY <1>1, <1>2 DEF MemberStep
<1>4. Turn.class \notin Looping \cup {"AllocationBench"}
  BY <1>1
<1>5. Timing(work', input, outcome, shows)
  <2>1. /\ work'.allocated = work.allocated /\ work'.freed = work.freed
        /\ work'.did = [input |-> input, outcome |-> outcome, shows |-> shows]
    BY <1>1, <1>2 DEF Shaped
  <2>2. work.allocated = 0 /\ work.freed = 0
    BY <1>1, <1>4 DEF UsesInv, RunInv
  <2> QED
    BY <2>1, <2>2 DEF Timing
<1>6. UNCHANGED <<calls, bench, sample, collection>> /\ Turn' = Turn
  BY <1>1 DEF loopVars, Turn
<1>7. Use(work', Turn, sample + 1)
  BY <1>5
<1>8. RunInv'
  BY <1>1, <1>6, <1>7 DEF RunInv
<1>9. /\ pc \in Active /\ pc' \in Active \ {"start"} /\ pc' # "add"
      /\ Left(Turn, pc') <=> Turn.class \in Moving
  BY <1>1 DEF Active, Left
<1>10. IsLeft(members'[bench], Turn, IF Left(Turn, pc') THEN sample + 1 ELSE sample)
  BY <1>3, <1>9
<1> QED
  BY <1>3, <1>6, <1>8, <1>9, <1>10, UsesInTurn, Zenon

(* What a reset finds, unless it is a vector's. *)
LEMMA FoundByReset ==
  ASSUME Inv, UsesInv, pc = "reset", Turn.class # "VectorWrapper"
  PROVE  IsLeft(This, Turn, IF Turn.class \in Moving THEN sample + 1 ELSE sample)
<1>1. (Left(Turn, pc) <=> Turn.class \in Moving) /\ pc \in Active \ {"add"}
  BY DEF Left, Active
<1>2. IsLeft(This, Turn, IF Left(Turn, pc) THEN sample + 1 ELSE sample)
  BY <1>1, LeftInTurn
<1> QED
  BY <1>1, <1>2

(* A reset leaves what the next run is to find. *)
LEMMA WasResetKeepsUses ==
  ASSUME Inv, UsesInv, NEW classes, NEW m, ResetTo(classes, m),
         IsLeft(m, Turn, sample + 1)
  PROVE  UsesInv'
<1>1. /\ pc = "reset" /\ pc' = "add" /\ UNCHANGED loopVars /\ work' = work
      /\ members' = [members EXCEPT ![bench] = m]
  BY DEF ResetTo
<1>2. bench \in DOMAIN members
  BY <1>1, TurnFacts DEF Inv, RunnerInv, ControlInv, Active
<1>3. MemberStep /\ members'[bench] = m
  BY <1>1, <1>2 DEF MemberStep
<1>4. UNCHANGED <<calls, bench, sample, collection>> /\ Turn' = Turn
  BY <1>1 DEF loopVars, Turn
<1>5. RunInv'
  BY <1>1, <1>4 DEF UsesInv, RunInv, Active
<1>6. pc \in Active /\ pc' \in Active \ {"start"} /\ Left(Turn, pc')
  BY <1>1 DEF Active, Left
<1>7. IsLeft(members'[bench], Turn, IF Left(Turn, pc') THEN sample + 1 ELSE sample)
  BY <1>3, <1>6
<1> QED
  BY <1>3, <1>4, <1>5, <1>6, <1>7, UsesInTurn, Zenon

-----------------------------------------------------------------------------
(* The branch benchmarks: as often taken as the sorted list says, which turns   *)
(* the branch the less.                                                      *)
LEMMA BranchRunKeepsUses ==
  ASSUME Inv, UsesInv, BranchRun
  PROVE  UsesInv'
<1> DEFINE list == This.numbers
<1> DEFINE outcome == CountOf(Passes(list), LAMBDA n : n > SIZE_NEEDED_FOR_SUCCESS)
<1> DEFINE shows == Turns(Passes(list))
<1>1. RunOnce(BranchClasses, This, Ascending(list), outcome, shows)
  BY Zenon DEF BranchRun
<1>2. pc = "run" /\ Turn.class \in BranchClasses
  BY <1>1 DEF RunOnce
<1>3. BranchClasses \cap (Looping \cup {"AllocationBench"}) = {} /\ Turn.class \notin Moving
  BY <1>2 DEF BranchClasses, Looping, Moving
<1>4. IsLeft(This, Turn, sample) /\ sample \in Nat
  BY <1>2, <1>3, FoundByRun
<1>5. list \in Seq(Distribution) /\ (Turn.class = "BranchPredictionSorted" => IsAscending(list))
  BY <1>2, <1>4 DEF IsLeft, Holds
<1>6. outcome = Successes(Ascending(list))
  <2>1. Successes(list) = outcome
    BY Zenon DEF Successes
  <2> QED
    BY <1>5, <2>1, AscendingIs
<1>7. Turn.class = "BranchPredictionSorted" => shows <= 2 * iterations - 1
  BY <1>5, NumbersAre, TurnsBound
<1> HIDE DEF list, outcome, shows
<1>8. ASSUME NEW t, Timing(t, Ascending(list), outcome, shows)
      PROVE  Use(t, Turn, sample + 1)
  <2>1. t.did.outcome = Successes(t.did.input)
    BY <1>6, <1>8 DEF Timing
  <2>2. Turn.class = "BranchPredictionSorted" => t.did.shows <= 2 * iterations - 1
    BY <1>7, <1>8 DEF Timing
  <2>3. Does(t, Turn, sample + 1)
    BY <1>2, <2>1, <2>2 DEF Does, BranchClasses, Moving, ArrayFills, QueueTesters
  <2>4. t.allocated = 0 /\ t.freed = 0
    BY <1>8 DEF Timing
  <2> QED
    BY <1>2, <2>3, <2>4 DEF Use, BranchClasses
<1> QED
  BY <1>1, <1>3, <1>4, <1>8, RanKeepsUses

(* The attribute benchmark counts as every version of it does. *)
LEMMA AttributeRunKeepsUses ==
  ASSUME Inv, UsesInv, AttributeRun
  PROVE  UsesInv'
<1> DEFINE list == This.numbers
<1> DEFINE outcome == Counted(Turn.A, Passes(list))
<1>1. RunOnce({"AttributeOptimisation"}, This, list, outcome, 0)
  BY Zenon DEF AttributeRun
<1>2. pc = "run" /\ Turn.class = "AttributeOptimisation"
  BY <1>1 DEF RunOnce
<1>3. {"AttributeOptimisation"} \cap (Looping \cup {"AllocationBench"}) = {} /\ Turn.class \notin Moving
  BY <1>2 DEF Looping, Moving
<1>4. IsLeft(This, Turn, sample) /\ sample \in Nat
  BY <1>2, <1>3, FoundByRun
<1>5. list \in Seq(Int)
  <2>1. list \in Seq(Distribution)
    BY <1>2, <1>4 DEF IsLeft, Holds
  <2> QED
    BY <2>1, NumbersAre
<1>6. outcome = CountedAlike(Passes(list))
  <2>1. Passes(list) \in Seq(Int)
    BY <1>5, PassesType
  <2> QED
    BY <2>1, AttributesAlike
<1> HIDE DEF list, outcome
<1>7. ASSUME NEW t, Timing(t, list, outcome, 0) PROVE Use(t, Turn, sample + 1)
  <2>1. t.did.outcome = CountedAlike(Passes(t.did.input))
    BY <1>6, <1>7 DEF Timing
  <2>2. Does(t, Turn, sample + 1)
    BY <1>2, <2>1 DEF Does, BranchClasses, Moving, ArrayFills, QueueTesters
  <2>3. t.allocated = 0 /\ t.freed = 0
    BY <1>7 DEF Timing
  <2> QED
    BY <1>2, <2>2, <2>3 DEF Use
<1> QED
  BY <1>1, <1>3, <1>4, <1>7, RanKeepsUses

(* The accesses of a vector of any type are those of the same indices. *)
LEMMA AccessRunKeepsUses ==
  ASSUME Inv, UsesInv, AccessRun
  PROVE  UsesInv'
<1> DEFINE input == indices(This)
<1> DEFINE outcome == iterations * numEntities
<1>1. RunOnce({"VectorAccess"}, This, input, outcome, 0)
  BY Zenon DEF AccessRun
<1>2. pc = "run" /\ Turn.class = "VectorAccess"
  BY <1>1 DEF RunOnce
<1>3. {"VectorAccess"} \cap (Looping \cup {"AllocationBench"}) = {} /\ Turn.class \notin Moving
  BY <1>2 DEF Looping, Moving
<1>4. IsLeft(This, Turn, sample) /\ sample \in Nat
  BY <1>2, <1>3, FoundByRun
<1>5. input = indices([seed |-> "10000", drawn |-> numEntities * (sample + 1)])
  <2>1. This = [seed |-> "10000", drawn |-> numEntities * (sample + 1)]
    BY <1>2, <1>4 DEF IsLeft
  <2> QED
    BY <2>1
<1> HIDE DEF input, outcome
<1>6. ASSUME NEW t, Timing(t, input, outcome, 0) PROVE Use(t, Turn, sample + 1)
  <2>1. t.did.outcome = iterations * numEntities
    BY <1>6, Zenon DEF Timing, outcome
  <2>2. Does(t, Turn, sample + 1)
    BY <1>2, <2>1 DEF Does, BranchClasses, Moving, ArrayFills, QueueTesters
  <2>3. t.allocated = 0 /\ t.freed = 0 /\ t.did.input = input
    BY <1>6 DEF Timing
  <2> QED
    BY <1>2, <1>5, <2>2, <2>3 DEF Use
<1> QED
  BY <1>1, <1>3, <1>4, <1>6, RanKeepsUses

-----------------------------------------------------------------------------
(* The iterations before a run, and after it. *)
LEMMA PassesMore ==
  ASSUME NEW n \in Nat
  PROVE  /\ iterations * n \in Nat /\ (n + 1) - 1 = n
         /\ iterations * (n + 1) = iterations * n + iterations
<1>1. iterations \in Nat
  BY RunnerAssumption
<1>2. iterations * (n + 1) = iterations * n + iterations
  BY <1>1, MulSucc
<1> QED
  BY <1>1, <1>2

(* The locations among the arrays. *)
LEMMA ArraysMoved ==
  ASSUME NEW T, NEW c \in Nat
  PROVE  [ArraysAt(T, c) EXCEPT !.x_locs = MovedLocations(T, @)] = ArraysAt(T, c + iterations)
<1> DEFINE locs == MovedLocations(T, All(Coordinate(T, c)))
<1>1. locs = All(Coordinate(T, c + iterations))
  BY LocationsMoved
<1>2. [ArraysAt(T, c) EXCEPT !.x_locs = MovedLocations(T, @)]
        = [attacks |-> All(1), defenses |-> All(1), healths |-> All(1),
           x_locs |-> locs, y_locs |-> All(0), z_locs |-> All(0)]
  BY DEF ArraysAt
<1> HIDE DEF locs
<1> QED
  BY <1>1, <1>2, Zenon DEF ArraysAt

(* What a run over entities did, by either layout, if it moved them on. *)
LEMMA MovedIsUse ==
  ASSUME Turn.class \in Moving, sample \in Nat, NEW t, NEW c, c = iterations * sample,
         Timing(t, ArraysAt(Turn.T, c), ArraysAt(Turn.T, c + iterations), 0)
  PROVE  Use(t, Turn, sample + 1)
<1>1. iterations * ((sample + 1) - 1) = c
  <2>1. (sample + 1) - 1 = sample
    OBVIOUS
  <2> QED
    BY <2>1
<1>2. /\ t.did.input = ArraysAt(Turn.T, iterations * ((sample + 1) - 1))
      /\ t.did.outcome = ArraysAt(Turn.T, iterations * ((sample + 1) - 1) + iterations)
      /\ t.allocated = 0 /\ t.freed = 0
  BY <1>1 DEF Timing
<1>3. Does(t, Turn, sample + 1)
  BY <1>2 DEF Does, BranchClasses, Moving, ArrayFills, QueueTesters
<1> QED
  BY <1>2, <1>3 DEF Use, Moving

(* A run over structures ... *)
LEMMA AOSRunKeepsUses ==
  ASSUME Inv, UsesInv, AOSRun
  PROVE  UsesInv'
<1> DEFINE after == [entities |-> MovedEntities(Turn.T, This.entities)]
<1> DEFINE c == iterations * sample
<1>1. RunOnce({"AOS"}, after, Columns(This), Columns(after), 0)
  BY Zenon DEF AOSRun
<1>2. pc = "run" /\ Turn.class = "AOS"
  BY <1>1 DEF RunOnce
<1>3. {"AOS"} \cap (Looping \cup {"AllocationBench"}) = {} /\ Turn.class \in Moving
  BY <1>2 DEF Looping, Moving
<1>4. IsLeft(This, Turn, sample) /\ sample \in Nat
  BY <1>2, FoundByRun DEF Looping
<1>5. This = [entities |-> All(EntityAt(Turn.T, c))]
  BY <1>2, <1>4 DEF IsLeft, Holds
<1>6. c \in Nat /\ c + iterations = iterations * (sample + 1) /\ c + iterations \in Nat
  BY <1>4, PassesMore, RunnerAssumption
<1>a. c = iterations * sample
  OBVIOUS
<1> HIDE DEF c
<1>7. after = [entities |-> All(EntityAt(Turn.T, c + iterations))]
  <2>1. This.entities = All(EntityAt(Turn.T, c))
    BY <1>5
  <2> QED
    BY <1>6, <2>1, EntitiesMoved
<1> HIDE DEF after
<1>8. Columns(This) = ArraysAt(Turn.T, c) /\ Columns(after) = ArraysAt(Turn.T, c + iterations)
  BY <1>5, <1>6, <1>7, ColumnsAre
<1>9. IsLeft(after, Turn, sample + 1)
  <2>1. after = [entities |-> All(EntityAt(Turn.T, iterations * (sample + 1)))]
    BY <1>6, <1>7
  <2>2. Holds(after, Turn, sample + 1)
    BY <1>2, <2>1 DEF Holds, BranchClasses, ArrayFills
  <2> QED
    BY <1>2, <2>2 DEF IsLeft
<1>10. \A t : Timing(t, Columns(This), Columns(after), 0) => Use(t, Turn, sample + 1)
  BY <1>3, <1>4, <1>a, <1>8, MovedIsUse
<1> QED
  BY <1>1, <1>3, <1>9, <1>10, RanKeepsUses

(* ... and one over arrays move the same. *)
LEMMA SOARunKeepsUses ==
  ASSUME Inv, UsesInv, SOARun
  PROVE  UsesInv'
<1> DEFINE after == [This EXCEPT !.x_locs = MovedLocations(Turn.T, @)]
<1> DEFINE c == iterations * sample
<1>1. RunOnce({"SOA"}, after, This, after, 0)
  BY Zenon DEF SOARun
<1>2. pc = "run" /\ Turn.class = "SOA"
  BY <1>1 DEF RunOnce
<1>3. {"SOA"} \cap (Looping \cup {"AllocationBench"}) = {} /\ Turn.class \in Moving
  BY <1>2 DEF Looping, Moving
<1>4. IsLeft(This, Turn, sample) /\ sample \in Nat
  BY <1>2, FoundByRun DEF Looping
<1>5. This = ArraysAt(Turn.T, c)
  BY <1>2, <1>4 DEF IsLeft, Holds
<1>6. c \in Nat /\ c + iterations = iterations * (sample + 1)
  BY <1>4, PassesMore
<1>a. c = iterations * sample
  OBVIOUS
<1> HIDE DEF c
<1>7. after = ArraysAt(Turn.T, c + iterations)
  <2>1. after = [ArraysAt(Turn.T, c) EXCEPT !.x_locs = MovedLocations(Turn.T, @)]
    BY <1>5
  <2> HIDE DEF after
  <2> QED
    BY <1>6, <2>1, ArraysMoved
<1> HIDE DEF after
<1>8. IsLeft(after, Turn, sample + 1)
  <2>1. after = ArraysAt(Turn.T, iterations * (sample + 1))
    BY <1>6, <1>7
  <2>2. Holds(after, Turn, sample + 1)
    BY <1>2, <2>1 DEF Holds, BranchClasses, ArrayFills
  <2> QED
    BY <1>2, <2>2 DEF IsLeft
<1>9. \A t : Timing(t, This, after, 0) => Use(t, Turn, sample + 1)
  BY <1>3, <1>4, <1>5, <1>7, <1>a, MovedIsUse
<1> QED
  BY <1>1, <1>3, <1>8, <1>9, RanKeepsUses

-----------------------------------------------------------------------------
(* A write shows the lines of its bytes. *)
LEMMA ArrayWriteRunKeepsUses ==
  ASSUME Inv, UsesInv, ArrayWriteRun
  PROVE  UsesInv'
<1> DEFINE m == [other |-> This.other \cup Written(Turn)]
<1> DEFINE shows == {byte \div 64 : byte \in Written(Turn)}
<1>1. RunOnce({"ArrayWrite"}, m, Turn.AccessIndex, Written(Turn), shows)
  BY Zenon DEF ArrayWriteRun
<1>2. pc = "run" /\ Turn.class = "ArrayWrite"
  BY <1>1 DEF RunOnce
<1>3. {"ArrayWrite"} \cap (Looping \cup {"AllocationBench"}) = {} /\ Turn.class \notin Moving
  BY <1>2 DEF Looping, Moving
<1>a. shows = {byte \div 64 : byte \in Written(Turn)}
  OBVIOUS
<1> HIDE DEF m, shows
<1>4. IsLeft(m, Turn, sample)
  BY <1>2 DEF IsLeft, Holds, BranchClasses, ArrayFills
<1>5. ASSUME NEW t, Timing(t, Turn.AccessIndex, Written(Turn), shows)
      PROVE  Use(t, Turn, sample + 1)
  <2>1. t.did.shows = {byte \div 64 : byte \in Written(Turn)}
    BY <1>5, <1>a, Zenon DEF Timing
  <2>2. Does(t, Turn, sample + 1)
    <3> DEFINE lines == {byte \div 64 : byte \in Written(Turn)}
    <3> HIDE DEF lines
    <3>1. t.did.shows = lines
      BY <2>1 DEF lines
    <3>2. /\ Turn.class \notin BranchClasses \cup Moving \cup ArrayFills \cup QueueTesters
          /\ Turn.class # "BranchPredictionSorted" /\ Turn.class # "AttributeOptimisation"
          /\ Turn.class # "VectorAccess" /\ Turn.class # "ExecutionPolicies"
      BY <1>2 DEF BranchClasses, Moving, ArrayFills, QueueTesters
    <3> QED
      BY <3>1, <3>2, Zenon DEF Does, lines
  <2>3. t.allocated = 0 /\ t.freed = 0
    BY <1>5 DEF Timing
  <2> QED
    BY <1>2, <2>2, <2>3 DEF Use
<1> QED
  BY <1>1, <1>3, <1>4, <1>5, RanKeepsUses

(* Under every policy the coordinates end in the same places. *)
LEMMA PolicyRunKeepsUses ==
  ASSUME Inv, UsesInv, PolicyRun
  PROVE  UsesInv'
<1> DEFINE after == Transformed(Turn.P, This)
<1> DEFINE m == [This EXCEPT !.pos = after]
<1>1. RunOnce({"ExecutionPolicies"}, m, This, after, 0)
  BY Zenon DEF PolicyRun
<1>2. pc = "run" /\ Turn.class = "ExecutionPolicies"
  BY <1>1 DEF RunOnce
<1>3. {"ExecutionPolicies"} \cap (Looping \cup {"AllocationBench"}) = {} /\ Turn.class \notin Moving
  BY <1>2 DEF Looping, Moving
<1>4. IsLeft(This, Turn, sample) /\ sample \in Nat
  BY <1>2, FoundByRun DEF Looping
<1>5. /\ This = [transform |-> This.transform, pos |-> This.pos]
      /\ This.transform \in Transforms /\ This.pos \in Positions
  BY <1>2, <1>4, Zenon DEF IsLeft, Holds
<1>6. \A axis \in 1 .. 3 : This.transform[axis] \in Moves
  BY <1>5 DEF Moves
<1>7. after = TransformedAlike(This) /\ after \in Positions
  BY <1>5, <1>6, PoliciesAlike
<1> HIDE DEF after
<1>8. m = [transform |-> This.transform, pos |-> after]
  BY <1>5
<1> HIDE DEF m
<1>9. IsLeft(m, Turn, sample)
  <2>1. m.transform = This.transform /\ m.pos = after
    BY <1>8
  <2>2. m = [transform |-> m.transform, pos |-> m.pos]
    BY <1>8, <2>1, Zenon
  <2>3. m.transform \in Transforms /\ m.pos \in Positions
    BY <1>5, <1>7, <2>1
  <2>4. Holds(m, Turn, sample)
    BY <1>2, <2>2, <2>3 DEF Holds, BranchClasses, ArrayFills
  <2> QED
    BY <1>2, <2>4 DEF IsLeft
<1>10. ASSUME NEW t, Timing(t, This, after, 0) PROVE Use(t, Turn, sample + 1)
  <2>1. t.did.outcome = TransformedAlike(t.did.input)
    BY <1>7, <1>10 DEF Timing
  <2>2. Does(t, Turn, sample + 1)
    BY <1>2, <2>1 DEF Does, BranchClasses, Moving, ArrayFills, QueueTesters
  <2>3. t.allocated = 0 /\ t.freed = 0
    BY <1>10 DEF Timing
  <2> QED
    BY <1>2, <2>2, <2>3 DEF Use
<1> QED
  BY <1>1, <1>3, <1>9, <1>10, RanKeepsUses

-----------------------------------------------------------------------------
(* The generators go on in their sequence. *)
LEMMA NumbersRunKeepsUses ==
  ASSUME Inv, UsesInv, NumbersRun
  PROVE  UsesInv'
<1> DEFINE m == [This EXCEPT !.made = @ + iterations]
<1> DEFINE classes == {"Xoroshiro128plus", "MersenneTwister"}
<1>1. RunOnce(classes, m, This, iterations, 0)
  BY Zenon DEF NumbersRun
<1>2. pc = "run" /\ Turn.class \in classes
  BY <1>1 DEF RunOnce
<1>3. classes \cap (Looping \cup {"AllocationBench"}) = {} /\ Turn.class \notin Moving
      /\ Turn.class \notin Looping
  BY <1>2 DEF Looping, Moving
<1>4. IsLeft(This, Turn, sample) /\ sample \in Nat
  BY <1>2, <1>3, FoundByRun
<1>5. Turn.class = "Xoroshiro128plus" =>
        This = [seeding |-> sample, made |-> This.made] /\ This.seeding = sample
  BY <1>4 DEF IsLeft
<1>6. Turn.class = "Xoroshiro128plus" => m = [seeding |-> sample, made |-> m.made]
  BY <1>5
<1> HIDE DEF m
<1>7. IsLeft(m, Turn, sample)
  BY <1>2, <1>6 DEF IsLeft, Holds, BranchClasses, ArrayFills
<1>8. ASSUME NEW t, Timing(t, This, iterations, 0) PROVE Use(t, Turn, sample + 1)
  <2>1. t.allocated = 0 /\ t.freed = 0 /\ t.did.input = This /\ (sample + 1) - 1 = sample
    BY <1>4, <1>8 DEF Timing
  <2>2. Does(t, Turn, sample + 1)
    BY <1>2 DEF Does, BranchClasses, Moving, ArrayFills, QueueTesters
  <2> QED
    BY <1>2, <1>5, <2>1, <2>2 DEF Use
<1> HIDE DEF classes
<1> QED
  BY <1>1, <1>3, <1>7, <1>8, RanKeepsUses

(* A fill leaves no number of another. *)
LEMMA FillRunKeepsUses ==
  ASSUME Inv, UsesInv, FillRun
  PROVE  UsesInv'
<1> DEFINE m == [This EXCEPT !.made = AllFilled.made]
<1> DEFINE shows == {AllFilled.a[j][1] : j \in 1 .. N}
<1>1. RunOnce(ArrayFills, m, This, iterations * N, shows)
  BY Zenon DEF FillRun
<1>2. pc = "run" /\ Turn.class \in ArrayFills
  BY <1>1 DEF RunOnce
<1>3. ArrayFills \cap (Looping \cup {"AllocationBench"}) = {} /\ Turn.class \notin Moving
      /\ Turn.class \notin Looping
  BY <1>2 DEF ArrayFills, Looping, Moving
<1>4. IsLeft(This, Turn, sample) /\ sample \in Nat
  BY <1>2, <1>3, FoundByRun
<1>5. This = [seeding |-> This.seeding, made |-> This.made] /\ This.made \in Nat
  BY <1>2, <1>4, Zenon DEF IsLeft, Holds
<1>6. AllFilled.made \in Nat /\ shows = {bench}
  BY <1>5, FillsWhole
<1>7. m = [seeding |-> This.seeding, made |-> AllFilled.made]
  BY <1>5
<1> DEFINE outcome == iterations * N
<1> HIDE DEF m, shows, outcome
<1>8. IsLeft(m, Turn, sample)
  <2>1. m = [seeding |-> m.seeding, made |-> m.made] /\ m.made \in Nat
    BY <1>6, <1>7
  <2>2. Holds(m, Turn, sample)
    BY <1>2, <2>1 DEF Holds, BranchClasses, ArrayFills
  <2> QED
    BY <1>2, <2>2 DEF IsLeft, ArrayFills
<1>9. bench \in Nat \ {0}
  BY TurnFacts DEF Inv, RunnerInv, ControlInv
<1>10. ASSUME NEW t, Timing(t, This, outcome, shows) PROVE Use(t, Turn, sample + 1)
  <2>1. t.did.shows = {bench}
    BY <1>6, <1>10 DEF Timing
  <2>2. \E k \in Nat \ {0} : t.did.shows = {k}
    BY <1>9, <2>1
  <2>3. /\ Turn.class \notin BranchClasses \cup Moving \cup QueueTesters
        /\ Turn.class # "BranchPredictionSorted" /\ Turn.class # "AttributeOptimisation"
        /\ Turn.class # "VectorAccess" /\ Turn.class # "ExecutionPolicies"
        /\ Turn.class # "ArrayWrite"
    BY <1>2 DEF BranchClasses, Moving, ArrayFills, QueueTesters
  <2>4. Does(t, Turn, sample + 1)
    BY <2>2, <2>3, Zenon DEF Does
  <2>5. t.allocated = 0 /\ t.freed = 0
    BY <1>10 DEF Timing
  <2> QED
    BY <1>2, <2>4, <2>5 DEF Use, ArrayFills
<1>11. RunOnce(ArrayFills, m, This, outcome, shows)
  BY <1>1 DEF outcome
<1> QED
  BY <1>3, <1>4, <1>8, <1>10, <1>11, RanKeepsUses

(* The queues pass what their pairs of threads push. *)
LEMMA QueueRunKeepsUses ==
  ASSUME Inv, UsesInv, QueueRun
  PROVE  UsesInv'
<1> DEFINE outcome == Turn.numPairs * iterations
<1>1. RunOnce(QueueTesters, This, This.inside, outcome, 0)
  BY Zenon DEF QueueRun
<1>2. pc = "run" /\ Turn.class \in QueueTesters
  BY <1>1 DEF RunOnce
<1>3. QueueTesters \cap (Looping \cup {"AllocationBench"}) = {} /\ Turn.class \notin Moving
  BY <1>2 DEF QueueTesters, Looping, Moving
<1>a. outcome = Turn.numPairs * iterations
  OBVIOUS
<1> HIDE DEF outcome
<1>4. IsLeft(This, Turn, sample)
  BY <1>2 DEF IsLeft, Holds, BranchClasses, ArrayFills, QueueTesters
<1>5. ASSUME NEW t, Timing(t, This.inside, outcome, 0) PROVE Use(t, Turn, sample + 1)
  <2>1. t.did.outcome = Turn.numPairs * iterations
    BY <1>5, <1>a, Zenon DEF Timing
  <2>2. Does(t, Turn, sample + 1)
    BY <1>2, <2>1 DEF Does, BranchClasses, Moving, ArrayFills, QueueTesters
  <2>3. t.allocated = 0 /\ t.freed = 0
    BY <1>5 DEF Timing
  <2> QED
    BY <1>2, <2>2, <2>3 DEF Use, QueueTesters
<1> QED
  BY <1>1, <1>3, <1>4, <1>5, RanKeepsUses

-----------------------------------------------------------------------------
(* A list that is drawn is one of the distribution, sorted where it is to be. *)
LEMMA DrawnIs ==
  ASSUME NEW b, NEW list \in Drawn(b)
  PROVE  /\ list \in Seq(Distribution)
         /\ b.class = "BranchPredictionSorted" => IsAscending(list)
<1>1. CASE b.class = "BranchPredictionSorted"
  <2>1. PICK l \in Lists : list = Ascending(l)
    BY <1>1 DEF Drawn
  <2>2. l \in Seq(Distribution)
    BY ListsAssumption
  <2> QED
    BY <2>1, <2>2, AscendingIs
<1>2. CASE b.class # "BranchPredictionSorted"
  <2>1. list \in Lists
    BY <1>2 DEF Drawn
  <2> QED
    BY <1>2, <2>1, ListsAssumption
<1> QED
  BY <1>1, <1>2

(* A benchable holds the numbers it drew. *)
LEMMA DrawnLeft ==
  ASSUME NEW b, b.class \in BranchClasses \cup {"AttributeOptimisation"},
         NEW list \in Drawn(b), NEW r
  PROVE  IsLeft([numbers |-> list], b, r)
<1> DEFINE m == [numbers |-> list]
<1>1. m.numbers = list
  OBVIOUS
<1> HIDE DEF m
<1>2. Holds(m, b, r)
  BY <1>1, DrawnIs DEF Holds, BranchClasses, ArrayFills
<1>3. IsLeft(m, b, r)
  BY <1>2 DEF IsLeft, BranchClasses
<1> QED
  BY <1>3 DEF m

(* Each class's resetBenchmark: one reset further in the sequence. *)
LEMMA ResetsKeepUses ==
  ASSUME Inv, UsesInv,
         \/ VectorReset \/ DrawNumbers \/ AccessReset \/ ArrayWriteReset \/ PolicyReset
         \/ Reseed \/ Jump \/ QueueReset \/ ResetNothing
  PROVE  UsesInv'
<1>1. ASSUME NEW classes, NEW m, ResetTo(classes, m), "VectorWrapper" \notin classes
      PROVE  IsLeft(This, Turn, IF Turn.class \in Moving THEN sample + 1 ELSE sample)
  <2>1. pc = "reset" /\ Turn.class # "VectorWrapper"
    BY <1>1 DEF ResetTo
  <2> QED
    BY <2>1, FoundByReset
<1>2. ASSUME NEW classes, NEW m, ResetTo(classes, m)
      PROVE  Turn.class \in classes /\ sample \in Nat
  BY <1>2 DEF ResetTo, Inv, RunnerInv, ControlInv, Active
<1>3. CASE VectorReset
  <2>1. ResetTo({"VectorWrapper"}, Cleared(Turn)) /\ Turn.class = "VectorWrapper"
    BY <1>2, <1>3 DEF VectorReset
  <2>2. IsLeft(Cleared(Turn), Turn, sample + 1)
    BY <2>1 DEF IsLeft, Holds, BranchClasses, ArrayFills
  <2> QED
    BY <2>1, <2>2, WasResetKeepsUses
<1>4. CASE DrawNumbers
  <2>1. PICK list \in Drawn(Turn) :
          ResetTo(BranchClasses \cup {"AttributeOptimisation"}, [numbers |-> list])
    BY <1>4 DEF DrawNumbers
  <2>2. IsLeft([numbers |-> list], Turn, sample + 1)
    BY <1>2, <2>1, DrawnLeft
  <2> QED
    BY <2>1, <2>2, WasResetKeepsUses
<1>5. CASE AccessReset
  <2> DEFINE m == [This EXCEPT !.drawn = @ + numEntities]
  <2>1. ResetTo({"VectorAccess"}, m)
    BY <1>5 DEF AccessReset
  <2>2. Turn.class = "VectorAccess" /\ sample \in Nat /\ numEntities \in Nat
    BY <1>2, <2>1, WorkloadAssumption
  <2>3. This = [seed |-> "10000", drawn |-> numEntities * (sample + 1)]
    <3>1. IsLeft(This, Turn, IF Turn.class \in Moving THEN sample + 1 ELSE sample)
          /\ Turn.class \notin Moving
      BY <1>1, <2>1, <2>2 DEF Moving
    <3> QED
      BY <2>2, <3>1 DEF IsLeft
  <2>4. numEntities * (sample + 1) + numEntities = numEntities * ((sample + 1) + 1)
    BY <2>2, MulSucc
  <2>5. m = [seed |-> "10000", drawn |-> numEntities * (sample + 1) + numEntities]
    BY <2>3
  <2> HIDE DEF m
  <2>6. Holds(m, Turn, sample + 1)
    BY <2>2 DEF Holds, BranchClasses, ArrayFills
  <2>7. IsLeft(m, Turn, sample + 1)
    BY <2>2, <2>4, <2>5, <2>6 DEF IsLeft
  <2> QED
    BY <2>1, <2>7, WasResetKeepsUses
<1>6. CASE ArrayWriteReset
  <2>1. ResetTo({"ArrayWrite"}, [other |-> {}]) /\ Turn.class = "ArrayWrite"
    BY <1>2, <1>6 DEF ArrayWriteReset
  <2>2. IsLeft([other |-> {}], Turn, sample + 1)
    BY <2>1 DEF IsLeft, Holds, BranchClasses, ArrayFills
  <2> QED
    BY <2>1, <2>2, WasResetKeepsUses
<1>7. CASE PolicyReset
  <2>1. PICK t \in Transforms : ResetTo({"ExecutionPolicies"}, [This EXCEPT !.transform = t])
    BY <1>7 DEF PolicyReset
  <2> DEFINE m == [This EXCEPT !.transform = t]
  <2>2. Turn.class = "ExecutionPolicies"
    BY <1>2, <2>1
  <2>3. IsLeft(This, Turn, sample)
    BY <1>1, <2>1, <2>2 DEF Moving
  <2>4. This = [transform |-> This.transform, pos |-> This.pos] /\ This.pos \in Positions
    BY <2>2, <2>3, Zenon DEF IsLeft, Holds
  <2>5. m = [transform |-> t, pos |-> This.pos]
    BY <2>4
  <2>6. ResetTo({"ExecutionPolicies"}, m)
    BY <2>1
  <2> HIDE DEF m
  <2>7. m.transform = t /\ m.pos = This.pos
    BY <2>5
  <2>8. m = [transform |-> m.transform, pos |-> m.pos]
    BY <2>5, <2>7, Zenon
  <2>9. Holds(m, Turn, sample + 1)
    BY <2>2, <2>4, <2>7, <2>8 DEF Holds, BranchClasses, ArrayFills
  <2>10. IsLeft(m, Turn, sample + 1)
    BY <2>2, <2>9 DEF IsLeft
  <2> QED
    BY <2>6, <2>10, WasResetKeepsUses
<1>8. CASE Reseed
  <2> DEFINE m == [seeding |-> This.seeding + 1, made |-> 0]
  <2>1. ResetTo({"MersenneTwister", "MersenneTwisterArrayFill"}, m)
    BY <1>8 DEF Reseed
  <2>2. Turn.class \in {"MersenneTwister", "MersenneTwisterArrayFill"}
    BY <1>2, <2>1
  <2>3. m = [seeding |-> m.seeding, made |-> m.made] /\ m.made \in Nat
    OBVIOUS
  <2> HIDE DEF m
  <2>4. Holds(m, Turn, sample + 1)
    BY <2>2, <2>3 DEF Holds, BranchClasses, ArrayFills
  <2>5. IsLeft(m, Turn, sample + 1)
    BY <2>2, <2>4 DEF IsLeft
  <2> QED
    BY <2>1, <2>5, WasResetKeepsUses
<1>9. CASE Jump
  <2> DEFINE m == [This EXCEPT !.seeding = @ + 1]
  <2>1. ResetTo({"Xoroshiro128plus"}, m)
    BY <1>9 DEF Jump
  <2>2. Turn.class = "Xoroshiro128plus"
    BY <1>2, <2>1
  <2>3. IsLeft(This, Turn, sample)
    BY <1>1, <2>1, <2>2 DEF Moving
  <2>4. This = [seeding |-> sample, made |-> This.made]
    BY <2>2, <2>3 DEF IsLeft
  <2>5. m = [seeding |-> sample + 1, made |-> m.made]
    BY <2>4
  <2> HIDE DEF m
  <2>6. Holds(m, Turn, sample + 1)
    BY <2>2 DEF Holds, BranchClasses, ArrayFills
  <2>7. IsLeft(m, Turn, sample + 1)
    BY <2>2, <2>5, <2>6 DEF IsLeft
  <2> QED
    BY <2>1, <2>7, WasResetKeepsUses
<1>10. CASE QueueReset
  <2> DEFINE m == [inside |-> <<>>]
  <2>1. ResetTo(QueueTesters, m) /\ Turn.class \in QueueTesters
    BY <1>2, <1>10 DEF QueueReset
  <2> HIDE DEF m
  <2>2. IsLeft(m, Turn, sample + 1)
    BY <2>1 DEF IsLeft, Holds, BranchClasses, ArrayFills, QueueTesters
  <2> QED
    BY <2>1, <2>2, WasResetKeepsUses
<1>11. CASE ResetNothing
  <2>1. ResetTo(Resetless, This)
    BY <1>11 DEF ResetNothing
  <2>2. Turn.class \in Resetless /\ "VectorWrapper" \notin Resetless
    BY <1>2, <2>1 DEF Resetless
  <2>3. IsLeft(This, Turn, IF Turn.class \in Moving THEN sample + 1 ELSE sample)
    BY <1>1, <2>1, <2>2
  <2>4. IsLeft(This, Turn, sample + 1)
    <3>1. CASE Turn.class \in Moving
      BY <2>3, <3>1
    <3>2. CASE Turn.class \notin Moving
      BY <2>2, <2>3, <3>2 DEF IsLeft, Holds, BranchClasses, ArrayFills, Moving, Resetless
    <3> QED
      BY <3>1, <3>2
  <2> QED
    BY <2>1, <2>4, WasResetKeepsUses
<1> QED
  BY <1>3, <1>4, <1>5, <1>6, <1>7, <1>8, <1>9, <1>10, <1>11

-----------------------------------------------------------------------------
(* The constructors of the classes that IsLeft is about. *)
LEMMA MembersByClass ==
  ASSUME NEW b
  PROVE  /\ b.class = "VectorWrapper" => MembersOf(b) = {Cleared(b)}
         /\ b.class = "StringRunner" => MembersOf(b) = {Spaces(b)}
         /\ b.class \in BranchClasses \cup {"AttributeOptimisation"} =>
              MembersOf(b) = {[numbers |-> list] : list \in Drawn(b)}
         /\ b.class = "VectorAccess" => MembersOf(b) = {Seeded(b)}
         /\ b.class = "AOS" => MembersOf(b) = {[entities |-> NewEntities]}
         /\ b.class = "SOA" => MembersOf(b) = {NewArrays}
         /\ b.class = "ExecutionPolicies" => MembersOf(b) = {AtOrigin(t) : t \in Transforms}
         /\ b.class \in ArrayFills \cup {"Xoroshiro128plus"} => MembersOf(b) = {Unused}
<1> DEFINE cl == b.class
<1> DEFINE numbers == BranchClasses \cup {"AttributeOptimisation"}
<1> DEFINE generators == ArrayFills \cup {"Xoroshiro128plus", "MersenneTwister"}
<1>1. cl # "AllocationBench" => MembersOf(b) = WorkloadMembers(b)
  BY Zenon DEF MembersOf, IsAllocation
<1>2. ASSUME cl = "VectorWrapper" PROVE MembersOf(b) = {Cleared(b)}
  <2>1. /\ cl # "StringRunner" /\ cl \notin numbers /\ cl # "VectorAccess" /\ cl # "AOS"
        /\ cl # "SOA" /\ cl # "ArrayWrite" /\ cl # "ExecutionPolicies" /\ cl \notin generators
        /\ cl \notin QueueTesters /\ cl # "AllocationBench"
    BY <1>2 DEF BranchClasses, ArrayFills, QueueTesters
  <2> QED
    BY <1>1, <1>2, <2>1, Zenon DEF WorkloadMembers
<1>3. ASSUME cl = "StringRunner" PROVE MembersOf(b) = {Spaces(b)}
  <2>1. /\ cl # "VectorWrapper" /\ cl \notin numbers /\ cl # "VectorAccess" /\ cl # "AOS"
        /\ cl # "SOA" /\ cl # "ArrayWrite" /\ cl # "ExecutionPolicies" /\ cl \notin generators
        /\ cl \notin QueueTesters /\ cl # "AllocationBench"
    BY <1>3 DEF BranchClasses, ArrayFills, QueueTesters
  <2> QED
    BY <1>1, <1>3, <2>1, Zenon DEF WorkloadMembers
<1>4. ASSUME cl \in numbers PROVE MembersOf(b) = {[numbers |-> list] : list \in Drawn(b)}
  <2>1. /\ cl # "VectorWrapper" /\ cl # "StringRunner" /\ cl # "VectorAccess" /\ cl # "AOS"
        /\ cl # "SOA" /\ cl # "ArrayWrite" /\ cl # "ExecutionPolicies" /\ cl \notin generators
        /\ cl \notin QueueTesters /\ cl # "AllocationBench"
    BY <1>4 DEF BranchClasses, ArrayFills, QueueTesters
  <2> QED
    BY <1>1, <1>4, <2>1, Zenon DEF WorkloadMembers
<1>5. ASSUME cl = "VectorAccess" PROVE MembersOf(b) = {Seeded(b)}
  <2>1. /\ cl # "VectorWrapper" /\ cl # "StringRunner" /\ cl \notin numbers /\ cl # "AOS"
        /\ cl # "SOA" /\ cl # "ArrayWrite" /\ cl # "ExecutionPolicies" /\ cl \notin generators
        /\ cl \notin QueueTesters /\ cl # "AllocationBench"
    BY <1>5 DEF BranchClasses, ArrayFills, QueueTesters
  <2> QED
    BY <1>1, <1>5, <2>1, Zenon DEF WorkloadMembers
<1>6. ASSUME cl = "AOS" PROVE MembersOf(b) = {[entities |-> NewEntities]}
  <2>1. /\ cl # "VectorWrapper" /\ cl # "StringRunner" /\ cl \notin numbers
        /\ cl # "VectorAccess" /\ cl # "SOA" /\ cl # "ArrayWrite" /\ cl # "ExecutionPolicies"
        /\ cl \notin generators /\ cl \notin QueueTesters /\ cl # "AllocationBench"
    BY <1>6 DEF BranchClasses, ArrayFills, QueueTesters
  <2> QED
    BY <1>1, <1>6, <2>1, Zenon DEF WorkloadMembers
<1>7. ASSUME cl = "SOA" PROVE MembersOf(b) = {NewArrays}
  <2>1. /\ cl # "VectorWrapper" /\ cl # "StringRunner" /\ cl \notin numbers
        /\ cl # "VectorAccess" /\ cl # "AOS" /\ cl # "ArrayWrite" /\ cl # "ExecutionPolicies"
        /\ cl \notin generators /\ cl \notin QueueTesters /\ cl # "AllocationBench"
    BY <1>7 DEF BranchClasses, ArrayFills, QueueTesters
  <2> QED
    BY <1>1, <1>7, <2>1, Zenon DEF WorkloadMembers
<1>8. ASSUME cl = "ExecutionPolicies" PROVE MembersOf(b) = {AtOrigin(t) : t \in Transforms}
  <2>1. /\ cl # "VectorWrapper" /\ cl # "StringRunner" /\ cl \notin numbers
        /\ cl # "VectorAccess" /\ cl # "AOS" /\ cl # "SOA" /\ cl # "ArrayWrite"
        /\ cl \notin generators /\ cl \notin QueueTesters /\ cl # "AllocationBench"
    BY <1>8 DEF BranchClasses, ArrayFills, QueueTesters
  <2> QED
    BY <1>1, <1>8, <2>1, Zenon DEF WorkloadMembers
<1>9. ASSUME cl \in ArrayFills \cup {"Xoroshiro128plus"} PROVE MembersOf(b) = {Unused}
  <2>1. /\ cl # "VectorWrapper" /\ cl # "StringRunner" /\ cl \notin numbers
        /\ cl # "VectorAccess" /\ cl # "AOS" /\ cl # "SOA" /\ cl # "ArrayWrite"
        /\ cl # "ExecutionPolicies" /\ cl \in generators
        /\ cl \notin QueueTesters /\ cl # "AllocationBench"
    BY <1>9 DEF BranchClasses, ArrayFills, QueueTesters
  <2> QED
    BY <1>1, <1>9, <2>1, Zenon DEF WorkloadMembers
<1> QED
  BY <1>2, <1>3, <1>4, <1>5, <1>6, <1>7, <1>8, <1>9

(* What they leave no reset has touched. *)
LEMMA MadeLeft ==
  ASSUME NEW b, NEW m, m \in MembersOf(b)
  PROVE  IsLeft(m, b, 0)
<1>0. iterations * 0 = 0 /\ numEntities * (0 + 1) = numEntities
  BY RunnerAssumption, WorkloadAssumption
<1>1. CASE b.class = "VectorWrapper"
  BY <1>1, MembersByClass DEF IsLeft, Holds, BranchClasses, ArrayFills
<1>2. CASE b.class = "StringRunner"
  BY <1>2, MembersByClass DEF IsLeft, Holds, BranchClasses, ArrayFills
<1>3. CASE b.class \in BranchClasses \cup {"AttributeOptimisation"}
  <2>1. PICK list \in Drawn(b) : m = [numbers |-> list]
    BY <1>3, MembersByClass
  <2> QED
    BY <1>3, <2>1, DrawnLeft
<1>4. CASE b.class = "VectorAccess"
  <2>1. m = Seeded(b)
    BY <1>4, MembersByClass
  <2>2. m = [seed |-> "10000", drawn |-> numEntities * (0 + 1)]
    BY <1>0, <2>1, Zenon DEF Seeded
  <2>3. Holds(m, b, 0)
    BY <1>4 DEF Holds, BranchClasses, ArrayFills
  <2> QED
    BY <1>4, <2>2, <2>3 DEF IsLeft
<1>5. CASE b.class = "AOS"
  <2>1. m = [entities |-> NewEntities]
    BY <1>5, MembersByClass
  <2>2. EntityAt(b.T, 0) = [attack |-> 1, defense |-> 1, health |-> 1, x |-> 0, y |-> 0, z |-> 0]
    BY NotMovedYet DEF EntityAt
  <2>3. m = [entities |-> All(EntityAt(b.T, iterations * 0))]
    BY <1>0, <2>1, <2>2, Zenon DEF NewEntities
  <2>4. Holds(m, b, 0)
    BY <1>5, <2>3 DEF Holds, BranchClasses, ArrayFills
  <2> QED
    BY <1>5, <2>4 DEF IsLeft
<1>6. CASE b.class = "SOA"
  <2>1. m = NewArrays
    BY <1>6, MembersByClass
  <2>2. m = ArraysAt(b.T, iterations * 0)
    BY <1>0, <2>1, NotMovedYet, Zenon DEF NewArrays, ArraysAt
  <2>3. Holds(m, b, 0)
    BY <1>6, <2>2 DEF Holds, BranchClasses, ArrayFills
  <2> QED
    BY <1>6, <2>3 DEF IsLeft
<1>7. CASE b.class = "ExecutionPolicies"
  <2>1. PICK t \in Transforms : m = AtOrigin(t)
    BY <1>7, MembersByClass
  <2> DEFINE origin == [axis \in 1 .. 3 |-> All(<<>>)]
  <2>2. origin \in Positions
    BY EmptySeq DEF Positions, All
  <2>3. m = [transform |-> t, pos |-> origin]
    BY <2>1 DEF AtOrigin
  <2> HIDE DEF origin
  <2>4. m.transform = t /\ m.pos = origin
    BY <2>3
  <2>5. m = [transform |-> m.transform, pos |-> m.pos]
    BY <2>3, <2>4, Zenon
  <2>6. Holds(m, b, 0)
    BY <1>7, <2>2, <2>4, <2>5 DEF Holds, BranchClasses, ArrayFills
  <2> QED
    BY <1>7, <2>6 DEF IsLeft
<1>8. CASE b.class \in ArrayFills \cup {"Xoroshiro128plus"}
  <2>1. m = [seeding |-> 0, made |-> 0]
    BY <1>8, MembersByClass DEF Unused
  <2>2. m = [seeding |-> m.seeding, made |-> m.made] /\ m.made = 0 /\ m.seeding = 0
    BY <2>1
  <2>3. Holds(m, b, 0)
    BY <1>8, <2>2 DEF Holds, BranchClasses, ArrayFills
  <2> QED
    BY <1>8, <2>2, <2>3 DEF IsLeft, ArrayFills
<1>9. CASE b.class \notin {"VectorWrapper", "StringRunner", "VectorAccess", "AOS", "SOA",
                           "ExecutionPolicies", "Xoroshiro128plus", "AttributeOptimisation"}
                          \cup BranchClasses \cup ArrayFills
  BY <1>9 DEF IsLeft, Holds, BranchClasses
<1> QED
  BY <1>1, <1>2, <1>3, <1>4, <1>5, <1>6, <1>7, <1>8, <1>9

(* Constructors leave members before the first reset. *)
LEMMA ConstructKeepsUses ==
  ASSUME Inv, UsesInv, Construct(Made(calls[1]))
  PROVE  UsesInv'
<1>1. /\ pc = "construct" /\ pc' = "start" /\ calls' = calls /\ bench' = bench /\ sample' = sample
      /\ collection' = collection /\ members' \in Made(calls[1])
  BY DEF Construct
<1>2. sample = 0 /\ bench = 1
  BY <1>1 DEF Inv, RunnerInv, ControlInv
<1>3. TimesInv'
  BY <1>1 DEF UsesInv, TimesInv, Entries, Samples
<1>4. MembersInv'
  <2>1. ASSUME NEW k \in DOMAIN members'
        PROVE  IsLeft(members'[k], calls'[1][k], Resets(k)')
    <3>1. members'[k] \in MembersOf(calls[1][k]) /\ k \in DOMAIN calls[1]
      BY <1>1, <2>1 DEF Made
    <3>2. k \in 1 .. Len(calls[1]) /\ Len(calls[1]) \in Nat
      BY <3>1, TurnFacts DEF Inv, RunnerInv
    <3>3. Resets(k)' = 0
      BY <1>1, <1>2, <3>2 DEF Resets, Left
    <3> QED
      BY <1>1, <3>1, <3>3, MadeLeft
  <2> QED
    BY <2>1 DEF MembersInv
<1>5. RunInv'
  BY <1>1 DEF RunInv
<1> QED
  BY <1>3, <1>4, <1>5 DEF UsesInv

(* The time added is that of this sample. *)
LEMMA AddTimeKeepsUses ==
  ASSUME Inv, UsesInv, AddTime
  PROVE  UsesInv'
<1> DEFINE c == Added(Turn.name, work)
<1>1. /\ pc = "add" /\ pc' \in {"start", "print"} /\ calls' = calls /\ members' = members
      /\ collection' = c
      /\ IF bench < Len(calls[1]) THEN bench' = bench + 1 /\ sample' = sample
                                  ELSE bench' = 1 /\ sample' = sample + 1
  BY DEF AddTime
<1>2. /\ DOMAIN calls[1] = 1 .. Len(calls[1]) /\ Len(calls[1]) \in Nat \ {0}
      /\ bench \in 1 .. Len(calls[1]) /\ sample \in Nat /\ Turn = calls[1][bench]
      /\ DOMAIN members = DOMAIN calls[1]
  BY <1>1, TurnFacts DEF Inv, RunnerInv, ControlInv, Active
<1>3. IsTimeOf(work, Turn)
  <2>1. work.of = Turn /\ (IsAllocation(Turn) => IsTimeOf(work, Turn))
    BY <1>1 DEF Inv, WorkInv, Active
  <2> QED
    BY <2>1 DEF IsTimeOf
<1>4. Use(work, Turn, sample + 1)
  BY <1>1 DEF UsesInv, RunInv, Active
<1>5. /\ Len(c) = IF sample > 0 THEN Len(calls[1]) ELSE bench
      /\ \A k \in 1 .. Len(c) : k # bench => c[k] = collection[k]
      /\ \A n \in 1 .. sample : c[bench].clockTimes[n] = collection[bench].clockTimes[n]
      /\ c[bench].clockTimes[sample + 1] = work
  BY <1>1, <1>3, AddedEntries DEF Inv, RunnerInv
<1> HIDE DEF c
<1>6. Entries' = Len(c) /\ Len(c) \in Nat /\ Len(c) <= Len(calls[1])
  BY <1>1, <1>2, <1>5 DEF Entries
<1>7. ASSUME NEW k \in 1 .. Len(c), NEW n \in 1 .. Samples(k)'
      PROVE  Use(c[k].clockTimes[n], calls[1][k], n)
  <2>1. Samples(k)' = IF k <= bench THEN sample + 1 ELSE sample
    BY <1>1, <1>2, <1>6 DEF Samples
  <2>2. CASE k = bench
    <3>1. n \in 1 .. sample + 1 /\ calls[1][k] = Turn
      BY <1>2, <2>1, <2>2
    <3>2. CASE n = sample + 1
      BY <1>4, <1>5, <2>2, <3>1, <3>2, Zenon
    <3>3. CASE n # sample + 1
      <4>1. n \in 1 .. sample
        BY <1>2, <3>1, <3>3
      <4>2. bench \in 1 .. Entries /\ n \in 1 .. Samples(bench)
        BY <1>2, <4>1 DEF Entries, Samples
      <4>3. Use(collection[bench].clockTimes[n], calls[1][bench], n)
        BY <1>1, <4>2 DEF UsesInv, TimesInv
      <4> QED
        BY <1>5, <2>2, <4>1, <4>3, Zenon
    <3> QED
      BY <3>2, <3>3
  <2>3. CASE k # bench
    <3>1. k \in 1 .. Entries
      BY <1>2, <1>5, <2>3 DEF Entries
    <3>2. n \in 1 .. Samples(k)
      BY <1>2, <2>1, <2>3, <3>1 DEF Samples, Entries
    <3>3. Use(collection[k].clockTimes[n], calls[1][k], n)
      BY <1>1, <3>1, <3>2 DEF UsesInv, TimesInv
    <3> QED
      BY <1>5, <2>3, <3>3, Zenon
  <2> QED
    BY <2>2, <2>3
<1>8. TimesInv'
  BY <1>1, <1>6, <1>7 DEF TimesInv
<1>9. MembersInv'
  <2> SUFFICES ASSUME pc' = "start", NEW k \in DOMAIN members
               PROVE  IsLeft(members[k], calls[1][k], Resets(k)')
    BY <1>1 DEF MembersInv, Active
  <2>1. Resets(k)' = Resets(k)
    BY <1>1, <1>2 DEF Resets, Left
  <2>2. IsLeft(members[k], calls[1][k], Resets(k))
    BY <1>1 DEF UsesInv, MembersInv, Active
  <2> QED
    BY <2>1, <2>2
<1>10. RunInv'
  BY <1>1 DEF RunInv, Active
<1> QED
  BY <1>8, <1>9, <1>10 DEF UsesInv

(* The steps from the last sample of a call to the next call. *)
LEMMA QuietKeepsUses ==
  ASSUME Inv, UsesInv, PrintNext \/ Return \/ NextCall
  PROVE  UsesInv'
<1>1. pc \in {"print", "returned"} /\ pc' \in {"construct", "print", "returned"}
  BY DEF PrintNext, Return, NextCall
<1>2. MembersInv' /\ RunInv'
  BY <1>1 DEF MembersInv, RunInv, Active
<1>3. TimesInv'
  <2>1. CASE PrintNext \/ Return
    BY <1>1, <2>1 DEF PrintNext, Return, UsesInv, TimesInv, Entries, Samples
  <2>2. CASE NextCall
    <3>1. Entries' = 0
      BY <2>2 DEF NextCall, Entries
    <3> QED
      BY <3>1 DEF TimesInv
  <2> QED
    BY <2>1, <2>2
<1> QED
  BY <1>2, <1>3 DEF UsesInv

(* A step that changes nothing. *)
LEMMA StutterKeepsUses ==
  ASSUME UsesInv, UNCHANGED vars
  PROVE  UsesInv'
<1>1. /\ calls' = calls /\ bench' = bench /\ sample' = sample /\ pc' = pc /\ members' = members
      /\ i' = i /\ work' = work /\ collection' = collection
  BY DEF vars, runnerVars
<1>2. Turn' = Turn /\ This' = This
  BY <1>1 DEF Turn, This
<1>3. TimesInv'
  BY <1>1 DEF UsesInv, TimesInv, Entries, Samples
<1>4. MembersInv'
  BY <1>1 DEF UsesInv, MembersInv, Resets
<1>5. RunInv'
  BY <1>1, <1>2 DEF UsesInv, RunInv, VectorRun, StringRun
<1> QED
  BY <1>3, <1>4, <1>5 DEF UsesInv

(* There are no times at first ... *)
LEMMA UsesStart ==
  ASSUME Init
  PROVE  UsesInv
<1>1. pc = "construct" /\ sample = 0 /\ bench = 1
  BY DEF Init, RunnerInit
<1>2. Entries = 0
  BY <1>1 DEF Entries
<1> QED
  BY <1>1, <1>2 DEF UsesInv, TimesInv, MembersInv, RunInv, Active

(* ... and every step keeps what is known of them. *)
LEMMA UsesStep ==
  ASSUME Inv, UsesInv, [Next]_vars
  PROVE  UsesInv'
<1>1. CASE Construct(Made(calls[1])) /\ ConstructArr /\ UNCHANGED heap
  BY <1>1, ConstructKeepsUses
<1>2. CASE RunnerNext /\ UNCHANGED <<heap, arr>>
  <2>1. CASE ConstructThrows \/ AddTimeThrows \/ PrintThrows
    BY <2>1, FailKeepsUses DEF ConstructThrows, AddTimeThrows, PrintThrows
  <2>2. CASE StartTimer
    BY <2>2, StartTimerKeepsUses
  <2>3. CASE EndTimer
    BY <2>3, EndTimerKeepsUses
  <2>4. CASE AddTime
    BY <2>4, AddTimeKeepsUses
  <2>5. CASE PrintNext \/ Return \/ NextCall
    BY <2>5, QuietKeepsUses
  <2> QED
    BY <1>2, <2>1, <2>2, <2>3, <2>4, <2>5 DEF RunnerNext
<1>3. CASE AllocationNext /\ UNCHANGED arr
  BY <1>3, AllocationKeepsUses
<1>4. CASE WorkloadNext /\ UNCHANGED heap
  <2>1. CASE PushBack \/ CopyString
    BY <2>1, PushBackKeepsUses, CopyStringKeepsUses
  <2>2. CASE RunThrows \/ ResetThrows
    BY <2>2, FailKeepsUses DEF RunThrows, ResetThrows
  <2>3. CASE \/ BranchRun \/ AttributeRun \/ AccessRun \/ AOSRun \/ SOARun \/ ArrayWriteRun
             \/ PolicyRun \/ NumbersRun \/ FillRun \/ QueueRun
    BY <2>3, BranchRunKeepsUses, AttributeRunKeepsUses, AccessRunKeepsUses, AOSRunKeepsUses,
       SOARunKeepsUses, ArrayWriteRunKeepsUses, PolicyRunKeepsUses, NumbersRunKeepsUses,
       FillRunKeepsUses, QueueRunKeepsUses
  <2>4. CASE \/ VectorReset \/ DrawNumbers \/ AccessReset \/ ArrayWriteReset \/ PolicyReset
             \/ Reseed \/ Jump \/ QueueReset \/ ResetNothing
    BY <2>4, ResetsKeepUses
  <2> QED
    BY <1>4, <2>1, <2>2, <2>3, <2>4 DEF WorkloadNext
<1>5. CASE Ended
  BY <1>5, StutterKeepsUses DEF Ended
<1>6. CASE UNCHANGED vars
  BY <1>6, StutterKeepsUses
<1> QED
  BY <1>1, <1>2, <1>3, <1>4, <1>5, <1>6 DEF Next

(* What runs of the other benchables use is known in every state. *)
THEOREM UsesHold == Spec => []UsesInv
<1>1. Init => UsesInv
  BY UsesStart
<1>2. Inv /\ UsesInv /\ [Next]_vars => UsesInv'
  BY UsesStep
<1> QED
  BY <1>1, <1>2, InvHolds, PTL DEF Spec

(* The indices of different samples start at different places. *)
LEMMA IndicesDiffer ==
  ASSUME NEW m \in Nat, NEW n \in Nat, m < n
  PROVE  indices([seed |-> "10000", drawn |-> numEntities * m])
           # indices([seed |-> "10000", drawn |-> numEntities * n])
<1> DEFINE x == numEntities * m
<1> DEFINE y == numEntities * n
<1>1. numEntities \in Nat \ {0}
  BY WorkloadAssumption
<1>2. x # y /\ x \in Int /\ y \in Int
  <2>1. x \in Int /\ y \in Int
    BY <1>1
  <2>2. n - m \in Int /\ numEntities * (n - m) = y - x
    BY <1>1, MulSub
  <2>3. ASSUME x = y PROVE FALSE
    <3>1. numEntities * (n - m) < numEntities
      BY <1>1, <2>1, <2>2, <2>3
    <3>2. n - m < 1
      BY <1>1, <2>2, <3>1, MulBelow
    <3> QED
      BY <3>2
  <2> QED
    BY <2>1, <2>3
<1> HIDE DEF x, y
<1>3. 1 \in 1 .. numEntities
  BY <1>1
<1>4. indices([seed |-> "10000", drawn |-> x])[1] = <<"10000", x - numEntities + 1>>
  BY <1>3 DEF indices
<1>5. indices([seed |-> "10000", drawn |-> y])[1] = <<"10000", y - numEntities + 1>>
  BY <1>3 DEF indices
<1>6. x - numEntities + 1 # y - numEntities + 1
  BY <1>1, <1>2
<1> QED
  BY <1>4, <1>5, <1>6 DEF x, y

(* Two times of the same benchable used the same of the heap. *)
LEMMA UsedAlike ==
  ASSUME NEW b, NEW s, NEW t, NEW m \in Nat, NEW n \in Nat, m < n,
         Use(s, b, m), Use(t, b, n), IsTimeOf(s, b), IsTimeOf(t, b)
  PROVE  /\ s.allocated = t.allocated /\ s.freed = t.freed
         /\ b.class \in {"VectorAccess", "Xoroshiro128plus"} => s.did.input # t.did.input
<1>1. s.allocated = t.allocated /\ s.freed = t.freed
  <2>1. CASE b.class = "VectorWrapper"
    <3>1. PICK g : IsGrown(g, b, iterations) /\ s.allocated = g.allocated /\ s.freed = g.freed
      BY <2>1 DEF Use
    <3>2. PICK h : IsGrown(h, b, iterations) /\ t.allocated = h.allocated /\ t.freed = h.freed
      BY <2>1 DEF Use
    <3>3. g = h
      BY <3>1, <3>2, GrownOnce, RunnerAssumption
    <3> QED
      BY <3>1, <3>2, <3>3
  <2>2. CASE b.class = "StringRunner"
    BY <2>2 DEF Use
  <2>3. CASE b.class = "AllocationBench"
    BY <2>3 DEF IsTimeOf, IsAllocation
  <2>4. CASE b.class \notin Looping \cup {"AllocationBench"}
    BY <2>4 DEF Use
  <2> QED
    BY <2>1, <2>2, <2>3, <2>4 DEF Looping
<1>2. ASSUME b.class = "VectorAccess" PROVE s.did.input # t.did.input
  BY <1>2, IndicesDiffer DEF Use
<1>3. ASSUME b.class = "Xoroshiro128plus" PROVE s.did.input # t.did.input
  <2>1. s.did.input.seeding = m - 1 /\ t.did.input.seeding = n - 1
    BY <1>3 DEF Use
  <2>2. m - 1 # n - 1
    OBVIOUS
  <2> QED
    BY <2>1, <2>2, Zenon
<1> QED
  BY <1>1, <1>2, <1>3

(* A time in the collection is the n-th of a benchable of the call.             *)
LEMMA TimeIsUse ==
  ASSUME Inv, UsesInv, NEW k \in DOMAIN collection, NEW n \in Times(k)
  PROVE  /\ k \in DOMAIN calls[1] /\ n \in Nat \ {0}
         /\ Time(k, n).of = calls[1][k] /\ IsTimeOf(Time(k, n), calls[1][k])
         /\ Use(Time(k, n), calls[1][k], n)
         /\ ProperArguments(calls[1][k]) /\ ComparesRivals(calls[1])
<1>1. pc # "failed"
  <2>1. ASSUME pc = "failed" PROVE FALSE
    <3>1. DOMAIN collection = {}
      BY <2>1 DEF Inv, RunnerInv, CollectionInv
    <3> QED
      BY <3>1
  <2> QED
    BY <2>1
<1>2. k \in 1 .. Entries /\ IsEntry(collection[k], calls[1][k], Samples(k))
  <2>1. /\ IsSeq(collection) /\ Len(collection) = Entries
        /\ \A j \in 1 .. Entries : IsEntry(collection[j], calls[1][j], Samples(j))
    BY <1>1 DEF Inv, RunnerInv, CollectionInv
  <2>2. DOMAIN collection = 1 .. Entries
    BY <2>1, SeqIsFunction
  <2> QED
    BY <2>1, <2>2
<1>3. Times(k) = 1 .. Samples(k) /\ Samples(k) \in Nat
  <2>1. Len(collection[k].clockTimes) \in Nat /\ Len(collection[k].clockTimes) = Samples(k)
    BY <1>2, SeqIsFunction DEF IsEntry
  <2> QED
    BY <1>2, <2>1, SeqIsFunction DEF IsEntry, Times
<1>4. IsTimeOf(Time(k, n), calls[1][k])
  BY <1>2, <1>3 DEF IsEntry, Time
<1>5. Use(Time(k, n), calls[1][k], n)
  BY <1>1, <1>2, <1>3 DEF UsesInv, TimesInv, Time
<1>6. k \in DOMAIN calls[1] /\ ProperCall(calls[1])
  <2>1. /\ ProperCall(calls[1]) /\ DOMAIN calls[1] = 1 .. Len(calls[1])
        /\ Len(calls[1]) \in Nat /\ bench \in 1 .. Len(calls[1])
    BY TurnFacts DEF Inv, RunnerInv, ControlInv
  <2>2. Entries \in Int /\ Entries <= Len(calls[1])
    BY <2>1 DEF Entries
  <2> QED
    BY <1>2, <2>1, <2>2
<1> QED
  BY <1>3, <1>4, <1>5, <1>6 DEF IsTimeOf, ProperCall

(* Two samples of a benchable therefore used the heap alike. *)
LEMMA InvIndependent ==
  ASSUME Inv, UsesInv
  PROVE  SamplesIndependent
<1> SUFFICES ASSUME NEW k \in DOMAIN collection, NEW m \in Times(k), NEW n \in Times(k), m < n
             PROVE  /\ Time(k, m).allocated = Time(k, n).allocated
                    /\ Time(k, m).freed = Time(k, n).freed
                    /\ Time(k, m).of.class \in {"VectorAccess", "Xoroshiro128plus"} =>
                         Time(k, m).did.input # Time(k, n).did.input
  BY Zenon DEF SamplesIndependent
<1> DEFINE b == calls[1][k]
<1>1. /\ m \in Nat /\ IsTimeOf(Time(k, m), b) /\ Use(Time(k, m), b, m)
      /\ Time(k, m).of = b
  BY TimeIsUse
<1>2. n \in Nat /\ IsTimeOf(Time(k, n), b) /\ Use(Time(k, n), b, n)
  BY TimeIsUse
<1> HIDE DEF b
<1> QED
  BY <1>1, <1>2, UsedAlike

(* SamplesIndependent: each sample of a benchable measures the same use of the  *)
(* heap, whatever capacity, indices or numbers the samples before left in it,  *)
(* and other random numbers (VectorWrapper, StringRunner, VectorAccess,      *)
(* Xoroshiro128plus and their resetBenchmark).                               *)
THEOREM SamplesApart == Spec => []SamplesIndependent
BY InvHolds, UsesHold, InvIndependent, PTL

-----------------------------------------------------------------------------
(* What a time shows of a vector, of a string, and of what was written.          *)
LEMMA UseShows ==
  ASSUME NEW b, NEW t, NEW n, Use(t, b, n), ProperArguments(b)
  PROVE  /\ b.class = "VectorWrapper" => ((t.allocated = 0) <=> (b.S >= iterations))
         /\ b.class = "StringRunner" => t.allocated = IF b.N > 16 THEN iterations ELSE 0
         /\ b.class = "BranchPredictionSorted" => t.did.shows <= 2 * iterations - 1
         /\ b.class = "ArrayWrite" => /\ (Cardinality(t.did.shows) = 2) <=> Crossing(b.AccessIndex)
                                      /\ Aligned(b.AccessIndex) => Cardinality(t.did.shows) = 1
         /\ b.class \in ArrayFills => Cardinality(t.did.shows) = 1 /\ 0 \notin t.did.shows
<1>1. ASSUME b.class = "VectorWrapper" PROVE (t.allocated = 0) <=> (b.S >= iterations)
  <2>1. PICK g : IsGrown(g, b, iterations) /\ t.allocated = g.allocated
    BY <1>1 DEF Use
  <2>2. b.S \in Nat /\ iterations \in Nat
    BY <1>1, RunnerAssumption DEF ProperArguments
  <2>3. (g.allocated = 0) <=> (b.S >= iterations)
    BY <2>1, <2>2, GrownCounts
  <2> QED
    BY <2>1, <2>3
<1>2. ASSUME b.class = "StringRunner" PROVE t.allocated = IF b.N > 16 THEN iterations ELSE 0
  <2>1. t.allocated = Copies(b, iterations)
    BY <1>2 DEF Use
  <2>2. b.N \in Nat \ {0}
    BY <1>2 DEF ProperArguments
  <2>3. b.N - 1 > 15 <=> b.N > 16
    BY <2>2
  <2> QED
    BY <2>1, <2>3 DEF Copies, OnHeap, Spaces
<1>3. ASSUME b.class = "BranchPredictionSorted" PROVE t.did.shows <= 2 * iterations - 1
  BY <1>3 DEF Use, Does
<1>4. ASSUME b.class = "ArrayWrite"
      PROVE  /\ (Cardinality(t.did.shows) = 2) <=> Crossing(b.AccessIndex)
             /\ Aligned(b.AccessIndex) => Cardinality(t.did.shows) = 1
  <2>1. t.did.shows = {byte \div 64 : byte \in Written(b)}
    BY <1>4 DEF Use, Does
  <2>2. b.AccessIndex \in 0 .. 63
    BY <1>4 DEF ProperArguments
  <2> QED
    BY <2>1, <2>2, LinesTouched
<1>5. ASSUME b.class \in ArrayFills PROVE Cardinality(t.did.shows) = 1 /\ 0 \notin t.did.shows
  <2>1. PICK k \in Nat \ {0} : t.did.shows = {k}
    BY <1>5 DEF Use, Does
  <2>2. Cardinality({k}) = 1
    BY FS_Singleton
  <2> QED
    BY <2>1, <2>2
<1> QED
  BY <1>1, <1>2, <1>3, <1>4, <1>5, Zenon

(* Every time in the collection shows what its benchmark was written for. *)
LEMMA InvShows ==
  ASSUME Inv, UsesInv
  PROVE  ShowsItsSubject
<1> SUFFICES ASSUME NEW k \in DOMAIN collection, NEW n \in Times(k),
                    NEW t, t = Time(k, n), NEW b, b = t.of
             PROVE  CASE b.class = "VectorWrapper" -> (t.allocated = 0) <=> (b.S >= iterations)
                      [] b.class = "StringRunner" -> t.allocated = IF b.N > 16 THEN iterations ELSE 0
                      [] b.class = "BranchPredictionSorted" -> t.did.shows <= 2 * iterations - 1
                      [] b.class = "ArrayWrite" ->
                           /\ (Cardinality(t.did.shows) = 2) <=> Crossing(b.AccessIndex)
                           /\ Aligned(b.AccessIndex) => Cardinality(t.did.shows) = 1
                      [] b.class \in ArrayFills -> Cardinality(t.did.shows) = 1 /\ 0 \notin t.did.shows
                      [] OTHER -> TRUE
  BY DEF ShowsItsSubject
<1>1. b = calls[1][k] /\ Use(t, b, n) /\ ProperArguments(b)
  BY TimeIsUse
<1>2. /\ b.class = "VectorWrapper" => ((t.allocated = 0) <=> (b.S >= iterations))
      /\ b.class = "StringRunner" => t.allocated = IF b.N > 16 THEN iterations ELSE 0
      /\ b.class = "BranchPredictionSorted" => t.did.shows <= 2 * iterations - 1
      /\ b.class = "ArrayWrite" => /\ (Cardinality(t.did.shows) = 2) <=> Crossing(b.AccessIndex)
                                   /\ Aligned(b.AccessIndex) => Cardinality(t.did.shows) = 1
      /\ b.class \in ArrayFills => Cardinality(t.did.shows) = 1 /\ 0 \notin t.did.shows
  BY <1>1, UseShows
<1> QED
  BY <1>2 DEF ArrayFills

(* ShowsItsSubject: in any number of samples a reserved vector never grows and  *)
(* the other does, a string goes to the heap from size 17 on, the sorted list  *)
(* turns the branch at most once within a pass and once between two, a write   *)
(* crosses a line just if its name says so, and no number of another fill     *)
(* stays in the array (the run and resetBenchmark of these benchables).       *)
THEOREM SubjectsShown == Spec => []ShowsItsSubject
BY InvHolds, UsesHold, InvShows, PTL

-----------------------------------------------------------------------------
(* Entities that are in the same places are moved to the same places. *)
LEMMA MovedAlike ==
  ASSUME NEW T, NEW c \in Nat, NEW d \in Nat, ArraysAt(T, c) = ArraysAt(T, d)
  PROVE  ArraysAt(T, c + iterations) = ArraysAt(T, d + iterations)
<1> DEFINE Moved(m) == [m EXCEPT !.x_locs = MovedLocations(T, @)]
<1>1. Moved(ArraysAt(T, c)) = ArraysAt(T, c + iterations)
  BY ArraysMoved
<1>2. Moved(ArraysAt(T, d)) = ArraysAt(T, d + iterations)
  BY ArraysMoved
<1>3. Moved(ArraysAt(T, c)) = Moved(ArraysAt(T, d))
  <2> HIDE DEF Moved
  <2> QED
    BY Zenon
<1> QED
  BY <1>1, <1>2, <1>3, Zenon

(* Two times of rivals. *)
LEMMA RivalsUseAlike ==
  ASSUME NEW a, NEW b, NEW s, NEW t, NEW m \in Nat \ {0}, NEW n \in Nat \ {0},
         Use(s, a, m), Use(t, b, n), Rivals(a, b), a.class \in Comparable
  PROVE  /\ s.did.input = t.did.input => s.did.outcome = t.did.outcome
         /\ m = n /\ a.class \in {"VectorAccess", "AOS", "SOA"} => s.did.input = t.did.input
<1> DEFINE x == s.did
<1> DEFINE y == t.did
<1> DEFINE Goal == /\ x.input = y.input => x.outcome = y.outcome
                   /\ m = n /\ a.class \in {"VectorAccess", "AOS", "SOA"} => x.input = y.input
<1>1. Does(s, a, m) /\ Does(t, b, n)
  BY DEF Use
<1>2. CASE a.class \in BranchClasses /\ b.class \in BranchClasses
  <2>1. x.outcome = Successes(x.input) /\ y.outcome = Successes(y.input)
    BY <1>1, <1>2, Zenon DEF Does
  <2>2. a.class \notin {"VectorAccess", "AOS", "SOA"}
    BY <1>2 DEF BranchClasses
  <2> HIDE DEF x, y
  <2>3. Goal
    BY <2>1, <2>2, Zenon
  <2> QED
    BY <2>3 DEF x, y
<1>3. CASE a.class \in QueueTesters /\ b.class \in QueueTesters /\ a.numPairs = b.numPairs
  <2>1. x.outcome = a.numPairs * iterations /\ y.outcome = b.numPairs * iterations
    BY <1>1, <1>3, Zenon DEF Does
  <2>2. a.class \notin {"VectorAccess", "AOS", "SOA"}
    BY <1>3 DEF QueueTesters
  <2> QED
    BY <1>3, <2>1, <2>2, Zenon
<1>4. CASE a.class \in Moving /\ b.class \in Moving /\ a.T = b.T
  <2> DEFINE c == iterations * (m - 1)
  <2> DEFINE d == iterations * (n - 1)
  <2>1. c \in Nat /\ d \in Nat
    <3>1. m - 1 \in Nat /\ n - 1 \in Nat
      OBVIOUS
    <3> QED
      BY <3>1, PassesMore
  <2>2. m = n => c = d
    OBVIOUS
  <2>3. /\ x.input = ArraysAt(a.T, c) /\ x.outcome = ArraysAt(a.T, c + iterations)
        /\ y.input = ArraysAt(a.T, d) /\ y.outcome = ArraysAt(a.T, d + iterations)
    BY <1>1, <1>4, Zenon DEF Does
  <2> HIDE DEF c, d, x, y
  <2>4. ASSUME x.input = y.input PROVE x.outcome = y.outcome
    <3>1. ArraysAt(a.T, c) = ArraysAt(a.T, d)
      BY <2>3, <2>4, Zenon
    <3>2. ArraysAt(a.T, c + iterations) = ArraysAt(a.T, d + iterations)
      BY <2>1, <3>1, MovedAlike, Zenon
    <3> QED
      BY <2>3, <3>2, Zenon
  <2>5. m = n => x.input = y.input
    BY <2>2, <2>3, Zenon
  <2> QED
    BY <2>4, <2>5 DEF x, y
<1>5. CASE a.class = b.class /\ a.class \notin QueueTesters \cup {"AOS", "SOA"}
  <2>1. CASE a.class \in BranchClasses
    BY <1>2, <1>5, <2>1
  <2>2. CASE a.class = "AttributeOptimisation"
    <3>1. /\ x.outcome = CountedAlike(Passes(x.input))
          /\ y.outcome = CountedAlike(Passes(y.input))
      BY <1>1, <1>5, <2>2, Zenon DEF Does
    <3> HIDE DEF x, y
    <3>2. x.input = y.input => x.outcome = y.outcome
      BY <3>1, Zenon
    <3> QED
      BY <2>2, <3>2 DEF x, y
  <2>3. CASE a.class = "VectorAccess"
    <3>1. x.outcome = iterations * numEntities /\ y.outcome = iterations * numEntities
      BY <1>1, <1>5, <2>3, Zenon DEF Does
    <3>2. /\ x.input = indices([seed |-> "10000", drawn |-> numEntities * m])
          /\ y.input = indices([seed |-> "10000", drawn |-> numEntities * n])
      BY <1>5, <2>3, Zenon DEF Use
    <3>3. m = n => x.input = y.input
      BY <3>2, Zenon
    <3> QED
      BY <3>1, <3>3, Zenon
  <2>4. CASE a.class = "ExecutionPolicies"
    <3>1. x.outcome = TransformedAlike(x.input) /\ y.outcome = TransformedAlike(y.input)
      BY <1>1, <1>5, <2>4, Zenon DEF Does
    <3> HIDE DEF x, y
    <3>2. x.input = y.input => x.outcome = y.outcome
      BY <3>1, Zenon
    <3> QED
      BY <2>4, <3>2 DEF x, y
  <2> QED
    BY <1>5, <2>1, <2>2, <2>3, <2>4 DEF Comparable
<1> HIDE DEF x, y
<1>6. \/ a.class \in BranchClasses /\ b.class \in BranchClasses
      \/ a.class \in QueueTesters /\ b.class \in QueueTesters /\ a.numPairs = b.numPairs
      \/ a.class \in Moving /\ b.class \in Moving /\ a.T = b.T
      \/ a.class = b.class /\ a.class \notin QueueTesters \cup {"AOS", "SOA"}
  BY Zenon DEF Rivals, Moving
<1> QED
  BY <1>2, <1>3, <1>4, <1>5, <1>6, Zenon

(* Rivals in a call did alike. *)
LEMMA InvRivals ==
  ASSUME Inv, UsesInv
  PROVE  RivalsAlike
<1>1. ASSUME NEW j \in DOMAIN collection, NEW k \in DOMAIN collection,
             NEW m \in Times(j), NEW n \in Times(k)
      PROVE  \E a, b : /\ m \in Nat \ {0} /\ n \in Nat \ {0}
                       /\ Time(j, m).of = a /\ Time(k, n).of = b
                       /\ Use(Time(j, m), a, m) /\ Use(Time(k, n), b, n)
                       /\ a.class \in Comparable /\ b.class \in Comparable => Rivals(a, b)
  <2>1. /\ j \in DOMAIN calls[1] /\ m \in Nat \ {0} /\ Time(j, m).of = calls[1][j]
        /\ Use(Time(j, m), calls[1][j], m) /\ ComparesRivals(calls[1])
    BY TimeIsUse
  <2>2. /\ k \in DOMAIN calls[1] /\ n \in Nat \ {0} /\ Time(k, n).of = calls[1][k]
        /\ Use(Time(k, n), calls[1][k], n)
    BY TimeIsUse
  <2> WITNESS calls[1][j], calls[1][k]
  <2> QED
    BY <2>1, <2>2, Zenon DEF ComparesRivals
<1>2. ASSUME NEW j \in DOMAIN collection, NEW k \in DOMAIN collection,
             NEW m \in Times(j), NEW n \in Times(k),
             NEW s, s = Time(j, m), NEW t, t = Time(k, n),
             s.of.class \in Comparable, t.of.class \in Comparable
      PROVE  /\ s.did.input = t.did.input => s.did.outcome = t.did.outcome
             /\ (m = n /\ s.of.class \in {"VectorAccess", "AOS", "SOA"}) => s.did.input = t.did.input
  <2>1. PICK a, b : /\ m \in Nat \ {0} /\ n \in Nat \ {0} /\ s.of = a /\ t.of = b
                    /\ Use(s, a, m) /\ Use(t, b, n)
                    /\ a.class \in Comparable /\ b.class \in Comparable => Rivals(a, b)
    BY <1>1, <1>2
  <2>2. Rivals(a, b) /\ a.class \in Comparable
    BY <1>2, <2>1
  <2>3. s.did.input = t.did.input => s.did.outcome = t.did.outcome
    BY <2>1, <2>2, RivalsUseAlike
  <2>4. m = n /\ a.class \in {"VectorAccess", "AOS", "SOA"} => s.did.input = t.did.input
    BY <2>1, <2>2, RivalsUseAlike
  <2> QED
    BY <2>1, <2>3, <2>4
<1> QED
  BY <1>2 DEF RivalsAlike

(* RivalsAlike: in any number of samples the benchables that one executeBench   *)
(* compares reach the same outcome from the same input, however they differ in *)
(* layout, policy, branch attribute or queue, and those that are seeded alike   *)
(* find the same input in each sample (executeBench with the runs and resets  *)
(* of these classes).                                                        *)
THEOREM RivalsDoAlike == Spec => []RivalsAlike
BY InvHolds, UsesHold, InvRivals, PTL
=============================================================================
