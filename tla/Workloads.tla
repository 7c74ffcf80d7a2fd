----------------------------- MODULE Workloads -----------------------------
(***************************************************************************)
(* The other benchables of src/src/benchmarks as executeBench sees them: what *)
(* their constructors leave, what a run does while it is timed, and what a    *)
(* reset leaves for the next run.                                            *)
(*                                                                           *)
(* work.did is the input a run found, the outcome it left, and what it shows, *)
(* the quantity the benchmark is about; heap traffic is in work.allocated and *)
(* work.freed.  A run that only loops over its members is one step; one that  *)
(* allocates takes a step for every iteration, and may fail at each.  Random  *)
(* numbers are any members of small sets; a float is the history of what was  *)
(* done to it.                                                               *)
(***************************************************************************)
EXTENDS BenchRunner, FiniteSets, SequencesExt

CONSTANTS
  Lists,      \* what the distribution may fill randomNumbers with
  Transforms, \* what it may fill transformationVector with
  numEntities,\* how many entities, coordinates or indices
  N           \* of the array fills

ASSUME WorkloadAssumption == numEntities \in Nat \ {0} /\ N \in Nat \ {0}

(* What the distributions of all lists draw: DISTRIBUTION_MIN .. DISTRIBUTION_MAX. *)
Distribution == 0 .. 100000
ASSUME ListsAssumption == Lists \subseteq Seq(Distribution)

(* What the types of the template arguments admit; ArrayWrite requires a line,  *)
(* and StringRunner asserts that there is room for the null character.         *)
ASSUME ArgumentsAssumption ==
  \A main \in Program : \A c \in DOMAIN main : \A k \in DOMAIN main[c] :
    LET b == main[c][k] IN
    /\ b.class = "VectorWrapper" => b.S \in Nat
    /\ b.class = "StringRunner" => b.N \in Nat \ {0}
    /\ b.class = "ArrayWrite" => b.AccessIndex \in 0 .. 63

VARIABLE arr  \* the array that all array fills share: whose number, and which

(* A loop of n rounds, from x; and a body done as often as runBenchmark's loop says. *)
Loop(body(_, _), x, n) ==
  LET after[k \in 0 .. n] == IF k = 0 THEN x ELSE body(after[k - 1], k) IN after[n]
Iterated(body(_), x) == Loop(LAMBDA y, k : body(y), x, iterations)

(* A run in one step; m is the benchable after it. *)
RunOnce(classes, m, input, outcome, shows) ==
  /\ pc = "run" /\ Turn.class \in classes
  /\ members' = [members EXCEPT ![bench] = m]
  /\ work' = [work EXCEPT !.did = [input |-> input, outcome |-> outcome, shows |-> shows]]
  /\ pc' = "end"
  /\ UNCHANGED <<loopVars, i>>

(* A reset in one step. *)
ResetTo(classes, m) ==
  /\ pc = "reset" /\ Turn.class \in classes
  /\ members' = [members EXCEPT ![bench] = m]
  /\ pc' = "add"
  /\ UNCHANGED <<loopVars, i, work, arr>>

(* resetBenchmark of a benchable that has nothing to do. *)
Resetless == {"AOS", "SOA", "StringRunner", "Xoroshiro64ArrayFill",
              "Xoroshiro64BufferedArrayFill", "Xoroshiro64SIMDArrayFill"}
ResetNothing == ResetTo(Resetless, This)

-----------------------------------------------------------------------------
(* VectorWrapper<S>, with S in elements of 8 bytes, and a vector that grows    *)
(* as libstdc++'s does; no element is ever read.                              *)
ZERO_BYTES == 0
FIFTEEN_GIGABYTE == 2013265920

VectorWrapper(S) ==
  [class |-> "VectorWrapper", S |-> S,
   name |-> IF S = ZERO_BYTES THEN "No Reservation Vector" ELSE "15 GB reservation vector"]
Cleared(b) == [size |-> 0, capacity |-> b.S]

PushBack ==
  /\ pc = "run" /\ Turn.class = "VectorWrapper"
  /\ IF This.size < This.capacity
     THEN /\ members' = [members EXCEPT ![bench].size = @ + 1]
          /\ UNCHANGED work
     ELSE /\ members' = [members EXCEPT ![bench] =
               [size |-> @.size + 1, capacity |-> @.size + Max({1, @.size})]]
          /\ work' = [work EXCEPT !.allocated = @ + 1,
                                  !.freed = IF This.capacity > 0 THEN @ + 1 ELSE @]
  /\ i' = (i + 1) % iterations
  /\ pc' = IF i' = 0 THEN "end" ELSE pc
  /\ UNCHANGED <<loopVars, arr>>

(* Mutant: clear() without shrink_to_fit(). *)
VectorResetKeeps == ResetTo({"VectorWrapper"}, [This EXCEPT !.size = 0])

VectorReset == ResetTo({"VectorWrapper"}, Cleared(Turn))

(* StringRunner<N>: a string of at most 15 characters stays inside the object. *)
StringRunner(n) == [class |-> "StringRunner", name |-> "String of size " \o ToString(n), N |-> n]
OnHeap(length) == length > 15
Spaces(b) == [length |-> b.N - 1]

(* Mutant: the null character is counted among the string's own. *)
CopyStringCounts ==
  /\ pc = "run" /\ Turn.class = "StringRunner"
  /\ work' = IF OnHeap(Turn.N)
             THEN [work EXCEPT !.allocated = @ + 1, !.freed = @ + 1] ELSE work
  /\ i' = (i + 1) % iterations
  /\ pc' = IF i' = 0 THEN "end" ELSE pc
  /\ UNCHANGED <<loopVars, members, arr>>

CopyString ==
  /\ pc = "run" /\ Turn.class = "StringRunner"
  /\ work' = IF OnHeap(This.length)
             THEN [work EXCEPT !.allocated = @ + 1, !.freed = @ + 1] ELSE work
  /\ i' = (i + 1) % iterations
  /\ pc' = IF i' = 0 THEN "end" ELSE pc
  /\ UNCHANGED <<loopVars, members, arr>>

-----------------------------------------------------------------------------
(* BranchPredictionUnsorted and -Sorted: shows how often the branch turns.     *)
BranchPrediction(version) ==
  [class |-> "BranchPrediction" \o version, name |-> "Branch Prediction " \o version \o " Version"]
BranchClasses == {"BranchPredictionUnsorted", "BranchPredictionSorted"}
SIZE_NEEDED_FOR_SUCCESS == (100000 + 0) \div 2

(* std::sort: the same numbers, none before a smaller one. *)
Orders(list) ==
  {p \in [DOMAIN list -> DOMAIN list] : \A k \in DOMAIN list : \E j \in DOMAIN list : p[j] = k}
Ordered(list, p) == [k \in DOMAIN list |-> list[p[k]]]
IsAscending(list) == \A j, k \in DOMAIN list : j < k => list[j] <= list[k]
Ascending(list) ==
  Ordered(list, CHOOSE p \in Orders(list) : IsAscending(Ordered(list, p)))

(* Mutant: the sorted version leaves resetBenchmark to its base class. *)
DrawnUnsorted(b) == Lists

(* The lists a reset may draw. *)
Drawn(b) == IF b.class = "BranchPredictionSorted" THEN {Ascending(l) : l \in Lists} ELSE Lists

(* All numbers looked at, in their order. *)
Passes(list) ==
  [k \in 1 .. iterations * Len(list) |-> list[((k - 1) % Len(list)) + 1]]
CountOf(list, Test(_)) == Cardinality({k \in DOMAIN list : Test(list[k])})
Turns(list) ==
  Cardinality({k \in 1 .. Len(list) - 1 : (list[k] > SIZE_NEEDED_FOR_SUCCESS)
                                         # (list[k + 1] > SIZE_NEEDED_FOR_SUCCESS)})

BranchRun ==
  /\ LET seen == Passes(This.numbers) IN
     RunOnce(BranchClasses, This, Ascending(This.numbers),
             CountOf(seen, LAMBDA n : n > SIZE_NEEDED_FOR_SUCCESS), Turns(seen))
  /\ UNCHANGED arr

(* AttributeOptimisation<A>: shows nothing but its counts. *)
AttributeOptimisation(A) ==
  [class |-> "AttributeOptimisation", A |-> A,
   name |-> "Compiler Branch Prediction with attribute "
              \o (CASE A = "DEFAULT" -> "DEFAULT BEHAVIOR"
                    [] A = "BRANCHLESS" -> "BRANCHLESS VERSION"
                    [] OTHER -> A)]
ATTRIBUTE_SIZE_NEEDED == ((100000 + 0) \div 20) * 6

(* Mutant: the branchless comparison is not strict. *)
CountsLoose(A, counts, number) ==
  IF A = "BRANCHLESS"
  THEN [successes |-> counts.successes + (IF number >= ATTRIBUTE_SIZE_NEEDED THEN 1 ELSE 0),
        equalities |-> counts.equalities + (IF number = ATTRIBUTE_SIZE_NEEDED THEN 1 ELSE 0)]
  ELSE IF number > ATTRIBUTE_SIZE_NEEDED THEN [counts EXCEPT !.successes = @ + 1]
  ELSE IF number = ATTRIBUTE_SIZE_NEEDED THEN [counts EXCEPT !.equalities = @ + 1]
  ELSE counts

(* The body of the loops: two sums, or two branches of which one is taken.     *)
Counts(A, counts, number) ==
  IF A = "BRANCHLESS"
  THEN [successes |-> counts.successes + (IF number > ATTRIBUTE_SIZE_NEEDED THEN 1 ELSE 0),
        equalities |-> counts.equalities + (IF number = ATTRIBUTE_SIZE_NEEDED THEN 1 ELSE 0)]
  ELSE IF number > ATTRIBUTE_SIZE_NEEDED THEN [counts EXCEPT !.successes = @ + 1]
  ELSE IF number = ATTRIBUTE_SIZE_NEEDED THEN [counts EXCEPT !.equalities = @ + 1]
  ELSE counts

Counted(A, seen) ==
  Loop(LAMBDA counts, k : Counts(A, counts, seen[k]), [successes |-> 0, equalities |-> 0], Len(seen))

AttributeRun ==
  /\ RunOnce({"AttributeOptimisation"}, This, This.numbers,
             Counted(Turn.A, Passes(This.numbers)), 0)
  /\ UNCHANGED arr

(* resetBenchmark of the three: new random numbers. *)
DrawNumbers ==
  \E list \in Drawn(Turn) :
    ResetTo(BranchClasses \cup {"AttributeOptimisation"}, [numbers |-> list])

-----------------------------------------------------------------------------
(* VectorAccess<T>: an index is its place in the sequence of its rng.          *)
VectorAccess(T) == [class |-> "VectorAccess", T |-> T, name |-> T \o " vector random access"]

(* Mutant: every type has a seed of its own. *)
SeededApart(b) == [seed |-> b.T, drawn |-> numEntities]

Seeded(b) == [seed |-> "10000", drawn |-> numEntities]
indices(m) == [k \in 1 .. numEntities |-> <<m.seed, m.drawn - numEntities + k>>]

AccessRun ==
  RunOnce({"VectorAccess"}, This, indices(This), iterations * numEntities, 0) /\ UNCHANGED arr
AccessReset == ResetTo({"VectorAccess"}, [This EXCEPT !.drawn = @ + numEntities])

(* AOS<T> and SOA<T>; a uint8_t wraps, a float counts exactly as far as this.  *)
TypeName(T) == CASE T = "long_double" -> "long double"
                 [] T = "float16_t" -> "16 bit float"
                 [] OTHER -> T
AOS(T) == [class |-> "AOS", T |-> T, name |-> "Array of Structures Iteration over " \o TypeName(T)]
SOA(T) == [class |-> "SOA", T |-> T, name |-> "Structure of Arrays iteration over " \o TypeName(T)]

Plus1(T, x) == IF T = "uint8_t" THEN (x + 1) % 256 ELSE x + 1
All(x) == [e \in 1 .. numEntities |-> x]
NewEntities == All([attack |-> 1, defense |-> 1, health |-> 1, x |-> 0, y |-> 0, z |-> 0])
NewArrays == [attacks |-> All(1), defenses |-> All(1), healths |-> All(1),
              x_locs |-> All(0), y_locs |-> All(0), z_locs |-> All(0)]

(* The entities as arrays. *)
Column(m, field) == [e \in DOMAIN m.entities |-> m.entities[e][field]]
Columns(m) ==
  [attacks |-> Column(m, "attack"), defenses |-> Column(m, "defense"),
   healths |-> Column(m, "health"),
   x_locs |-> Column(m, "x"), y_locs |-> Column(m, "y"), z_locs |-> Column(m, "z")]

MovedEntities(T, entities) ==
  Iterated(LAMBDA es : [e \in DOMAIN es |-> [es[e] EXCEPT !.x = Plus1(T, @)]], entities)
AOSRun ==
  /\ LET after == [entities |-> MovedEntities(Turn.T, This.entities)]
     IN RunOnce({"AOS"}, after, Columns(This), Columns(after), 0)
  /\ UNCHANGED arr

MovedLocations(T, locs) == Iterated(LAMBDA xs : [e \in DOMAIN xs |-> Plus1(T, xs[e])], locs)
SOARun ==
  /\ LET after == [This EXCEPT !.x_locs = MovedLocations(Turn.T, @)]
     IN RunOnce({"SOA"}, after, This, after, 0)
  /\ UNCHANGED arr

(* ArrayWrite<AccessIndex>, which calls itself aligned or not, and crossing a  *)
(* cache line or not; shows the cache lines a write touches.                 *)
Aligned(AccessIndex) == AccessIndex % 8 = 0

(* Mutant: the last offset within the line counts as crossing. *)
CrossingEarly(AccessIndex) == AccessIndex > 55

Crossing(AccessIndex) == AccessIndex > 56

ArrayWrite(AccessIndex) ==
  [class |-> "ArrayWrite", AccessIndex |-> AccessIndex,
   name |-> (IF Aligned(AccessIndex) THEN "aligned" ELSE "unaligned")
              \o (IF Crossing(AccessIndex) THEN " and crossing cacheline boundaries" ELSE "")
              \o " array write, byte offset " \o ToString(AccessIndex)]

(* other: the bytes that do not hold what fill() put there.                    *)
Uninitialised == [other |-> 0 .. 127]
Written(b) == b.AccessIndex .. b.AccessIndex + 7
ArrayWriteRun ==
  /\ RunOnce({"ArrayWrite"}, [other |-> This.other \cup Written(Turn)], Turn.AccessIndex,
             Written(Turn), {byte \div 64 : byte \in Written(Turn)})
  /\ UNCHANGED arr
ArrayWriteReset == ResetTo({"ArrayWrite"}, [other |-> {}])

-----------------------------------------------------------------------------
(* ExecutionPolicies<P>: coordinates moved by one transformation per run.      *)
ExecutionPolicies(P) ==
  [class |-> "ExecutionPolicies", P |-> P,
   name |-> (CASE P = "INDEXED_LOOP" -> "Generic Indexed Loop"
               [] P = "SEQUENCED" -> "Sequenced"
               [] P = "UNSEQUENCED" -> "Unsequenced"
               [] P = "PARALLEL" -> "Parallel"
               [] P = "PARALLEL_UNSEQUENCED" -> "Parallel and Unsequenced")
            \o " Execution Policy Benchmark"]
AtOrigin(transform) == [transform |-> transform, pos |-> [axis \in 1 .. 3 |-> All(<<>>)]]

heavyTransform(coord, t) == Append(coord, t)

(* Mutant: the indexed loop leaves out an index. *)
IndexedLoopShort(coords, t) ==
  Loop(LAMBDA cs, c : [cs EXCEPT ![c] = heavyTransform(@, t)], coords, Len(coords) - 1)

IndexedLoop(coords, t) ==
  Loop(LAMBDA cs, c : [cs EXCEPT ![c] = heavyTransform(@, t)], coords, Len(coords))

(* for_each, under a policy that may take the coordinates in any order.        *)
ForEach(coords, t) == [c \in DOMAIN coords |-> heavyTransform(coords[c], t)]

Transformed(P, m) ==
  Iterated(LAMBDA pos : [axis \in 1 .. 3 |->
             IF P = "INDEXED_LOOP" THEN IndexedLoop(pos[axis], m.transform[axis])
                                   ELSE ForEach(pos[axis], m.transform[axis])], m.pos)
PolicyRun ==
  /\ LET after == Transformed(Turn.P, This)
     IN RunOnce({"ExecutionPolicies"}, [This EXCEPT !.pos = after], This, after, 0)
  /\ UNCHANGED arr
PolicyReset ==
  \E t \in Transforms : ResetTo({"ExecutionPolicies"}, [This EXCEPT !.transform = t])

-----------------------------------------------------------------------------
(* The generators: which seed or jump, and how many numbers since the start.   *)
Generator(class, name) == [class |-> class, name |-> name]
Unused == [seeding |-> 0, made |-> 0]

NumbersRun ==
  /\ RunOnce({"Xoroshiro128plus", "MersenneTwister"}, [This EXCEPT !.made = @ + iterations],
             This, iterations, 0)
  /\ UNCHANGED arr

(* seed(rd()) of the Mersenne twisters, and jump().                           *)
Reseed == ResetTo({"MersenneTwister", "MersenneTwisterArrayFill"},
                  [seeding |-> This.seeding + 1, made |-> 0])
Jump == ResetTo({"Xoroshiro128plus"}, [This EXCEPT !.seeding = @ + 1])

(* The array fills; shows whose numbers are in the array afterwards.           *)
ArrayFills == {"MersenneTwisterArrayFill", "Xoroshiro64ArrayFill",
               "Xoroshiro64BufferedArrayFill", "Xoroshiro64SIMDArrayFill"}
NoNumber == <<0, 0>>
FilledWithZero == [j \in 1 .. N |-> NoNumber]

(* Mutant: the last element is left out. *)
FilledShort(a, made) == [j \in 1 .. N |-> IF j < N THEN <<bench, made + j>> ELSE a[j]]

Filled(a, made) == [j \in 1 .. N |-> <<bench, made + j>>]

AllFilled == Iterated(LAMBDA s : [a |-> Filled(s.a, s.made), made |-> s.made + N],
                      [a |-> arr, made |-> This.made])
FillRun ==
  /\ RunOnce(ArrayFills, [This EXCEPT !.made = AllFilled.made], This, iterations * N,
             {AllFilled.a[j][1] : j \in 1 .. N})
  /\ arr' = AllFilled.a

(* The queue testers, by what MPMCQueueTester and BufferTester show of them:   *)
(* every pusher's numbers pushed and popped, the queue as new after a reset.   *)
QueueTesters == {"MPMCQueueTester", "BufferTester"}
QueueTester(class, NAME, numPairs) ==
  [class |-> class, numPairs |-> numPairs,
   name |-> NAME \o (IF class = "BufferTester" THEN " benchmark"
                     ELSE " benchmark for " \o ToString(numPairs) \o " consumers and "
                            \o ToString(numPairs) \o " producers")]
QueueRun ==
  RunOnce(QueueTesters, This, This.inside, Turn.numPairs * iterations, 0) /\ UNCHANGED arr
QueueReset == ResetTo(QueueTesters, [inside |-> <<>>])

-----------------------------------------------------------------------------
(* A run finds no memory, for an element, a string or the work of a parallel    *)
(* algorithm, or no thread; if others of a queue tester's threads are there    *)
(* already, that ends the program without main's handler.                    *)
RunThrows ==
  /\ pc = "run"
  /\ \/ Turn.class = "VectorWrapper" /\ This.size = This.capacity
     \/ Turn.class = "StringRunner" /\ OnHeap(This.length)
     \/ Turn.class = "ExecutionPolicies" /\ Turn.P \in {"PARALLEL", "PARALLEL_UNSEQUENCED"}
     \/ Turn.class \in QueueTesters
  /\ Fail
  /\ UNCHANGED arr

(* A reset finds no memory for the reservation, or random_device no number.    *)
SeedsFromHardware ==
  BranchClasses
    \cup {"AttributeOptimisation", "ExecutionPolicies", "MersenneTwister", "MersenneTwisterArrayFill"}
ResetThrows ==
  /\ pc = "reset"
  /\ \/ Turn.class = "VectorWrapper" /\ Turn.S > 0
     \/ Turn.class \in SeedsFromHardware
  /\ Fail
  /\ UNCHANGED arr

(* What the constructor of b may leave. *)
WorkloadMembers(b) ==
  CASE b.class = "VectorWrapper" -> {Cleared(b)}
    [] b.class = "StringRunner" -> {Spaces(b)}
    [] b.class \in BranchClasses \cup {"AttributeOptimisation"} ->
         {[numbers |-> list] : list \in Drawn(b)}
    [] b.class = "VectorAccess" -> {Seeded(b)}
    [] b.class = "AOS" -> {[entities |-> NewEntities]}
    [] b.class = "SOA" -> {NewArrays}
    [] b.class = "ArrayWrite" -> {Uninitialised}
    [] b.class = "ExecutionPolicies" -> {AtOrigin(t) : t \in Transforms}
    [] b.class \in ArrayFills \cup {"Xoroshiro128plus", "MersenneTwister"} -> {Unused}
    [] b.class \in QueueTesters -> {[inside |-> <<>>]}

(* Three of the four array fills clear the array when they are made. *)
ConstructArr ==
  arr' = IF \E k \in DOMAIN calls[1] : calls[1][k].class \in ArrayFills \ {"MersenneTwisterArrayFill"}
         THEN FilledWithZero ELSE arr

WorkloadInit == arr = FilledWithZero

WorkloadNext ==
  /\ members # <<>>
  /\ \/ PushBack \/ CopyString \/ RunThrows \/ ResetThrows \/ BranchRun \/ AttributeRun \/ AccessRun
     \/ AOSRun \/ SOARun \/ ArrayWriteRun \/ PolicyRun \/ NumbersRun \/ FillRun \/ QueueRun
     \/ VectorReset \/ DrawNumbers \/ AccessReset \/ ArrayWriteReset \/ PolicyReset
     \/ Reseed \/ Jump \/ QueueReset \/ ResetNothing

-----------------------------------------------------------------------------
Times(k) == DOMAIN collection[k].clockTimes
Time(k, n) == collection[k].clockTimes[n]

(***************************************************************************)
(* Whatever earlier samples left in a benchable (capacity, indices, numbers   *)
(* drawn), each sample measures the same use of the heap, and new input where *)
(* resetBenchmark is to draw some from a generator that goes on.             *)
(***************************************************************************)
SamplesIndependent ==
  \A k \in DOMAIN collection : \A m, n \in Times(k) : m < n =>
    /\ Time(k, m).allocated = Time(k, n).allocated
    /\ Time(k, m).freed = Time(k, n).freed
    /\ Time(k, m).of.class \in {"VectorAccess", "Xoroshiro128plus"} =>
         Time(k, m).did.input # Time(k, n).did.input

(* The benchables that compare ways of doing the same thing.                  *)
Comparable ==
  BranchClasses \cup QueueTesters
    \cup {"AttributeOptimisation", "VectorAccess", "AOS", "SOA", "ExecutionPolicies"}

(* What a function of main.cpp hands to one executeBench: rivals.  *)
Rivals(a, b) ==
  \/ a.class \in BranchClasses /\ b.class \in BranchClasses
  \/ a.class \in QueueTesters /\ b.class \in QueueTesters /\ a.numPairs = b.numPairs
  \/ a.class \in {"AOS", "SOA"} /\ b.class \in {"AOS", "SOA"} /\ a.T = b.T
  \/ a.class = b.class /\ a.class \notin QueueTesters \cup {"AOS", "SOA"}
ASSUME RivalsAssumption ==
  \A main \in Program : \A c \in DOMAIN main : \A j, k \in DOMAIN main[c] :
    main[c][j].class \in Comparable /\ main[c][k].class \in Comparable =>
      Rivals(main[c][j], main[c][k])

(***************************************************************************)
(* The benchables of a call that compare ways of doing the same thing do the  *)
(* same thing: from the same input they reach the same outcome, and those     *)
(* that draw nothing from the hardware find the same input in each sample.    *)
(***************************************************************************)
RivalsAlike ==
  \A j, k \in DOMAIN collection : \A m \in Times(j), n \in Times(k) :
    LET s == Time(j, m)
        t == Time(k, n)
    IN (s.of.class \in Comparable /\ t.of.class \in Comparable) =>
         /\ s.did.input = t.did.input => s.did.outcome = t.did.outcome
         /\ (m = n /\ s.of.class \in {"VectorAccess", "AOS", "SOA"}) => s.did.input = t.did.input

(***************************************************************************)
(* A time is of what the benchmark was written to show: a reserved vector     *)
(* never grows and the other does (src/README.md:55), a string goes to the    *)
(* heap in every iteration from size 17 on (:607), the sorted list turns the  *)
(* branch at most once within a pass (:657-661), a write touches two lines    *)
(* just if its name says so, and a fill leaves no number of another.          *)
(***************************************************************************)
ShowsItsSubject ==
  \A k \in DOMAIN collection : \A n \in Times(k) :
    LET t == Time(k, n)
        b == t.of
    IN CASE b.class = "VectorWrapper" -> (t.allocated = 0) <=> (b.S >= iterations)
         [] b.class = "StringRunner" -> t.allocated = IF b.N > 16 THEN iterations ELSE 0
         [] b.class = "BranchPredictionSorted" -> t.did.shows <= 2 * iterations - 1
         [] b.class = "ArrayWrite" -> /\ (Cardinality(t.did.shows) = 2) <=> Crossing(b.AccessIndex)
                                      /\ Aligned(b.AccessIndex) => Cardinality(t.did.shows) = 1
         [] b.class \in ArrayFills -> Cardinality(t.did.shows) = 1 /\ 0 \notin t.did.shows
         [] OTHER -> TRUE
=============================================================================
