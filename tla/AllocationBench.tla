-------------------------- MODULE AllocationBench --------------------------
(***************************************************************************)
(* AllocationBench with Arena and NewWrapper (allocation/*.hpp), run by      *)
(* executeBench.  The arena is one step per allocation, reset at once; new   *)
(* and delete work on one heap, which all benchables share and which gives   *)
(* out any block that is free.                                               *)
(***************************************************************************)
EXTENDS BenchRunner, FiniteSets

CONSTANTS
  n_elements,          \* the constructor's parameter
  Size,                \* what the random sizes may be ([1, 256] in the code)
  FixedSize,           \* what the others are (4 in the code)
  CAPACITY,            \* of an arena
  Block                \* the blocks of the heap

ASSUME AllocationAssumption ==
  /\ n_elements \in Nat \ {0}
  /\ Size \subseteq Nat \ {0} /\ FixedSize \in Nat \ {0} /\ CAPACITY \in Nat \ {0}

VARIABLE heap     \* the blocks that new handed out and delete did not take back

AllocationBench(A, BenchesDeletion, VariableAllocSizes) ==
  [class |-> "AllocationBench",
   name |-> IF A = "ARENA" THEN "Arena Allocator" ELSE "New Allocator",
   A |-> A, BenchesDeletion |-> BenchesDeletion, VariableAllocSizes |-> VariableAllocSizes]

IsAllocation(b) == b.class = "AllocationBench"

(* All template arguments are of these. *)
ASSUME TemplateAssumption ==
  \A main \in Program : \A c \in DOMAIN main : \A k \in DOMAIN main[c] :
    IsAllocation(main[c][k]) =>
      \E A \in {"ARENA", "NEW"}, BenchesDeletion, VariableAllocSizes \in BOOLEAN :
        main[c][k] = AllocationBench(A, BenchesDeletion, VariableAllocSizes)

Fills(b) == IF b.VariableAllocSizes THEN [1 .. n_elements -> Size] ELSE {<<>>}

(***************************************************************************)
(* What the constructor leaves: a, the pointers, which are blocks or offsets *)
(* in the arena; sizes; and current, the arena's next free byte.             *)
(***************************************************************************)
AllocationMembers(b) == [a : {<<>>}, sizes : Fills(b), current : {0}]

AllocationInit == heap = {}

(* The size of the k-th allocation of a run. *)
SizeOf(b, m, k) == IF b.VariableAllocSizes THEN m.sizes[((k - 1) % n_elements) + 1] ELSE FixedSize

(* The step of the loops, and the end of runBenchmark or what follows them. *)
Advance ==
  /\ i' = (i + 1) % (iterations * n_elements)
  /\ pc' = IF i' # 0 THEN pc ELSE IF Turn.BenchesDeletion THEN "run_free" ELSE "end"

(***************************************************************************)
(* allocate<std::byte>(n) of the arena.  alignof(std::byte) is 1, so nothing *)
(* is skipped; nobody compares current with end.                             *)
(***************************************************************************)
ArenaAllocate ==
  /\ pc = "run" /\ Turn.A = "ARENA"
  /\ members' = [members EXCEPT ![bench].a = Append(@, This.current),
                                ![bench].current = @ + SizeOf(Turn, This, i + 1)]
  /\ work' = [work EXCEPT !.allocated = @ + 1]
  /\ Advance
  /\ UNCHANGED <<loopVars, heap>>

(* new T[N], and the pointer kept. *)
NewAllocate ==
  /\ pc = "run" /\ Turn.A = "NEW"
  /\ \E p \in Block \ heap :
       /\ heap' = heap \cup {p}
       /\ members' = [members EXCEPT ![bench].a = Append(@, p)]
  /\ work' = [work EXCEPT !.allocated = @ + 1]
  /\ Advance
  /\ UNCHANGED loopVars

(* new, or the vector of pointers, finds no memory. *)
AllocateThrows ==
  /\ pc = "run"
  /\ Fail
  /\ UNCHANGED heap

(***************************************************************************)
(* The memory is given back, in runBenchmark if that is to be timed, else in *)
(* resetBenchmark.                                                           *)
(***************************************************************************)
Freeing == pc \in {"run_free", "reset_free"}
AfterFree == IF pc = "run_free" THEN "end" ELSE "clear"

ArenaReset ==
  /\ Freeing /\ Turn.A = "ARENA"
  /\ members' = [members EXCEPT ![bench].current = 0]
  /\ work' = IF isTiming THEN [work EXCEPT !.freed = @ + 1] ELSE work
  /\ pc' = AfterFree
  /\ UNCHANGED <<loopVars, i, heap>>

(* delete p for the next pointer. *)
Delete ==
  /\ Freeing /\ Turn.A = "NEW"
  /\ heap' = heap \ {This.a[i + 1]}
  /\ i' = (i + 1) % Len(This.a)
  /\ work' = IF isTiming THEN [work EXCEPT !.freed = @ + 1] ELSE work
  /\ pc' = IF i' = 0 THEN AfterFree ELSE pc
  /\ UNCHANGED <<loopVars, members>>

(* Mutant: resetBenchmark frees whether or not runBenchmark did. *)
ResetAgain ==
  /\ pc = "reset"
  /\ pc' = "reset_free"
  /\ UNCHANGED <<loopVars, members, i, work, heap>>

ResetBenchmark ==
  /\ pc = "reset"
  /\ pc' = IF Turn.BenchesDeletion THEN "clear" ELSE "reset_free"
  /\ UNCHANGED <<loopVars, members, i, work, heap>>

(* Mutant: the pointers are kept. *)
ClearKeeps ==
  /\ pc = "clear"
  /\ \E fill \in Fills(Turn) : members' = [members EXCEPT ![bench].sizes = fill]
  /\ pc' = "add"
  /\ UNCHANGED <<loopVars, i, work, heap>>

(* The rest of resetBenchmark: a.resize(0) and new random sizes. *)
Clear ==
  /\ pc = "clear"
  /\ \E fill \in Fills(Turn) :
       members' = [members EXCEPT ![bench].a = <<>>, ![bench].sizes = fill]
  /\ pc' = "add"
  /\ UNCHANGED <<loopVars, i, work, heap>>

AllocationNext ==
  /\ members # <<>> /\ IsAllocation(Turn)
  /\ \/ ArenaAllocate \/ NewAllocate \/ AllocateThrows
     \/ ArenaReset \/ Delete
     \/ ResetBenchmark \/ Clear

-----------------------------------------------------------------------------
PerRun == iterations * n_elements

(* The benchables of this class that exist. *)
Allocating == {k \in DOMAIN members : IsAllocation(calls[1][k])}

(***************************************************************************)
(* A benchable is only ever run with the timer free, an arena that is empty  *)
(* and a heap as the last run found it, whichever of its two halves freed    *)
(* the memory, and whatever was run before in this call or another.          *)
(***************************************************************************)
CleanStart ==
  pc = "start" => /\ ~isTiming
                  /\ heap = {}
                  /\ \A k \in Allocating : members[k].a = <<>> /\ members[k].current = 0

(***************************************************************************)
(* Allocations of a run do not share memory; a block is still allocated when  *)
(* its pointer is deleted, and no two pointers are the same: nothing is       *)
(* deleted twice.                                                            *)
(***************************************************************************)
AllocationsSeparate ==
  (bench \in Allocating /\ pc \in {"run", "run_free", "reset_free"}) =>
    /\ \A j, k \in DOMAIN This.a : j < k =>
         IF Turn.A = "ARENA" THEN This.a[j] + SizeOf(Turn, This, j) <= This.a[k]
                             ELSE This.a[j] # This.a[k]
    /\ Turn.A = "NEW" =>
         \A k \in DOMAIN This.a : pc = "run" \/ k > i => This.a[k] \in heap

(***************************************************************************)
(* Every time in the collection is that of one run of one benchable of this   *)
(* call, under its name, and that of an allocation bench holds what it is     *)
(* about and no more: all allocations, and the freeing only where it          *)
(* "benches deletion" (src/README.md:215, 230).                               *)
(***************************************************************************)
MeasuresOneRun ==
  \A k \in DOMAIN collection : \A n \in DOMAIN collection[k].clockTimes :
    LET t == collection[k].clockTimes[n] IN
    /\ \E j \in DOMAIN calls[1] : t.of = calls[1][j]
    /\ t.of.name = collection[k].name
    /\ IsAllocation(t.of) =>
         /\ t.allocated = PerRun
         /\ t.freed = CASE ~t.of.BenchesDeletion -> 0
                        [] t.of.BenchesDeletion /\ t.of.A = "ARENA" -> 1
                        [] t.of.BenchesDeletion /\ t.of.A = "NEW" -> PerRun

(* "Allocates space for N objects" (arena.hpp:51): the space is the arena's.   *)
ArenaInBounds == \A k \in Allocating : members[k].current <= CAPACITY
=============================================================================
