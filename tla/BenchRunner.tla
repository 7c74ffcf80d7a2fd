---------------------------- MODULE BenchRunner ----------------------------
(***************************************************************************)
(* executeBench, BenchmarkCollection and Timer (bench_runner.hpp, timer.hpp) *)
(* as main.cpp uses them: main calls some of its functions, each of which    *)
(* makes benchables and hands them to executeBench.  For every sample, each  *)
(* benchable in turn is timed while it runs, then reset, then its time goes  *)
(* to the collection under its name; at the end the collection is printed,   *)
(* if there are enough times.                                                *)
(*                                                                           *)
(* A benchable is a record of its class, its template arguments and its      *)
(* name; a call is the sequence of benchables it makes.  The constructors,   *)
(* runBenchmark and resetBenchmark are virtual: they are in the modules that *)
(* extend this one.  Cycles are modelled by the work done while they were    *)
(* counted: of which benchable, its use of the heap, and what its loops did. *)
(***************************************************************************)
EXTENDS Integers, Sequences

CONSTANTS
  Program,     \* what main may do: a set of sequences of calls
  iterations,  \* of runBenchmark
  NumSamples,  \* the numbers of samples a call may ask for
  Needed       \* NUMBER_CLT_TESTS_NEEDED

ASSUME RunnerAssumption ==
  /\ NumSamples \subseteq Nat \ {0}
  /\ Needed \in Nat \ {0}
  /\ iterations \in Nat \ {0}

(* Every call makes at least one benchable, and each of its benchables has a    *)
(* name of its own, by which addTime tells their times apart.                 *)
ASSUME ProgramAssumption ==
  \A main \in Program :
    /\ main # <<>> /\ main \in Seq({main[c] : c \in DOMAIN main})
    /\ \A c \in DOMAIN main :
         /\ main[c] # <<>> /\ main[c] \in Seq({main[c][k] : k \in DOMAIN main[c]})
         /\ \A j, k \in DOMAIN main[c] : j # k => main[c][j].name # main[c][k].name

VARIABLES
  calls,       \* the calls main has yet to make, the first one under way
  numSamples,  \* its parameter
  sample,      \* i of its loop
  bench,       \* the position of the benchable whose turn it is
  pc,          \* where the program is
  members,     \* the data members of each benchable of the call under way
  i,           \* of the loop under way in a member function of a benchable
  isTiming,    \* Timer::isTiming
  work,        \* what happened since the timer was started
  collection,  \* the BenchmarkCollection: records of name and clockTimes
  printed      \* what this call printed: pairs of name and number of times

runnerVars ==
  <<calls, numSamples, sample, bench, pc, members, i, isTiming, work, collection, printed>>

(* What neither member function of a benchable can reach. *)
loopVars == <<calls, numSamples, sample, bench, isTiming, collection, printed>>

Turn == calls[1][bench]
This == members[bench]

NewWork(b) == [of |-> b, allocated |-> 0, freed |-> 0, did |-> <<>>]

RunnerInit ==
  /\ calls \in Program
  /\ numSamples \in NumSamples
  /\ sample = 0 /\ bench = 1
  /\ pc = "construct"
  /\ members = <<>> /\ i = 0
  /\ isTiming = FALSE
  /\ work = NewWork(Turn)
  /\ collection = <<>> /\ printed = <<>>

(* The function makes its benchables; made: what their constructors may leave. *)
Construct(made) ==
  /\ pc = "construct"
  /\ members' \in made
  /\ pc' = "start"
  /\ UNCHANGED <<calls, numSamples, sample, bench, i, isTiming, work, collection, printed>>

(* startTimer(), which throws if the timer is going: see CleanStart.           *)
StartTimer ==
  /\ pc = "start" /\ ~isTiming
  /\ isTiming' = TRUE
  /\ work' = NewWork(Turn)
  /\ pc' = "run"
  /\ UNCHANGED <<calls, numSamples, sample, bench, members, i, collection, printed>>

(* Mutant: the timer is left going. *)
EndTimerForgets ==
  /\ pc = "end" /\ isTiming
  /\ pc' = "reset"
  /\ UNCHANGED <<calls, numSamples, sample, bench, members, i, work, collection, printed, isTiming>>

(* endTimer(); the work done so far is the time it returns. *)
EndTimer ==
  /\ pc = "end" /\ isTiming
  /\ isTiming' = FALSE
  /\ pc' = "reset"
  /\ UNCHANGED <<calls, numSamples, sample, bench, members, i, work, collection, printed>>

(* An exception thrown by a benchable goes through executeBench and its       *)
(* caller, where the collection and the benchables are destroyed, to main,   *)
(* which reports it and ends.                                                *)
Fail ==
  /\ pc' = "failed"
  /\ collection' = <<>> /\ members' = <<>>
  /\ UNCHANGED <<calls, numSamples, sample, bench, i, isTiming, work, printed>>

(* A constructor finds no memory, or no random number from the hardware. *)
ConstructThrows == pc = "construct" /\ Fail

(* Mutant: the names are not compared. *)
AddedFirst(name, time) ==
  IF collection # <<>>
  THEN [collection EXCEPT ![1].clockTimes = Append(@, time)]
  ELSE Append(collection, [name |-> name, clockTimes |-> <<time>>])

(* The collection after addTime(name, time). *)
Added(name, time) ==
  IF \E k \in DOMAIN collection : collection[k].name = name
  THEN LET first == CHOOSE k \in DOMAIN collection :
                      /\ collection[k].name = name
                      /\ \A j \in 1 .. k - 1 : collection[j].name # name
       IN [collection EXCEPT ![first].clockTimes = Append(@, time)]
  ELSE Append(collection, [name |-> name, clockTimes |-> <<time>>])

(* The rest of bench(benchable), and the step of the loops. *)
AddTime ==
  /\ pc = "add"
  /\ collection' = Added(Turn.name, work)
  /\ IF bench < Len(calls[1])
     THEN bench' = bench + 1 /\ UNCHANGED sample
     ELSE bench' = 1 /\ sample' = sample + 1
  /\ pc' = IF bench' = 1 /\ sample' = numSamples THEN "print" ELSE "start"
  /\ UNCHANGED <<calls, numSamples, members, i, isTiming, work, printed>>

(* push_back finds no memory for the time. *)
AddTimeThrows == pc = "add" /\ Fail

(* An Evaluation and what its print() shows of it; the statistics are left out. *)
Evaluation(entry) == <<entry.name, Len(entry.clockTimes)>>

(* print(): createEvaluation() and print() of the next entry ... *)
PrintNext ==
  /\ pc = "print" /\ Len(printed) < Len(collection)
  /\ LET next == collection[Len(printed) + 1] IN
     /\ Len(next.clockTimes) >= Needed
     /\ printed' = Append(printed, Evaluation(next))
  /\ UNCHANGED <<calls, numSamples, sample, bench, pc, members, i, isTiming, work, collection>>

(* ... which throws if it has not enough times. *)
PrintThrows ==
  /\ pc = "print" /\ Len(printed) < Len(collection)
  /\ Len(collection[Len(printed) + 1].clockTimes) < Needed
  /\ Fail

(* executeBench is left, and so is the function that called it. *)
Return ==
  /\ pc = "print" /\ Len(printed) = Len(collection)
  /\ pc' = "returned"
  /\ members' = <<>>
  /\ UNCHANGED <<calls, numSamples, sample, bench, i, isTiming, work, collection, printed>>

(* Mutant: the collection of the call before is used again. *)
NextCallKeeps ==
  /\ pc = "returned" /\ Len(calls) > 1
  /\ calls' = Tail(calls)
  /\ numSamples' \in NumSamples
  /\ sample' = 0 /\ bench' = 1
  /\ printed' = <<>>
  /\ pc' = "construct"
  /\ UNCHANGED <<members, i, isTiming, work, collection>>

(* main goes on to its next function; every call has a collection of its own. *)
NextCall ==
  /\ pc = "returned" /\ Len(calls) > 1
  /\ calls' = Tail(calls)
  /\ numSamples' \in NumSamples
  /\ sample' = 0 /\ bench' = 1
  /\ collection' = <<>> /\ printed' = <<>>
  /\ pc' = "construct"
  /\ UNCHANGED <<members, i, isTiming, work>>

RunnerNext ==
  \/ StartTimer \/ EndTimer \/ AddTime \/ PrintNext \/ Return \/ NextCall
  \/ ConstructThrows \/ AddTimeThrows \/ PrintThrows

(***************************************************************************)
(* A call prints all of its benchables, each with as many times as samples   *)
(* were asked for, or, if one sample is missing or there are too few, none:  *)
(* the comparison the call is made for is never half there, as long as there *)
(* is memory for the copies that print() makes.                              *)
(***************************************************************************)
ReportsAllOrNone ==
  /\ pc = "failed" => printed = <<>>
  /\ pc = "returned" =>
       printed = [k \in DOMAIN calls[1] |-> <<calls[1][k].name, numSamples>>]
=============================================================================
