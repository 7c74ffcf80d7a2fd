-------------------------- MODULE MPMCQueueTester --------------------------
(***************************************************************************)
(* MPMCQueueTester (src/src/benchmarks/MPMC/MPMC_bencher.hpp) driving the   *)
(* MutexQueue: the main thread creates a consumer and a producer at a time, *)
(* waits until all have reported ready, opens the gate, joins them and      *)
(* resets the queue; then the runner takes the next sample.                 *)
(*                                                                         *)
(* MutexQueue's reset() does nothing (locked.hpp:27), so the next sample    *)
(* starts with whatever this one left in the queue and in the mutex.        *)
(***************************************************************************)
EXTENDS MutexQueue, FiniteSets

CONSTANTS
  Iterations,   \* iterations
  Samples       \* samples taken (bounds the model)

ASSUME TesterAssumption ==
  /\ Producers \cap Consumers = {}
  /\ IsFiniteSet(Producers) /\ IsFiniteSet(Consumers)
  /\ Cardinality(Producers) = Cardinality(Consumers)   \* numPairs of each
  /\ None \notin Threads
  /\ Iterations \in Nat
  /\ Samples \in Nat \ {0}

VARIABLES
  main,       \* "spawn", "wait", "join" or "reset": where runBenchmark is
  stage,      \* stage[t]: "none" (not created), "born", "gate", "run", "ended"
  ready,      \* the two atomics
  start,
  done,       \* done[t]: calls of t that returned true in this sample
  sample      \* the sample being taken

testerVars == <<main, stage, ready, start, sample>>
vars == <<queueVars, testerVars, done>>

Value == Producers \X (0 .. Iterations - 1)

Init ==
  /\ QueueInit
  /\ main = "spawn"
  /\ stage = [t \in Threads |-> "none"]
  /\ ready = 0
  /\ start = FALSE
  /\ done = [t \in Threads |-> 0]
  /\ sample = 1

(***************************************************************************)
(* The main thread                                                         *)
(***************************************************************************)
(* threads.emplace_back, a consumer first and then a producer. *)
Created(T) == {t \in T : stage[t] # "none"}

Spawn(t) ==
  /\ main = "spawn"
  /\ stage[t] = "none"
  /\ IF Cardinality(Created(Consumers)) = Cardinality(Created(Producers))
       THEN t \in Consumers
       ELSE t \in Producers
  /\ stage' = [stage EXCEPT ![t] = "born"]
  /\ UNCHANGED <<queueVars, main, ready, start, done, sample>>

(* The loop over the pairs ends. *)
Spawned ==
  /\ main = "spawn"
  /\ Created(Threads) = Threads
  /\ main' = "wait"
  /\ UNCHANGED <<queueVars, stage, ready, start, done, sample>>

(* Mutant: the main thread opens the gate without waiting. *)
OpenGateAtOnce ==
  /\ main = "wait"
  /\ start' = TRUE
  /\ main' = "join"
  /\ UNCHANGED <<queueVars, stage, ready, done, sample>>

(* while (ready != totalThreads); start.store(true) *)
OpenGate ==
  /\ main = "wait"
  /\ ready = Cardinality(Threads)
  /\ start' = TRUE
  /\ main' = "join"
  /\ UNCHANGED <<queueVars, stage, ready, done, sample>>

(* for (auto& t : threads) t.join() *)
Join ==
  /\ main = "join"
  /\ \A t \in Threads : stage[t] = "ended"
  /\ main' = "reset"
  /\ UNCHANGED <<queueVars, stage, ready, start, done, sample>>

(* resetBenchmark(), and the locals of the next runBenchmark(). *)
Reset ==
  /\ main = "reset"
  /\ sample < Samples
  /\ main' = "spawn"
  /\ stage' = [t \in Threads |-> "none"]
  /\ ready' = 0
  /\ start' = FALSE
  /\ done' = [t \in Threads |-> 0]
  /\ sample' = sample + 1
  /\ UNCHANGED queueVars

(***************************************************************************)
(* The producers and consumers                                             *)
(***************************************************************************)
(* ready.fetch_add(1) *)
ReportReady(t) ==
  /\ stage[t] = "born"
  /\ stage' = [stage EXCEPT ![t] = "gate"]
  /\ ready' = ready + 1
  /\ UNCHANGED <<queueVars, main, start, done, sample>>

(* while (!start.load()); *)
PassGate(t) ==
  /\ stage[t] = "gate"
  /\ start
  /\ stage' = [stage EXCEPT ![t] = "run"]
  /\ UNCHANGED <<queueVars, main, ready, start, done, sample>>

Running(t) == stage[t] = "run" /\ done[t] < Iterations

(* Mutant: a pop that returned false counts as one of the iterations. *)
PopOnce(c) ==
  /\ stage[c] = "run"
  /\ UNCHANGED testerVars
  /\ \/ Running(c) /\ PopCall(c) /\ UNCHANGED done
     \/ PopInside(c) /\ UNCHANGED done
     \/ (PopReturn(c) \/ PopFail(c)) /\ done' = [done EXCEPT ![c] = @ + 1]

(* while (!q.push(temp)); and while (!q.pop(temp)); *)
Push(p) ==
  /\ stage[p] = "run"
  /\ UNCHANGED testerVars
  /\ \/ Running(p) /\ PushCall(p, <<p, done[p]>>) /\ UNCHANGED done
     \/ PushInside(p) /\ UNCHANGED done
     \/ PushReturn(p) /\ done' = [done EXCEPT ![p] = @ + 1]

Pop(c) ==
  /\ stage[c] = "run"
  /\ UNCHANGED testerVars
  /\ \/ Running(c) /\ PopCall(c) /\ UNCHANGED done
     \/ PopInside(c) /\ UNCHANGED done
     \/ PopReturn(c) /\ done' = [done EXCEPT ![c] = @ + 1]
     \/ PopFail(c) /\ UNCHANGED done

(* The loop over the iterations ends and the thread function returns. *)
End(t) ==
  /\ stage[t] = "run"
  /\ pc[t] = "idle"
  /\ done[t] = Iterations
  /\ stage' = [stage EXCEPT ![t] = "ended"]
  /\ UNCHANGED <<queueVars, main, ready, start, done, sample>>

-----------------------------------------------------------------------------
Main == (\E t \in Threads : Spawn(t)) \/ Spawned \/ OpenGate \/ Join \/ Reset

Thread(t) ==
  \/ ReportReady(t) \/ PassGate(t) \/ End(t)
  \/ t \in Producers /\ Push(t)
  \/ t \in Consumers /\ Pop(t)

Finished == main = "reset" /\ sample = Samples /\ UNCHANGED vars

Next == Main \/ (\E t \in Threads : Thread(t)) \/ Finished

Spec == Init /\ [][Next]_vars

(* Kernel threads that keep running, and nothing about the mutex: std::mutex   *)
(* does not promise a thread that waits for it that it is ever the next.     *)
FairSpec ==
  /\ Spec
  /\ WF_vars(Main)
  /\ \A t \in Threads : WF_vars(Thread(t))

-----------------------------------------------------------------------------
(* No thread touches the queue before every thread has been created and has   *)
(* reported ready: the threads of a sample start together.                   *)
StartTogether ==
  (\E t \in Threads : stage[t] \in {"run", "ended"}) =>
     \A t \in Threads : stage[t] \in {"gate", "run", "ended"}

(***************************************************************************)
(* When the queue is reset it is empty, the mutex is free and no thread is  *)
(* inside a call: MutexQueue's and VyukovAtomicQueue's reset() may do       *)
(* nothing, and no value of one sample is popped in the next.               *)
(***************************************************************************)
CleanAtReset ==
  main = "reset" => q = <<>> /\ m = None /\ \A t \in Threads : pc[t] = "idle"

(* The queue the threads see is the abstract one.  It has no limit: push      *)
(* "cannot fail" (locked.hpp:15), and holds at most one sample's values.     *)
Queue == INSTANCE AbstractQueue WITH
  Capacity <- Iterations * Cardinality(Producers),
  items <- Visible,
  hand <- val

ImplementsQueue == Queue!Spec

Ended == main = "reset" /\ sample = Samples

(* From some point on the queue stays empty and a producer waits for the        *)
(* mutex, which consumers take again and again for a pop that fails.         *)
ProducerStarved ==
  /\ \E p \in Producers : <>[](pc[p] = "push_lock" /\ q = <<>>)
  /\ []<>(\E c \in Consumers : pc[c] = "pop_fail")

(***************************************************************************)
(* Every sample ends and the last one is reached, unless consumers that spin  *)
(* on the empty queue (MPMC_bencher.hpp:49) keep a producer out of the mutex  *)
(* for ever.  Nothing else can stop the program: no thread waits at the gate, *)
(* for a mutex nobody gives back, or for a value that was pushed.            *)
(***************************************************************************)
OnlyStarvationDelays == <>Ended \/ ProducerStarved
=============================================================================
