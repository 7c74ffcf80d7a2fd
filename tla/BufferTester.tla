---------------------------- MODULE BufferTester ----------------------------
(***************************************************************************)
(* BufferTester<Queue>                                                     *)
(* (src/src/benchmarks/ring_buffers/ring_buffer_tester.hpp) with each of    *)
(* the queues ringBufferImplementations instantiates it with (main.cpp:224).*)
(* The main thread creates the popper and the pusher, waits until both have *)
(* reported ready, opens the gate and joins them; the runner then resets    *)
(* the queue and takes the next sample.  Thread creation and join order     *)
(* everything before them, so a sample's loads see no store of another one. *)
(***************************************************************************)
EXTENDS RingBuffer, SlotRingBuffer

CONSTANT Samples    \* samples taken (bounds the model)

ASSUME BufferAssumption ==
  /\ Capacity > 1                                   \* one slot stays unused
  /\ \E k \in 1 .. Capacity : Capacity = 2 ^ k      \* the assert of slot.hpp:29
  /\ Iterations \in Nat
  /\ Samples \in Nat \ {0}

VARIABLES
  queue,      \* the template argument: which queue is tested
  main,       \* "spawn", "wait", "join" or "reset": where runBenchmark is
  stage,      \* stage[t]: "none" (not created), "born", "gate", "run", "ended"
  ready,      \* the two atomics
  start,
  sample      \* the sample being taken

testerVars == <<queue, main, stage, ready, start, sample>>
vars == <<threadVars, ringVars, slotVars, testerVars>>

Queues == {"classic", "caching", "slot"}

Init ==
  /\ ThreadInit
  /\ RingInit
  /\ SlotInit
  /\ queue \in Queues
  /\ main = "spawn"
  /\ stage = [t \in Threads |-> "none"]
  /\ ready = 0
  /\ start = FALSE
  /\ sample = 1

(***************************************************************************)
(* The main thread                                                         *)
(***************************************************************************)
(* popper = std::thread(...), then pusher = std::thread(...) *)
Spawn(t) ==
  /\ main = "spawn"
  /\ stage[t] = "none"
  /\ t = Pusher => stage[Popper] # "none"
  /\ stage' = [stage EXCEPT ![t] = "born"]
  /\ main' = IF t = Pusher THEN "wait" ELSE "spawn"
  /\ UNCHANGED <<threadVars, ringVars, slotVars, queue, ready, start, sample>>

(* while (ready != 2); start.store(true) *)
OpenGate ==
  /\ main = "wait"
  /\ ready = 2
  /\ start' = TRUE
  /\ main' = "join"
  /\ UNCHANGED <<threadVars, ringVars, slotVars, queue, stage, ready, sample>>

(* popper.join(); pusher.join() *)
Join ==
  /\ main = "join"
  /\ \A t \in Threads : stage[t] = "ended"
  /\ main' = "reset"
  /\ UNCHANGED <<threadVars, ringVars, slotVars, queue, stage, ready, start, sample>>

(* resetBenchmark(), and the locals of the next runBenchmark(). *)
Reset ==
  /\ main = "reset"
  /\ sample < Samples
  /\ main' = "spawn"
  /\ RingReset
  /\ SlotReset
  /\ done' = [t \in Threads |-> 0]
  /\ released' = [t \in Threads |-> 0]
  /\ acquired' = [t \in Threads |-> 0]
  /\ stage' = [t \in Threads |-> "none"]
  /\ ready' = 0
  /\ start' = FALSE
  /\ sample' = sample + 1
  /\ UNCHANGED <<pc, val, racy, queue>>

(***************************************************************************)
(* The popper and the pusher                                               *)
(***************************************************************************)
(* ready.fetch_add(1) *)
ReportReady(t) ==
  /\ stage[t] = "born"
  /\ stage' = [stage EXCEPT ![t] = "gate"]
  /\ ready' = ready + 1
  /\ UNCHANGED <<threadVars, ringVars, slotVars, queue, main, start, sample>>

(* while (!start.load()); *)
PassGate(t) ==
  /\ stage[t] = "gate"
  /\ start
  /\ stage' = [stage EXCEPT ![t] = "run"]
  /\ UNCHANGED <<threadVars, ringVars, slotVars, queue, main, ready, start, sample>>

Running(t) == stage[t] = "run" /\ done[t] < Iterations

(* while (!q.push(i)); *)
Push ==
  /\ Running(Pusher)
  /\ UNCHANGED testerVars
  /\ \/ queue = "classic" /\ ClassicPush /\ UNCHANGED slotVars
     \/ queue = "caching" /\ CachingPush /\ UNCHANGED slotVars
     \/ queue = "slot" /\ SlotPush /\ UNCHANGED ringVars

(* while (!q.pop(val)); *)
Pop ==
  /\ Running(Popper)
  /\ UNCHANGED testerVars
  /\ \/ queue = "classic" /\ ClassicPop /\ UNCHANGED slotVars
     \/ queue = "caching" /\ CachingPop /\ UNCHANGED slotVars
     \/ queue = "slot" /\ SlotPop /\ UNCHANGED ringVars

(* The loop over the iterations ends and the thread function returns. *)
End(t) ==
  /\ stage[t] = "run"
  /\ done[t] = Iterations
  /\ stage' = [stage EXCEPT ![t] = "ended"]
  /\ UNCHANGED <<threadVars, ringVars, slotVars, queue, main, ready, start, sample>>

-----------------------------------------------------------------------------
Main == (\E t \in Threads : Spawn(t)) \/ OpenGate \/ Join \/ Reset

Thread(t) ==
  \/ ReportReady(t) \/ PassGate(t) \/ End(t)
  \/ t = Pusher /\ Push
  \/ t = Popper /\ Pop

Finished == main = "reset" /\ sample = Samples /\ UNCHANGED vars

Next == Main \/ (\E t \in Threads : Thread(t)) \/ Finished

Spec == Init /\ [][Next]_vars

(* Threads keep running, and a store becomes visible to the other thread in    *)
(* the end: a load that returns the old value again changes nothing, so weak *)
(* fairness of a thread's steps asks for one that does not.                  *)
FairSpec ==
  /\ Spec
  /\ WF_vars(Main)
  /\ \A t \in Threads : WF_vars(Thread(t))

-----------------------------------------------------------------------------
(***************************************************************************)
(* The plain accesses of the two threads to an element of data are ordered  *)
(* by the acquire loads and release stores of the indices or of the flag:   *)
(* none of the queues has a data race.  In the caching rings that must hold *)
(* although most calls look at no atomic of the other thread.               *)
(***************************************************************************)
RaceFree == ~racy

(* The queue the two threads see is the abstract one: a push takes effect at   *)
(* its release store, a pop when it has read its element.                    *)
Items == IF queue = "slot" THEN SlotItems ELSE RingItems
Hand == [c \in {Popper} |-> val]

Queue == INSTANCE AbstractQueue WITH
  Consumers <- {Popper},
  items <- Items,
  hand <- Hand

ImplementsQueue == Queue!Spec

(***************************************************************************)
(* Every sample ends, so no thread spins for ever: neither on a cached index *)
(* that is out of date, nor on a queue the other thread takes for the       *)
(* opposite of what it is.                                                  *)
(***************************************************************************)
Termination == <>(main = "reset" /\ sample = Samples)
=============================================================================
