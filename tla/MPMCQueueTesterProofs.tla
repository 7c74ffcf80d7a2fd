----------------------- MODULE MPMCQueueTesterProofs -----------------------
(***************************************************************************)
(* What holds of MPMCQueueTester and its MutexQueue for every number of     *)
(* pairs of threads, of iterations and of samples.                          *)
(***************************************************************************)
EXTENDS MPMCQueueTester, SequenceTheorems, FiniteSetTheorems, TLAPS

PushPCs == {"push_lock", "push", "push_unlock"}
PopPCs == {"pop_lock", "empty", "front", "pop", "pop_unlock", "pop_fail"}

(* The types of the variables, of the queue's and of the tester's. *)
QueueTypes ==
  /\ m \in Threads \cup {None}
  /\ q \in Seq(Value)
  /\ pc \in [Threads -> {"idle"} \cup PushPCs \cup PopPCs]
  /\ \A p \in Producers : pc[p] \in {"idle"} \cup PushPCs
  /\ \A c \in Consumers : pc[c] \in {"idle"} \cup PopPCs
  /\ arg \in [Producers -> Value \cup {None}]
  /\ val \in [Consumers -> Value \cup {None}]

TesterTypes ==
  /\ main \in {"spawn", "wait", "join", "reset"}
  /\ stage \in [Threads -> {"none", "born", "gate", "run", "ended"}]
  /\ ready \in Nat
  /\ start \in BOOLEAN
  /\ done \in [Threads -> 0 .. Iterations]
  /\ sample \in Nat

(* The threads that hold the mutex: one, the one m names. *)
Holds(t) == pc[t] \in {"push", "push_unlock", "empty", "front", "pop", "pop_unlock", "pop_fail"}

MutexInv == \A t \in Threads : Holds(t) <=> m = t

(* A call is one of the iterations of a running thread; a pop that found the  *)
(* queue filled still finds it so at each of its steps.                      *)
CallInv ==
  /\ \A t \in Threads : pc[t] # "idle" => stage[t] = "run" /\ done[t] < Iterations
  /\ \A p \in Producers : pc[p] # "idle" => arg[p] = <<p, done[p]>>
  /\ \A c \in Consumers : pc[c] \in {"front", "pop"} => q # <<>>

(* The gate: ready counts the threads that have reported. *)
Reported == {t \in Threads : stage[t] \in {"gate", "run", "ended"}}

GateInv ==
  /\ ready = Cardinality(Reported)
  /\ start => Reported = Threads
  /\ \A t \in Threads : stage[t] \in {"run", "ended"} => start
  /\ \A t \in Threads : stage[t] = "ended" => done[t] = Iterations
  /\ main = "reset" => \A t \in Threads : stage[t] = "ended"

(* The calls of a sample that have put their value into the queue, and those   *)
(* that have taken one out: what is in the queue is the difference.          *)
Effective(t) == IF pc[t] \in {"push_unlock", "pop_unlock"} THEN done[t] + 1 ELSE done[t]

Pushed == {v \in Value : v[2] < Effective(v[1])}
Taken == {v \in Consumers \X (0 .. Iterations - 1) : v[2] < Effective(v[1])}

CountInv == Len(q) + Cardinality(Taken) = Cardinality(Pushed)

Inv == QueueTypes /\ TesterTypes /\ MutexInv /\ CallInv /\ GateInv /\ CountInv

-----------------------------------------------------------------------------
(* The threads of a sample are finitely many, and so are its calls. *)
LEMMA Finite ==
  /\ IsFiniteSet(Threads) /\ IsFiniteSet(Value)
  /\ IsFiniteSet(Consumers \X (0 .. Iterations - 1))
  /\ Cardinality(Value) = Iterations * Cardinality(Producers)
  /\ Cardinality(Consumers \X (0 .. Iterations - 1)) = Cardinality(Value)
  /\ Iterations \in Nat /\ Cardinality(Producers) \in Nat
<1> DEFINE Rounds == 0 .. Iterations - 1
<1>1. /\ IsFiniteSet(Producers) /\ IsFiniteSet(Consumers) /\ Iterations \in Nat
      /\ Cardinality(Producers) = Cardinality(Consumers)
  BY TesterAssumption
<1>2. IsFiniteSet(Rounds) /\ Cardinality(Rounds) = Iterations
  BY <1>1, FS_Interval
<1>3. Cardinality(Producers) \in Nat
  BY <1>1, FS_CardinalityType
<1>4. Value = Producers \X Rounds
  BY DEF Value
<1> HIDE DEF Rounds
<1>5. /\ IsFiniteSet(Producers \X Rounds)
      /\ Cardinality(Producers \X Rounds) = Cardinality(Producers) * Cardinality(Rounds)
  BY <1>1, <1>2, FS_Product, Zenon
<1>6. /\ IsFiniteSet(Consumers \X Rounds)
      /\ Cardinality(Consumers \X Rounds) = Cardinality(Consumers) * Cardinality(Rounds)
  BY <1>1, <1>2, FS_Product, Zenon
<1>7. IsFiniteSet(Threads)
  BY <1>1, FS_Union DEF Threads
<1>8. Cardinality(Producers) * Cardinality(Rounds) = Iterations * Cardinality(Producers)
  BY <1>1, <1>2, <1>3
<1>9. /\ IsFiniteSet(Consumers \X (0 .. Iterations - 1))
      /\ Cardinality(Consumers \X (0 .. Iterations - 1)) = Cardinality(Value)
  BY <1>1, <1>4, <1>5, <1>6, Zenon DEF Rounds
<1> QED
  BY <1>1, <1>3, <1>4, <1>5, <1>7, <1>8, <1>9

(* The two sets of calls are finite, with numbers of elements. *)
LEMMA CallsFinite ==
  /\ IsFiniteSet(Pushed) /\ Cardinality(Pushed) \in Nat
  /\ IsFiniteSet(Taken) /\ Cardinality(Taken) \in Nat
  /\ Cardinality(Pushed) <= Cardinality(Value)
<1>1. Pushed \in SUBSET Value /\ Taken \in SUBSET (Consumers \X (0 .. Iterations - 1))
  BY DEF Pushed, Taken
<1> QED
  BY <1>1, Finite, FS_Subset, FS_CardinalityType

(* The same of the sets after a step. *)
LEMMA CallsFiniteNext ==
  /\ IsFiniteSet(Pushed') /\ Cardinality(Pushed') \in Nat
  /\ IsFiniteSet(Taken') /\ Cardinality(Taken') \in Nat
<1>1. Pushed' \in SUBSET Value /\ Taken' \in SUBSET (Consumers \X (0 .. Iterations - 1))
  BY DEF Pushed, Taken
<1> QED
  BY <1>1, Finite, FS_Subset, FS_CardinalityType

(* A queue before any thread exists satisfies the invariant. *)
LEMMA InitInv == Init => Inv
<1> SUFFICES ASSUME Init PROVE Inv
  OBVIOUS
<1> USE DEF Init, QueueInit
<1>1. QueueTypes
  BY EmptySeq DEF QueueTypes, Threads
<1>2. TesterTypes
  <2>1. 0 \in 0 .. Iterations
    BY Finite
  <2> QED
    BY <2>1 DEF TesterTypes
<1>3. MutexInv
  BY TesterAssumption DEF MutexInv, Holds
<1>4. CallInv
  BY DEF CallInv, Threads
<1>5. GateInv
  <2>1. Reported = {}
    BY DEF Reported
  <2> QED
    BY <2>1, FS_EmptySet DEF GateInv
<1>6. CountInv
  <2>1. ASSUME NEW v \in Value PROVE v \notin Pushed
    BY DEF Pushed, Value, Threads, Effective
  <2>2. ASSUME NEW v \in Consumers \X (0 .. Iterations - 1) PROVE v \notin Taken
    BY DEF Taken, Threads, Effective
  <2>3. Pushed = {} /\ Taken = {}
    BY <2>1, <2>2 DEF Pushed, Taken
  <2>4. Len(q) = 0
    BY EmptySeq
  <2> QED
    BY <2>3, <2>4, FS_EmptySet DEF CountInv
<1> QED
  BY <1>1, <1>2, <1>3, <1>4, <1>5, <1>6 DEF Inv

-----------------------------------------------------------------------------
(***************************************************************************)
(* The steps of the tester.                                                *)
(***************************************************************************)
(* A step outside the calls leaves the queue, its threads' calls and their     *)
(* counts as they are.                                                       *)
LEMMA OutsideCalls ==
  ASSUME Inv, UNCHANGED <<queueVars, done>>, TesterTypes', GateInv',
         \A t \in Threads : pc[t] # "idle" => stage'[t] = stage[t]
  PROVE  Inv'
<1>1. UNCHANGED <<m, q, pc, arg, val, done>>
  BY DEF queueVars
<1>2. QueueTypes'
  BY <1>1 DEF Inv, QueueTypes
<1>3. MutexInv'
  BY <1>1 DEF Inv, MutexInv, Holds
<1>4. CallInv'
  BY <1>1 DEF Inv, CallInv
<1>5. Pushed' = Pushed /\ Taken' = Taken
  BY <1>1 DEF Pushed, Taken, Effective
<1>6. CountInv'
  BY <1>1, <1>5 DEF Inv, CountInv
<1> QED
  BY <1>2, <1>3, <1>4, <1>6 DEF Inv

(* The threads that have reported and the number that says how many. *)
LEMMA ReportedFacts ==
  ASSUME Inv
  PROVE  /\ Reported \in SUBSET Threads /\ IsFiniteSet(Reported)
         /\ Cardinality(Reported) = ready
         /\ ready = Cardinality(Threads) => Reported = Threads
<1>1. Reported \in SUBSET Threads
  BY DEF Reported
<1> QED
  BY <1>1, Finite, FS_Subset DEF Inv, GateInv

(* The main thread creates a thread. *)
LEMMA SpawnInv == ASSUME Inv, NEW t \in Threads, Spawn(t) PROVE Inv'
<1>1. /\ main = "spawn" /\ stage[t] = "none" /\ stage' = [stage EXCEPT ![t] = "born"]
      /\ UNCHANGED <<main, ready, start, done, sample>>
  BY DEF Spawn
<1>2. TesterTypes'
  BY <1>1 DEF Inv, TesterTypes
<1>3. Reported' = Reported
  BY <1>1 DEF Reported, Inv, TesterTypes
<1>4. GateInv'
  BY <1>1, <1>3 DEF Inv, GateInv, TesterTypes
<1>5. pc[t] = "idle"
  BY <1>1 DEF Inv, CallInv
<1> QED
  BY <1>1, <1>2, <1>4, <1>5, OutsideCalls DEF Spawn, Inv, TesterTypes

(* It has created all of them, opens the gate, or has joined them. *)
LEMMA GateInvMain ==
  ASSUME Inv, Spawned \/ OpenGate \/ Join
  PROVE  Inv'
<1>1. /\ UNCHANGED <<queueVars, done>> /\ stage' = stage /\ ready' = ready /\ sample' = sample
      /\ main' \in {"wait", "join", "reset"}
      /\ main' = "reset" => \A t \in Threads : stage[t] = "ended"
      /\ start' = start \/ (start' = TRUE /\ ready = Cardinality(Threads))
  BY DEF Spawned, OpenGate, Join
<1>2. TesterTypes'
  BY <1>1 DEF Inv, TesterTypes
<1>3. Reported' = Reported
  BY <1>1 DEF Reported
<1>4. GateInv'
  BY <1>1, <1>3, ReportedFacts DEF Inv, GateInv
<1> QED
  BY <1>1, <1>2, <1>4, OutsideCalls

(* When the queue is reset, every thread has returned and every value that     *)
(* was pushed has been popped.                                               *)
LEMMA AtReset ==
  ASSUME Inv, main = "reset"
  PROVE  q = <<>> /\ m = None /\ \A t \in Threads : pc[t] = "idle"
<1>1. \A t \in Threads : stage[t] = "ended" /\ pc[t] = "idle" /\ done[t] = Iterations
  BY DEF Inv, GateInv, CallInv
<1>2. m = None
  BY <1>1 DEF Inv, MutexInv, Holds, QueueTypes
<1>3. ASSUME NEW v \in Value PROVE v \in Pushed
  BY <1>1, Finite DEF Pushed, Value, Threads, Effective
<1>4. ASSUME NEW v \in Consumers \X (0 .. Iterations - 1) PROVE v \in Taken
  BY <1>1, Finite DEF Taken, Threads, Effective
<1>5. Pushed = Value /\ Taken = Consumers \X (0 .. Iterations - 1)
  BY <1>3, <1>4 DEF Pushed, Taken
<1>6. Len(q) \in Nat
  BY LenProperties DEF Inv, QueueTypes
<1>7. Len(q) = 0
  BY <1>5, <1>6, Finite, CallsFinite DEF Inv, CountInv
<1>8. q = <<>>
  BY <1>7, EmptySeq DEF Inv, QueueTypes
<1> QED
  BY <1>1, <1>2, <1>8

(* The reset: the next sample starts as the first one did. *)
LEMMA ResetInv == ASSUME Inv, Reset PROVE Inv'
<1>1. /\ main = "reset" /\ main' = "spawn" /\ stage' = [t \in Threads |-> "none"]
      /\ ready' = 0 /\ start' = FALSE /\ done' = [t \in Threads |-> 0]
      /\ sample' = sample + 1 /\ UNCHANGED <<m, q, pc, arg, val>>
  BY DEF Reset, queueVars
<1>2. q = <<>> /\ m = None /\ \A t \in Threads : pc[t] = "idle"
  BY <1>1, AtReset
<1>3. QueueTypes'
  BY <1>1 DEF Inv, QueueTypes
<1>4. TesterTypes'
  <2>1. 0 \in 0 .. Iterations
    BY Finite
  <2>2. sample + 1 \in Nat
    BY DEF Inv, TesterTypes
  <2> QED
    BY <1>1, <2>1, <2>2 DEF TesterTypes
<1>5. MutexInv'
  BY <1>1 DEF Inv, MutexInv, Holds
<1>6. CallInv'
  BY <1>1, <1>2 DEF CallInv, Threads
<1>7. GateInv'
  <2>1. Reported' = {}
    BY <1>1 DEF Reported
  <2> QED
    BY <1>1, <2>1, FS_EmptySet DEF GateInv
<1>8. CountInv'
  <2>1. ASSUME NEW v \in Value PROVE v \notin Pushed'
    BY <1>1, <1>2 DEF Pushed, Value, Threads, Effective
  <2>2. ASSUME NEW v \in Consumers \X (0 .. Iterations - 1) PROVE v \notin Taken'
    BY <1>1, <1>2 DEF Taken, Threads, Effective
  <2>3. Pushed' = {} /\ Taken' = {}
    BY <2>1, <2>2 DEF Pushed, Taken
  <2>4. Len(q') = 0
    BY <1>1, <1>2, EmptySeq
  <2> QED
    BY <2>3, <2>4, FS_EmptySet DEF CountInv
<1> QED
  BY <1>3, <1>4, <1>5, <1>6, <1>7, <1>8 DEF Inv

(* A thread reports: one more has, and one more is counted. *)
LEMMA ReportReadyInv == ASSUME Inv, NEW t \in Threads, ReportReady(t) PROVE Inv'
<1>1. /\ stage[t] = "born" /\ stage' = [stage EXCEPT ![t] = "gate"] /\ ready' = ready + 1
      /\ UNCHANGED <<queueVars, main, start, done, sample>>
  BY DEF ReportReady
<1>2. TesterTypes'
  BY <1>1 DEF Inv, TesterTypes
<1>3. t \notin Reported /\ Reported' = Reported \cup {t}
  BY <1>1 DEF Reported, Inv, TesterTypes
<1>4. Cardinality(Reported') = ready + 1
  BY <1>3, ReportedFacts, FS_AddElement
<1>5. GateInv'
  BY <1>1, <1>3, <1>4 DEF Inv, GateInv, TesterTypes
<1>6. pc[t] = "idle"
  BY <1>1 DEF Inv, CallInv
<1> QED
  BY <1>1, <1>2, <1>5, <1>6, OutsideCalls DEF Inv, TesterTypes

(* A thread passes the gate, or returns. *)
LEMMA PassOrEndInv == ASSUME Inv, NEW t \in Threads, PassGate(t) \/ End(t) PROVE Inv'
<1>1. /\ pc[t] = "idle" /\ stage[t] \in {"gate", "run"}
      /\ \/ stage' = [stage EXCEPT ![t] = "run"] /\ start
         \/ stage' = [stage EXCEPT ![t] = "ended"] /\ done[t] = Iterations /\ stage[t] = "run"
      /\ UNCHANGED <<queueVars, main, ready, start, done, sample>>
  BY DEF PassGate, End, Inv, CallInv
<1>2. TesterTypes'
  BY <1>1 DEF Inv, TesterTypes
<1>3. Reported' = Reported
  BY <1>1 DEF Reported, Inv, TesterTypes
<1>4. GateInv'
  BY <1>1, <1>3 DEF Inv, GateInv, TesterTypes
<1> QED
  BY <1>1, <1>2, <1>4, OutsideCalls DEF Inv, TesterTypes

-----------------------------------------------------------------------------
(***************************************************************************)
(* The steps of a call.                                                    *)
(***************************************************************************)
(* They leave the tester alone. *)
LEMMA CallGate ==
  ASSUME Inv, NEW t \in Threads, stage[t] = "run", UNCHANGED testerVars,
         \/ done' = done
         \/ done' = [done EXCEPT ![t] = @ + 1] /\ done[t] < Iterations
  PROVE  TesterTypes' /\ GateInv' /\ done' \in [Threads -> 0 .. Iterations]
<1>1. UNCHANGED <<main, stage, ready, start, sample>>
  BY DEF testerVars
<1>2. done \in [Threads -> 0 .. Iterations] /\ Iterations \in Nat
  BY Finite DEF Inv, TesterTypes
<1>3. done' \in [Threads -> 0 .. Iterations] /\ \A u \in Threads : u # t => done'[u] = done[u]
  BY <1>2
<1>4. TesterTypes'
  BY <1>1, <1>3 DEF Inv, TesterTypes
<1>5. Reported' = Reported
  BY <1>1 DEF Reported
<1>6. GateInv'
  BY <1>1, <1>3, <1>5 DEF Inv, GateInv
<1> QED
  BY <1>3, <1>4, <1>6

(* The mutex: a step takes it, gives it back, or is inside or outside of it. *)
LEMMA MutexStep ==
  ASSUME Inv, NEW t \in Threads, \A u \in Threads : u # t => pc'[u] = pc[u],
         \/ m' = m /\ (Holds(t)' <=> Holds(t))
         \/ m = None /\ m' = t /\ Holds(t)'
         \/ Holds(t) /\ m' = None /\ ~Holds(t)'
  PROVE  MutexInv' /\ m' \in Threads \cup {None}
<1>1. None \notin Threads
  BY TesterAssumption
<1>2. \A u \in Threads : u # t => (Holds(u)' <=> Holds(u))
  BY DEF Holds
<1> QED
  BY <1>1, <1>2 DEF Inv, MutexInv, QueueTypes

(* A step that puts no value in and takes none out. *)
LEMMA NoEffect ==
  ASSUME \A u \in Threads : Effective(u)' = Effective(u)
  PROVE  Pushed' = Pushed /\ Taken' = Taken
<1>1. \A v \in Value : v[1] \in Threads
  BY DEF Value, Threads
<1>2. \A v \in Consumers \X (0 .. Iterations - 1) : v[1] \in Threads
  BY DEF Threads
<1>3. \A v \in Value : v[2] < Effective(v[1])' <=> v[2] < Effective(v[1])
  BY <1>1
<1>4. \A v \in Consumers \X (0 .. Iterations - 1) :
        v[2] < Effective(v[1])' <=> v[2] < Effective(v[1])
  BY <1>2
<1>5. Pushed' = {v \in Value : v[2] < Effective(v[1])'}
      /\ Taken' = {v \in Consumers \X (0 .. Iterations - 1) : v[2] < Effective(v[1])'}
  BY DEF Pushed, Taken
<1> QED
  BY <1>3, <1>4, <1>5 DEF Pushed, Taken

(* A step that does adds one call to the one set or the other. *)
LEMMA OneEffect ==
  ASSUME Inv, NEW t \in Threads, done[t] < Iterations,
         Effective(t) = done[t], Effective(t)' = done[t] + 1,
         \A u \in Threads : u # t => Effective(u)' = Effective(u)
  PROVE  /\ t \in Producers => /\ Cardinality(Pushed') = Cardinality(Pushed) + 1
                               /\ Taken' = Taken
                               /\ Cardinality(Pushed) < Cardinality(Value)
         /\ t \in Consumers => /\ Cardinality(Taken') = Cardinality(Taken) + 1
                               /\ Pushed' = Pushed
<1>1. done[t] \in 0 .. Iterations - 1 /\ Producers \cap Consumers = {}
  BY Finite, TesterAssumption DEF Inv, TesterTypes
<1> DEFINE new == <<t, done[t]>>
<1>2. ASSUME NEW T, NEW S, t \in T, S = T \X (0 .. Iterations - 1), T \subseteq Threads
      PROVE  /\ {v \in S : v[2] < Effective(v[1])'} = {v \in S : v[2] < Effective(v[1])} \cup {new}
             /\ new \notin {v \in S : v[2] < Effective(v[1])}
             /\ new \in S
  <2>1. new \in S /\ new[1] = t /\ new[2] = done[t]
    BY <1>1, <1>2
  <2>2. ASSUME NEW v \in S
        PROVE  v[2] < Effective(v[1])' <=> (v[2] < Effective(v[1]) \/ v = new)
    <3>1. /\ v[1] \in T /\ v[2] \in 0 .. Iterations - 1 /\ v = <<v[1], v[2]>>
          /\ v[1] \in Threads
      BY <1>2
    <3>2. CASE v[1] = t
      <4>1. v[2] < done[t] + 1 <=> (v[2] < done[t] \/ v[2] = done[t])
        BY <3>1, <1>1
      <4>2. v = new <=> v[2] = done[t]
        BY <3>1, <3>2
      <4>3. Effective(v[1])' = Effective(t)' /\ Effective(v[1]) = Effective(t)
        BY <3>2
      <4> QED
        BY <4>1, <4>2, <4>3
    <3>3. CASE v[1] # t
      BY <3>1, <3>3
    <3> QED
      BY <3>2, <3>3
  <2>3. ~(new[2] < Effective(new[1]))
    BY <2>1, <1>1
  <2> HIDE DEF new
  <2>4. new \notin {v \in S : v[2] < Effective(v[1])}
    BY <2>3
  <2>5. {v \in S : v[2] < Effective(v[1])'} = {v \in S : v[2] < Effective(v[1])} \cup {new}
    BY <2>1, <2>2
  <2> QED
    BY <2>1, <2>4, <2>5
<1> HIDE DEF new
<1>3. ASSUME NEW T, NEW S, t \notin T, S = T \X (0 .. Iterations - 1), T \subseteq Threads
      PROVE  {v \in S : v[2] < Effective(v[1])'} = {v \in S : v[2] < Effective(v[1])}
  <2>1. ASSUME NEW v \in S PROVE v[2] < Effective(v[1])' <=> v[2] < Effective(v[1])
    <3>1. v[1] \in Threads /\ v[1] # t
      BY <1>3
    <3> QED
      BY <3>1
  <2> QED
    BY <2>1
<1>4. /\ Pushed' = {v \in Value : v[2] < Effective(v[1])'}
      /\ Pushed = {v \in Value : v[2] < Effective(v[1])}
      /\ Taken' = {v \in Consumers \X (0 .. Iterations - 1) : v[2] < Effective(v[1])'}
      /\ Taken = {v \in Consumers \X (0 .. Iterations - 1) : v[2] < Effective(v[1])}
  BY DEF Pushed, Taken
<1>5. Value = Producers \X (0 .. Iterations - 1)
  BY DEF Value
<1>6. CASE t \in Producers
  <2>1. Pushed' = Pushed \cup {new} /\ new \notin Pushed /\ new \in Value
    BY <1>2, <1>4, <1>5, <1>6 DEF Threads
  <2>2. Taken' = Taken
    <3>1. t \notin Consumers
      BY <1>1, <1>6
    <3> QED
      BY <3>1, <1>3, <1>4 DEF Threads
  <2>3. Cardinality(Pushed') = Cardinality(Pushed) + 1
    BY <2>1, CallsFinite, FS_AddElement
  <2>4. Cardinality(Pushed) < Cardinality(Value)
    <3>1. Pushed' \in SUBSET Value
      BY <1>4
    <3>2. Cardinality(Pushed') <= Cardinality(Value)
      BY <3>1, Finite, FS_Subset
    <3>3. Cardinality(Value) \in Nat
      BY Finite, FS_CardinalityType
    <3> QED
      BY <2>3, <3>2, <3>3, CallsFinite
  <2> QED
    BY <1>1, <1>6, <2>2, <2>3, <2>4
<1>7. CASE t \in Consumers
  <2>1. Taken' = Taken \cup {new} /\ new \notin Taken
    BY <1>2, <1>4, <1>7 DEF Threads
  <2>2. Pushed' = Pushed
    <3>1. t \notin Producers
      BY <1>1, <1>7
    <3> QED
      BY <3>1, <1>3, <1>4, <1>5 DEF Threads
  <2>3. Cardinality(Taken') = Cardinality(Taken) + 1
    BY <2>1, CallsFinite, FS_AddElement
  <2> QED
    BY <1>1, <1>7, <2>2, <2>3
<1> QED
  BY <1>6, <1>7 DEF Threads

(* What every step of a call by a thread starts from. *)
LEMMA CallFacts ==
  ASSUME Inv, NEW t \in Threads
  PROVE  /\ pc \in [Threads -> {"idle"} \cup PushPCs \cup PopPCs]
         /\ done \in [Threads -> 0 .. Iterations] /\ Iterations \in Nat /\ done[t] \in Nat
         /\ q \in Seq(Value) /\ Len(q) \in Nat
         /\ t \in Producers => t \notin Consumers
         /\ Cardinality(Pushed) \in Nat /\ Cardinality(Taken) \in Nat
         /\ Len(q) + Cardinality(Taken) = Cardinality(Pushed)
         /\ m \in Threads \cup {None} /\ None \notin Threads
<1>1. q \in Seq(Value) /\ Len(q) \in Nat
  BY LenProperties DEF Inv, QueueTypes
<1>2. /\ pc \in [Threads -> {"idle"} \cup PushPCs \cup PopPCs] /\ m \in Threads \cup {None}
      /\ done \in [Threads -> 0 .. Iterations]
  BY DEF Inv, QueueTypes, TesterTypes
<1>3. Len(q) + Cardinality(Taken) = Cardinality(Pushed)
  BY DEF Inv, CountInv
<1>4. Iterations \in Nat /\ Producers \cap Consumers = {} /\ None \notin Threads
  BY TesterAssumption
<1> QED
  BY <1>1, <1>2, <1>3, <1>4, CallsFinite

(* A push, step by step. *)
LEMMA PushInv == ASSUME Inv, NEW p \in Producers, Push(p) PROVE Inv'
<1>0. /\ p \in Threads /\ p \notin Consumers /\ stage[p] = "run" /\ UNCHANGED testerVars
  BY CallFacts DEF Push, Threads
<1>a. /\ pc \in [Threads -> {"idle"} \cup PushPCs \cup PopPCs]
      /\ done \in [Threads -> 0 .. Iterations] /\ Iterations \in Nat /\ done[p] \in Nat
      /\ arg \in [Producers -> Value \cup {None}] /\ val \in [Consumers -> Value \cup {None}]
      /\ \A t \in Producers : pc[t] \in {"idle"} \cup PushPCs
      /\ \A c \in Consumers : pc[c] \in {"idle"} \cup PopPCs
      /\ q \in Seq(Value)
  BY <1>0, CallFacts DEF Inv, QueueTypes
<1>b. /\ \A t \in Threads : pc[t] # "idle" => stage[t] = "run" /\ done[t] < Iterations
      /\ \A t \in Producers : pc[t] # "idle" => arg[t] = <<t, done[t]>>
      /\ \A c \in Consumers : pc[c] \in {"front", "pop"} => q # <<>>
  BY DEF Inv, CallInv
<1>c. stage' = stage
  BY <1>0 DEF testerVars
<1>1. CASE Running(p) /\ PushCall(p, <<p, done[p]>>) /\ UNCHANGED done
  <2>1. /\ pc[p] = "idle" /\ pc' = [pc EXCEPT ![p] = "push_lock"]
        /\ arg' = [arg EXCEPT ![p] = <<p, done[p]>>] /\ UNCHANGED <<m, q, val, done>>
        /\ done[p] < Iterations
    BY <1>1 DEF PushCall, Goto, Running
  <2>2. <<p, done[p]>> \in Value
    BY <2>1, <1>a DEF Value
  <2>3. MutexInv' /\ m' \in Threads \cup {None}
    BY <2>1, <1>0, <1>a, MutexStep DEF Holds
  <2>4. QueueTypes'
    BY <2>1, <2>2, <2>3, <1>0, <1>a DEF QueueTypes, PushPCs
  <2>5. CallInv'
    BY <2>1, <1>0, <1>a, <1>b, <1>c DEF CallInv, Threads
  <2>6. \A u \in Threads : Effective(u)' = Effective(u)
    BY <2>1, <1>0, <1>a DEF Effective
  <2>7. CountInv'
    BY <2>1, <2>6, NoEffect, CallFacts, <1>0 DEF CountInv
  <2> QED
    BY <2>1, <2>3, <2>4, <2>5, <2>7, <1>0, CallGate DEF Inv
<1>2. CASE PushLock(p) /\ UNCHANGED done
  <2>1. /\ pc[p] = "push_lock" /\ pc' = [pc EXCEPT ![p] = "push"] /\ m = None /\ m' = p
        /\ UNCHANGED <<q, arg, val, done>>
    BY <1>2 DEF PushLock, Lock, Goto
  <2>3. MutexInv' /\ m' \in Threads \cup {None}
    BY <2>1, <1>0, <1>a, MutexStep DEF Holds
  <2>4. QueueTypes'
    BY <2>1, <2>3, <1>0, <1>a DEF QueueTypes, PushPCs
  <2>5. CallInv'
    BY <2>1, <1>0, <1>a, <1>b, <1>c DEF CallInv, Threads
  <2>6. \A u \in Threads : Effective(u)' = Effective(u)
    BY <2>1, <1>0, <1>a DEF Effective
  <2>7. CountInv'
    BY <2>1, <2>6, NoEffect, CallFacts, <1>0 DEF CountInv
  <2> QED
    BY <2>1, <2>3, <2>4, <2>5, <2>7, <1>0, CallGate DEF Inv
<1>3. CASE PushBack(p) /\ UNCHANGED done
  <2>1. /\ pc[p] = "push" /\ pc' = [pc EXCEPT ![p] = "push_unlock"]
        /\ q' = Append(q, arg[p]) /\ UNCHANGED <<m, arg, val, done>>
    BY <1>3 DEF PushBack, Goto
  <2>2. arg[p] = <<p, done[p]>> /\ done[p] < Iterations /\ arg[p] \in Value
    <3>1. arg[p] = <<p, done[p]>> /\ done[p] < Iterations
      BY <2>1, <1>0, <1>b
    <3>2. done[p] \in 0 .. Iterations - 1
      BY <3>1, <1>a
    <3> QED
      BY <3>1, <3>2 DEF Value
  <2>3. MutexInv' /\ m' \in Threads \cup {None}
    BY <2>1, <1>0, <1>a, MutexStep, CallFacts DEF Holds
  <2>4. q' \in Seq(Value) /\ Len(q') = Len(q) + 1 /\ q' # <<>>
    BY <2>1, <2>2, <1>a, AppendProperties
  <2>5. QueueTypes'
    BY <2>1, <2>3, <2>4, <1>0, <1>a DEF QueueTypes, PushPCs
  <2>6. CallInv'
    BY <2>1, <2>4, <1>0, <1>a, <1>b, <1>c DEF CallInv, Threads
  <2>7. /\ Effective(p) = done[p] /\ Effective(p)' = done[p] + 1
        /\ \A u \in Threads : u # p => Effective(u)' = Effective(u)
    BY <2>1, <1>0, <1>a DEF Effective
  <2>8. Cardinality(Pushed') = Cardinality(Pushed) + 1 /\ Taken' = Taken
    BY <2>2, <2>7, <1>0, OneEffect
  <2>9. CountInv'
    BY <2>4, <2>8, <1>0, CallFacts DEF CountInv
  <2> QED
    BY <2>1, <2>3, <2>5, <2>6, <2>9, <1>0, CallGate DEF Inv
<1>4. CASE PushReturn(p) /\ done' = [done EXCEPT ![p] = @ + 1]
  <2>1. /\ pc[p] = "push_unlock" /\ pc' = [pc EXCEPT ![p] = "idle"] /\ m' = None
        /\ UNCHANGED <<q, arg, val>>
    BY <1>4 DEF PushReturn, Unlock, Goto
  <2>2. done[p] < Iterations
    BY <2>1, <1>0, <1>b
  <2>3. MutexInv' /\ m' \in Threads \cup {None}
    BY <2>1, <1>0, <1>a, MutexStep DEF Holds
  <2>4. QueueTypes'
    BY <2>1, <2>3, <1>0, <1>a DEF QueueTypes, PushPCs
  <2>5. CallInv'
    BY <2>1, <1>4, <1>0, <1>a, <1>b, <1>c DEF CallInv, Threads
  <2>6. \A u \in Threads : Effective(u)' = Effective(u)
    BY <2>1, <1>4, <1>0, <1>a DEF Effective
  <2>7. CountInv'
    BY <2>1, <2>6, NoEffect, CallFacts, <1>0 DEF CountInv
  <2> QED
    BY <1>4, <2>2, <2>3, <2>4, <2>5, <2>7, <1>0, CallGate DEF Inv
<1> QED
  BY <1>1, <1>2, <1>3, <1>4 DEF Push, PushInside

(* A pop, step by step. *)
LEMMA PopInv == ASSUME Inv, NEW c \in Consumers, Pop(c) PROVE Inv'
<1>0. /\ c \in Threads /\ c \notin Producers /\ stage[c] = "run" /\ UNCHANGED testerVars
  BY CallFacts DEF Pop, Threads
<1>a. /\ pc \in [Threads -> {"idle"} \cup PushPCs \cup PopPCs]
      /\ done \in [Threads -> 0 .. Iterations] /\ Iterations \in Nat /\ done[c] \in Nat
      /\ arg \in [Producers -> Value \cup {None}] /\ val \in [Consumers -> Value \cup {None}]
      /\ \A p \in Producers : pc[p] \in {"idle"} \cup PushPCs
      /\ \A d \in Consumers : pc[d] \in {"idle"} \cup PopPCs
      /\ q \in Seq(Value)
  BY <1>0, CallFacts DEF Inv, QueueTypes
<1>b. /\ \A t \in Threads : pc[t] # "idle" => stage[t] = "run" /\ done[t] < Iterations
      /\ \A p \in Producers : pc[p] # "idle" => arg[p] = <<p, done[p]>>
      /\ \A d \in Consumers : pc[d] \in {"front", "pop"} => q # <<>>
  BY DEF Inv, CallInv
<1>c. stage' = stage
  BY <1>0 DEF testerVars
<1>d. \A t \in Threads : Holds(t) => m = t
  BY DEF Inv, MutexInv
<1>1. CASE /\ UNCHANGED <<q, done, arg>>
           /\ \/ Running(c) /\ PopCall(c)
              \/ PopLock(c) \/ PopEmpty(c) \/ PopFront(c) \/ PopFail(c)
  <2>1. \/ pc[c] = "idle" /\ pc' = [pc EXCEPT ![c] = "pop_lock"] /\ m' = m /\ done[c] < Iterations
        \/ pc[c] = "pop_lock" /\ pc' = [pc EXCEPT ![c] = "empty"] /\ m = None /\ m' = c
        \/ pc[c] = "empty" /\ pc' = [pc EXCEPT ![c] = "pop_fail"] /\ m' = m
        \/ pc[c] = "empty" /\ pc' = [pc EXCEPT ![c] = "front"] /\ m' = m /\ q # <<>>
        \/ pc[c] = "front" /\ pc' = [pc EXCEPT ![c] = "pop"] /\ m' = m /\ q # <<>>
        \/ pc[c] = "pop_fail" /\ pc' = [pc EXCEPT ![c] = "idle"] /\ m' = None
    BY <1>1, <1>b DEF PopCall, PopLock, PopEmpty, PopFront, PopFail, Lock, Unlock, Goto, Running
  <2>2. PICK to \in {"idle"} \cup PopPCs : /\ pc' = [pc EXCEPT ![c] = to]
                                           /\ pc[c] # "pop_unlock" /\ to # "pop_unlock"
    BY <2>1 DEF PopPCs
  <2>3. MutexInv' /\ m' \in Threads \cup {None}
    BY <2>1, <1>0, <1>a, MutexStep DEF Holds
  <2>4. val' \in [Consumers -> Value \cup {None}]
    <3>1. CASE PopFront(c)
      <4>1. Head(q) \in Value /\ val' = [val EXCEPT ![c] = Head(q)]
        BY <3>1, <1>a, <1>b, HeadTailProperties DEF PopFront, Goto
      <4> QED
        BY <4>1, <1>a
    <3> QED
      BY <3>1, <1>1, <1>a DEF PopCall, PopLock, PopEmpty, PopFail, Lock, Unlock
  <2>5. QueueTypes'
    BY <2>2, <2>3, <2>4, <1>1, <1>0, <1>a DEF QueueTypes
  <2>6. CallInv'
    BY <2>1, <1>1, <1>0, <1>a, <1>b, <1>c DEF CallInv, Threads
  <2>7. \A u \in Threads : Effective(u)' = Effective(u)
    <3>1. done' = done /\ pc[c] # "push_unlock" /\ to # "push_unlock"
      BY <1>1, <1>0, <1>a, <2>1, <2>2 DEF PopPCs
    <3>2. Effective(c)' = done[c] /\ Effective(c) = done[c]
      BY <2>2, <3>1, <1>0, <1>a DEF Effective
    <3>3. \A u \in Threads : u # c => Effective(u)' = Effective(u)
      BY <2>2, <3>1, <1>0, <1>a DEF Effective
    <3> QED
      BY <3>2, <3>3
  <2>8. CountInv'
    BY <1>1, <2>7, NoEffect, CallFacts, <1>0 DEF CountInv
  <2> QED
    BY <1>1, <2>3, <2>5, <2>6, <2>8, <1>0, CallGate DEF Inv
<1>2. CASE PopPop(c) /\ UNCHANGED done
  <2>1. /\ pc[c] = "pop" /\ pc' = [pc EXCEPT ![c] = "pop_unlock"]
        /\ q' = Tail(q) /\ UNCHANGED <<m, arg, val, done>>
    BY <1>2 DEF PopPop, Goto
  <2>2. q # <<>> /\ done[c] < Iterations
    BY <2>1, <1>0, <1>b
  <2>3. MutexInv' /\ m' \in Threads \cup {None}
    BY <2>1, <1>0, <1>a, MutexStep, CallFacts DEF Holds
  <2>4. q' \in Seq(Value) /\ Len(q') = Len(q) - 1
    BY <2>1, <2>2, <1>a, HeadTailProperties
  <2>5. QueueTypes'
    BY <2>1, <2>3, <2>4, <1>0, <1>a DEF QueueTypes, PopPCs
  <2>6. CallInv'
    <3>1. \A d \in Consumers : pc'[d] \notin {"front", "pop"}
      BY <2>1, <1>0, <1>a, <1>d DEF Holds, Threads
    <3> QED
      BY <2>1, <3>1, <1>0, <1>a, <1>b, <1>c DEF CallInv, Threads
  <2>7. /\ Effective(c) = done[c] /\ Effective(c)' = done[c] + 1
        /\ \A u \in Threads : u # c => Effective(u)' = Effective(u)
    BY <2>1, <1>0, <1>a DEF Effective
  <2>8. Cardinality(Taken') = Cardinality(Taken) + 1 /\ Pushed' = Pushed
    BY <2>2, <2>7, <1>0, OneEffect
  <2>9. CountInv'
    BY <2>4, <2>8, <1>0, CallFacts DEF CountInv
  <2> QED
    BY <2>1, <2>3, <2>5, <2>6, <2>9, <1>0, CallGate DEF Inv
<1>3. CASE PopReturn(c) /\ done' = [done EXCEPT ![c] = @ + 1]
  <2>1. /\ pc[c] = "pop_unlock" /\ pc' = [pc EXCEPT ![c] = "idle"] /\ m' = None
        /\ UNCHANGED <<q, arg, val>>
    BY <1>3 DEF PopReturn, Unlock, Goto
  <2>2. done[c] < Iterations
    BY <2>1, <1>0, <1>b
  <2>3. MutexInv' /\ m' \in Threads \cup {None}
    BY <2>1, <1>0, <1>a, MutexStep DEF Holds
  <2>4. QueueTypes'
    BY <2>1, <2>3, <1>0, <1>a DEF QueueTypes, PopPCs
  <2>5. CallInv'
    BY <2>1, <1>3, <1>0, <1>a, <1>b, <1>c DEF CallInv, Threads
  <2>6. \A u \in Threads : Effective(u)' = Effective(u)
    BY <2>1, <1>3, <1>0, <1>a DEF Effective
  <2>7. CountInv'
    BY <2>1, <2>6, NoEffect, CallFacts, <1>0 DEF CountInv
  <2> QED
    BY <1>3, <2>2, <2>3, <2>4, <2>5, <2>7, <1>0, CallGate DEF Inv
<1> QED
  BY <1>1, <1>2, <1>3 DEF Pop, PopInside, PopCall, PopLock, PopEmpty, PopFront, PopFail, Lock, Unlock

-----------------------------------------------------------------------------
(***************************************************************************)
(* The theorems.                                                           *)
(***************************************************************************)
(* Every step keeps the invariant. *)
LEMMA NextInv == Inv /\ [Next]_vars => Inv'
<1> SUFFICES ASSUME Inv, [Next]_vars PROVE Inv'
  OBVIOUS
<1>1. ASSUME NEW t \in Threads, Spawn(t) PROVE Inv'
  BY <1>1, SpawnInv
<1>2. CASE Spawned \/ OpenGate \/ Join
  BY <1>2, GateInvMain
<1>3. CASE Reset
  BY <1>3, ResetInv
<1>4. ASSUME NEW t \in Threads, Thread(t) PROVE Inv'
  BY <1>4, ReportReadyInv, PassOrEndInv, PushInv, PopInv DEF Thread
<1>5. CASE UNCHANGED vars
  <2>1. UNCHANGED <<queueVars, main, stage, ready, start, done, sample>>
    BY <1>5 DEF vars, testerVars
  <2>2. TesterTypes'
    BY <2>1 DEF Inv, TesterTypes
  <2>3. Reported' = Reported
    BY <2>1 DEF Reported
  <2>4. GateInv'
    BY <2>1, <2>3 DEF Inv, GateInv
  <2> QED
    BY <2>1, <2>2, <2>4, OutsideCalls
<1> QED
  BY <1>1, <1>2, <1>3, <1>4, <1>5 DEF Next, Main, Finished

(* The invariant holds in every state. *)
LEMMA Invariance == Spec => []Inv
  BY InitInv, NextInv, PTL DEF Spec

(* The threads of a sample start together: however many there are, none runs   *)
(* before all of them have been created and have reported ready.             *)
THEOREM StartsTogether == Spec => []StartTogether
<1>1. Inv => StartTogether
  BY DEF Inv, GateInv, Reported, StartTogether
<1> QED
  BY <1>1, Invariance, PTL

(* A MutexQueue whose reset() does nothing is nevertheless empty, unlocked and *)
(* unused when a sample ends, for every number of threads and iterations: as  *)
(* many calls have taken a value out as have put one in.                     *)
THEOREM ResetIsClean == Spec => []CleanAtReset
<1>1. Inv => CleanAtReset
  BY AtReset DEF CleanAtReset
<1> QED
  BY <1>1, Invariance, PTL

-----------------------------------------------------------------------------
(***************************************************************************)
(* The refinement.                                                         *)
(***************************************************************************)
(* At most one consumer is between front() and pop(): the one that holds the   *)
(* mutex, with nobody else at the std::queue.                                *)
LEMMA VisibleFacts ==
  ASSUME Inv
  PROVE  /\ \A t \in Threads : Holds(t) /\ pc[t] # "pop" => Visible = q
         /\ \A c \in Consumers : pc[c] = "pop" => Visible = Tail(q)
         /\ m = None => Visible = q
<1>1. \A t \in Threads : Holds(t) <=> m = t
  BY DEF Inv, MutexInv
<1>2. \A c \in Consumers : c \in Threads /\ c # None /\ (pc[c] = "pop" => Holds(c))
  BY TesterAssumption DEF Threads, Holds
<1> QED
  BY <1>1, <1>2 DEF Visible

(* A step that leaves the std::queue and the consumers' places alone is none   *)
(* of the abstract queue's.                                                  *)
LEMMA SameVisible ==
  ASSUME Inv, Inv', q' = q, val' = val,
         \A c \in Consumers : pc'[c] = "pop" <=> pc[c] = "pop"
  PROVE  UNCHANGED <<Visible, val>>
  BY DEF Visible

(* The abstract queue's Next, step by step. *)
LEMMA PushRefines ==
  ASSUME Inv, Inv', NEW p \in Producers, Push(p)
  PROVE  [Queue!Next]_Queue!vars
<1>1. /\ p \in Threads /\ p \notin Consumers
      /\ pc \in [Threads -> {"idle"} \cup PushPCs \cup PopPCs]
      /\ done \in [Threads -> 0 .. Iterations] /\ Iterations \in Nat
      /\ Cardinality(Pushed) \in Nat /\ Cardinality(Taken) \in Nat
      /\ q \in Seq(Value) /\ Len(q) \in Nat
      /\ Len(q) + Cardinality(Taken) = Cardinality(Pushed)
  BY CallFacts DEF Threads
<1>2. CASE PushBack(p)
  <2>1. /\ pc[p] = "push" /\ pc' = [pc EXCEPT ![p] = "push_unlock"]
        /\ q' = Append(q, arg[p]) /\ UNCHANGED <<m, arg, val>>
    BY <1>2 DEF PushBack, Goto
  <2>2. done' = done
    BY <2>1, <1>1 DEF Push, PushReturn, Unlock, PushCall, Goto
  <2>3. done[p] < Iterations /\ arg[p] = <<p, done[p]>>
    BY <2>1, <1>1 DEF Inv, CallInv
  <2>4. done[p] \in 0 .. Iterations - 1
    BY <2>3, <1>1
  <2>5. arg[p] \in Value
    BY <2>3, <2>4 DEF Value
  <2>6. /\ Effective(p) = done[p] /\ Effective(p)' = done[p] + 1
        /\ \A u \in Threads : u # p => Effective(u)' = Effective(u)
    BY <2>1, <2>2, <1>1 DEF Effective
  <2>7. Cardinality(Pushed) < Iterations * Cardinality(Producers)
    BY <2>3, <2>6, <1>1, OneEffect, Finite
  <2>8. Iterations * Cardinality(Producers) \in Nat
    BY Finite
  <2>9. Visible = q /\ Visible' = q'
    <3>1. Visible = q
      BY <2>1, <1>1, VisibleFacts DEF Holds
    <3>2. \A c \in Consumers : pc'[c] = pc[c]
      BY <2>1, <1>1 DEF Threads
    <3>3. \A c \in Consumers : pc[c] # "pop"
      BY <2>1, <1>1, TesterAssumption DEF Inv, MutexInv, Holds, Threads
    <3> QED
      BY <3>1, <3>2, <3>3 DEF Visible
  <2>10. Len(Visible) < Iterations * Cardinality(Producers)
    BY <2>7, <2>8, <2>9, <1>1
  <2>11. Queue!Enqueue(arg[p])
    BY <2>1, <2>9, <2>10 DEF Queue!Enqueue
  <2> QED
    BY <2>5, <2>11 DEF Queue!Next
<1>3. CASE ~PushBack(p)
  <2>1. q' = q /\ val' = val /\ \A u \in Threads : u # p => pc'[u] = pc[u]
    BY <1>1, <1>3 DEF Push, PushCall, PushInside, PushLock, PushReturn, Lock, Unlock, Goto
  <2> QED
    BY <2>1, <1>1, SameVisible DEF Queue!vars, Threads
<1> QED
  BY <1>2, <1>3

(* A pop takes effect when it has read the front. *)
LEMMA PopRefines ==
  ASSUME Inv, Inv', NEW c \in Consumers, Pop(c)
  PROVE  [Queue!Next]_Queue!vars
<1>1. /\ c \in Threads
      /\ pc \in [Threads -> {"idle"} \cup PushPCs \cup PopPCs]
      /\ \A d \in Consumers : d \in Threads
  BY CallFacts DEF Threads
<1>2. CASE PopFront(c)
  <2>1. /\ pc[c] = "front" /\ pc' = [pc EXCEPT ![c] = "pop"]
        /\ val' = [val EXCEPT ![c] = Head(q)] /\ UNCHANGED <<m, q, arg>>
    BY <1>2 DEF PopFront, Goto
  <2>2. q # <<>>
    BY <2>1 DEF Inv, CallInv
  <2>3. Visible = q
    BY <2>1, <1>1, VisibleFacts DEF Holds
  <2>4. Visible' = Tail(q)
    BY <2>1, <1>1 DEF Visible
  <2>5. Queue!Dequeue(c)
    BY <2>1, <2>2, <2>3, <2>4 DEF Queue!Dequeue
  <2> QED
    BY <2>5 DEF Queue!Next
<1>3. CASE PopPop(c)
  <2>1. /\ pc[c] = "pop" /\ pc' = [pc EXCEPT ![c] = "pop_unlock"]
        /\ q' = Tail(q) /\ UNCHANGED <<m, arg, val>>
    BY <1>3 DEF PopPop, Goto
  <2>2. \A d \in Consumers : pc'[d] # "pop"
    BY <2>1, <1>1 DEF Inv, MutexInv, Holds
  <2>3. Visible = Tail(q)
    BY <2>1 DEF Visible
  <2>4. Visible' = Tail(q)
    BY <2>1, <2>2 DEF Visible
  <2> QED
    BY <2>1, <2>3, <2>4 DEF Queue!vars
<1>4. CASE ~PopFront(c) /\ ~PopPop(c)
  <2>1. q' = q /\ val' = val /\ pc[c] # "pop" /\ pc'[c] # "pop"
    BY <1>1, <1>4 DEF Pop, PopCall, PopInside, PopLock, PopEmpty, PopReturn, PopFail,
                      Lock, Unlock, Goto
  <2>2. \A u \in Threads : u # c => pc'[u] = pc[u]
    BY <1>1, <1>4 DEF Pop, PopCall, PopInside, PopLock, PopEmpty, PopReturn, PopFail,
                      Lock, Unlock, Goto
  <2> QED
    BY <2>1, <2>2, <1>1, SameVisible DEF Queue!vars
<1> QED
  BY <1>2, <1>3, <1>4

(* Every step of the program is one of the abstract queue's or changes nothing  *)
(* of it; the reset among them.                                              *)
LEMMA StepRefines ==
  ASSUME Inv, Inv', [Next]_vars
  PROVE  [Queue!Next]_Queue!vars
<1>1. CASE UNCHANGED queueVars
  BY <1>1, SameVisible DEF queueVars, Queue!vars
<1>2. ASSUME NEW p \in Producers, Push(p) PROVE [Queue!Next]_Queue!vars
  BY <1>2, PushRefines
<1>3. ASSUME NEW c \in Consumers, Pop(c) PROVE [Queue!Next]_Queue!vars
  BY <1>3, PopRefines
<1>4. \/ UNCHANGED queueVars
      \/ \E p \in Producers : Push(p)
      \/ \E c \in Consumers : Pop(c)
  BY DEF Next, Main, Thread, Finished, vars, Spawn, Spawned, OpenGate, Join, Reset,
         ReportReady, PassGate, End
<1> QED
  BY <1>1, <1>2, <1>3, <1>4

(* MutexQueue implements the abstract queue for every number of threads,       *)
(* iterations and samples: first in, first out, every value to one consumer,  *)
(* never more than one sample's values, nothing lost at the reset.           *)
THEOREM QueueImplemented == Spec => ImplementsQueue
<1>1. Init => Queue!Init
  BY DEF Init, QueueInit, Visible, Queue!Init, Threads
<1>2. Inv /\ Inv' /\ [Next]_vars => [Queue!Next]_Queue!vars
  BY StepRefines
<1> QED
  BY <1>1, <1>2, Invariance, PTL DEF Spec, ImplementsQueue, Queue!Spec
=============================================================================
