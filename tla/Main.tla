-------------------------------- MODULE Main --------------------------------
(***************************************************************************)
(* main.cpp: the functions main() calls, each as the calls of executeBench it *)
(* makes with the benchables it creates for them.  main() as it stands calls  *)
(* MPMCQueueBench; the others are commented in and out.                      *)
(***************************************************************************)
EXTENDS AllocationBench, Workloads

vars == <<runnerVars, heap, arr>>

runRNGBenchmark ==
  << <<Generator("Xoroshiro128plus", "Xoroshiro128+ RNG"),
       Generator("MersenneTwister", "Mersenne twister RNG")>> >>

runBranchPredictionBenchmark == << <<BranchPrediction("Sorted"), BranchPrediction("Unsorted")>> >>

runVectorRandomAccessBenchmark ==
  << <<VectorAccess("bool"), VectorAccess("char"), VectorAccess("uint8_t")>> >>

testSOA_AOS_Iteration ==
  << <<AOS("uint8_t"), SOA("uint8_t")>>,
     <<AOS("float"), SOA("float")>>,
     <<AOS("double"), SOA("double")>>,
     <<AOS("long_double"), SOA("long_double")>>,
     <<AOS("float16_t"), SOA("float16_t")>> >>

runAttributeBenchmark ==
  << <<AttributeOptimisation("LIKELY"), AttributeOptimisation("UNLIKELY"),
       AttributeOptimisation("DEFAULT"), AttributeOptimisation("BRANCHLESS")>> >>

runExecutionPolicyBenchmark ==
  << <<ExecutionPolicies("INDEXED_LOOP"), ExecutionPolicies("SEQUENCED"),
       ExecutionPolicies("UNSEQUENCED"), ExecutionPolicies("PARALLEL"),
       ExecutionPolicies("PARALLEL_UNSEQUENCED")>> >>

runReservedVectorBenchmark == << <<VectorWrapper(ZERO_BYTES)>> >>

runStringOptimsationBenchmark ==
  << <<StringRunner(15), StringRunner(16), StringRunner(17), StringRunner(18)>> >>

runArrayWriteBenchmark ==
  << <<ArrayWrite(0), ArrayWrite(7), ArrayWrite(8), ArrayWrite(13), ArrayWrite(16),
       ArrayWrite(32), ArrayWrite(55), ArrayWrite(56), ArrayWrite(57), ArrayWrite(58),
       ArrayWrite(59), ArrayWrite(63)>> >>

arrayFill ==
  << <<Generator("MersenneTwisterArrayFill", "Mersenne twister RNG"),
       Generator("Xoroshiro64ArrayFill", "Xoroshiro64 RNG"),
       Generator("Xoroshiro64BufferedArrayFill", "Buffered Xoroshiro64 RNG"),
       Generator("Xoroshiro64SIMDArrayFill", "SIMD Xoroshiro64 RNG")>> >>

ringBufferImplementations ==
  << <<QueueTester("BufferTester", "Classic ring buffer", 1),
       QueueTester("BufferTester", "Caching ring buffer", 1),
       QueueTester("BufferTester", "Condensed caching ring buffer", 1),
       QueueTester("BufferTester", "Slot ring buffer", 1)>> >>

allocatorBench ==
  << <<AllocationBench("NEW", FALSE, FALSE), AllocationBench("ARENA", FALSE, FALSE)>> >>

allocationAndDeletionBench ==
  << <<AllocationBench("NEW", TRUE, FALSE), AllocationBench("ARENA", TRUE, FALSE)>> >>

allocationAndDeletionAndVariableAllocBench ==
  << <<AllocationBench("NEW", TRUE, TRUE), AllocationBench("ARENA", TRUE, TRUE)>> >>

MPMCQueueBench ==
  << <<QueueTester("MPMCQueueTester", "Mutex MPMC Queue", 10),
       QueueTester("MPMCQueueTester", "Vyukov MPMC", 10)>> >>

-----------------------------------------------------------------------------
Init == RunnerInit /\ AllocationInit /\ WorkloadInit

MembersOf(b) == IF IsAllocation(b) THEN AllocationMembers(b) ELSE WorkloadMembers(b)

(* What the benchables of a call may be when they are made. *)
Made(call) ==
  {ms \in [DOMAIN call -> UNION {MembersOf(call[k]) : k \in DOMAIN call}] :
     \A k \in DOMAIN call : ms[k] \in MembersOf(call[k])}

(* main ends. *)
Ended ==
  /\ pc = "failed" \/ (pc = "returned" /\ Len(calls) = 1)
  /\ UNCHANGED vars

Next ==
  \/ Construct(Made(calls[1])) /\ ConstructArr /\ UNCHANGED heap
  \/ RunnerNext /\ UNCHANGED <<heap, arr>>
  \/ AllocationNext /\ UNCHANGED arr
  \/ WorkloadNext /\ UNCHANGED heap
  \/ Ended

Spec == Init /\ [][Next]_vars
=============================================================================
