------------------------------- MODULE MCMain -------------------------------
(* Small instances of Main.                                                  *)
EXTENDS Main

(* runReservedVectorBenchmark with its other vector, which is commented out,   *)
(* as for src/README.md:59.                                                  *)
bothVectors == << <<VectorWrapper(ZERO_BYTES), VectorWrapper(FIFTEEN_GIGABYTE)>> >>

(* Each function of main.cpp alone, the three allocation functions in a row,   *)
(* and two that leave something behind for others: the array, the heap.       *)
MCProgram ==
  {runRNGBenchmark, runBranchPredictionBenchmark, runVectorRandomAccessBenchmark,
   testSOA_AOS_Iteration, runAttributeBenchmark, runExecutionPolicyBenchmark,
   runReservedVectorBenchmark, runStringOptimsationBenchmark, runArrayWriteBenchmark,
   arrayFill, ringBufferImplementations, allocatorBench, allocationAndDeletionBench,
   allocationAndDeletionAndVariableAllocBench, MPMCQueueBench,
   allocatorBench \o allocationAndDeletionBench \o allocationAndDeletionAndVariableAllocBench,
   bothVectors, runReservedVectorBenchmark \o arrayFill \o bothVectors \o MPMCQueueBench}
VariableOnly == {allocationAndDeletionAndVariableAllocBench}

(* Below, at and above both thresholds of the two kinds of list.              *)
MCLists == {<<30000, 50001, 50000>>, <<50001, 30001, 29999>>}
MCTransforms == {<<"x", "y", "z">>}
=============================================================================
