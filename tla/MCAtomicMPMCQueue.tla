------------------------- MODULE MCAtomicMPMCQueue -------------------------
(* Small instances of AtomicMPMCQueue. *)
EXTENDS AtomicMPMCQueue, TLC

ThreadSymmetry == Permutations(Producers) \cup Permutations(Consumers)
=============================================================================
