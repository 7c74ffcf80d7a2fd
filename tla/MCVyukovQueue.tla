--------------------------- MODULE MCVyukovQueue ---------------------------
(* Small instances of VyukovQueue.  Threads of a kind run the same code and   *)
(* no property of the safety runs tells them apart, so they are symmetric.    *)
EXTENDS VyukovQueue, TLC

ThreadSymmetry == Permutations(Producers) \cup Permutations(Consumers)
=============================================================================
