------------------------- MODULE MCMPMCQueueTester -------------------------
(* Small instances of MPMCQueueTester. *)
EXTENDS MPMCQueueTester, TLC
=============================================================================
