---------------------------- MODULE MCSparseSet ----------------------------
(* Small instances of SparseSet. *)
EXTENDS SparseSet, TLC

(* Objects are only told apart by the predicate of remove_if. *)
ObjectSymmetry == Permutations(Object)
=============================================================================
