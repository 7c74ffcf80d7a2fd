-------------------------- MODULE AbstractSlotMap --------------------------
(***************************************************************************)
(* What SparseSet promises: a map from ids to objects.  Adding an object    *)
(* gives it an id no other object has, and the id names that object, however *)
(* many others come and go, until it is erased (sparse_set.hpp:10-14).      *)
(***************************************************************************)
CONSTANTS ID, Object

VARIABLE contents   \* the object of every id in use

Init == contents = [id \in {} |-> {}]

Add(id, o) ==
  /\ id \in ID \ DOMAIN contents
  /\ contents' = [i \in DOMAIN contents \cup {id} |-> IF i = id THEN o ELSE contents[i]]

Erase(id) ==
  /\ id \in DOMAIN contents
  /\ contents' = [i \in DOMAIN contents \ {id} |-> contents[i]]

Clear == contents' = [id \in {} |-> {}]

Next ==
  \/ \E id \in ID, o \in Object : Add(id, o)
  \/ \E id \in ID : Erase(id)
  \/ Clear

Spec == Init /\ [][Next]_contents
=============================================================================
