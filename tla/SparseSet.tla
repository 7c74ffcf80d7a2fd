----------------------------- MODULE SparseSet -----------------------------
(***************************************************************************)
(* SparseSet and Handle (src/src/utils/sparse_set.hpp): a vector of objects *)
(* without gaps, with ids that stay the same when objects move.  m_indexes  *)
(* leads from an id to the position of its object, m_metadata from a        *)
(* position back to the id (rid); both keep the ids that are free, behind   *)
(* the objects.  A handle carries the validity_id its object's slot had     *)
(* when it was made.                                                        *)
(*                                                                         *)
(* A vector is a function on all positions it could ever have, with its     *)
(* length apart; m_metadata and m_indexes grow together (new_slots).        *)
(* One action per public operation; remove_if, which calls the predicate    *)
(* and erase in turn, takes a step for each object it looks at.             *)
(***************************************************************************)
EXTENDS Integers, FiniteSets

CONSTANTS
  Object,       \* what is stored
  None,         \* no object
  MaxIds,       \* most objects at a time (bounds the model)
  MaxValidity,  \* largest validity_id (bounds the model)
  MaxHandles    \* most handles around at a time (bounds the model)

ASSUME SparseSetAssumption ==
  /\ None \notin Object
  /\ MaxIds \in Nat \ {0}
  /\ MaxValidity \in Nat
  /\ MaxHandles \in Nat

VARIABLES
  m_data, size,             \* m_data and m_data.size()
  rid, validity_id,         \* the two fields of m_metadata ...
  m_indexes,
  slots,                    \* ... and its size(), also that of m_indexes
  handles,                  \* the handles clients hold
  loop                      \* the remove_if under way, or Idle

vars == <<m_data, size, rid, validity_id, m_indexes, slots, handles, loop>>

ID == 0 .. MaxIds - 1

(* A handle as a record; gone records that its object was erased since.      *)
Handle == [id : ID, validity_id : Nat, gone : BOOLEAN]

Live == {rid[i] : i \in 0 .. size - 1}
Contents == [id \in Live |-> m_data[m_indexes[id]]]

Idle == [i |-> 0, pred |-> {}, kept |-> {}, on |-> FALSE]

Init ==
  /\ m_data = [i \in ID |-> None] /\ size = 0
  /\ rid = [i \in ID |-> 0]
  /\ validity_id = [i \in ID |-> 0]
  /\ m_indexes = [i \in ID |-> 0]
  /\ slots = 0
  /\ handles = {}
  /\ loop = Idle

Swap(f, i, j) == [f EXCEPT ![i] = f[j], ![j] = f[i]]

(***************************************************************************)
(* push_back, emplace_back                                                 *)
(***************************************************************************)
(* getFreeSlot() when an id is free: its validity_id changes once more. *)
ReuseSlot ==
  /\ slots > size
  /\ validity_id[size] < MaxValidity
  /\ validity_id' = [validity_id EXCEPT ![size] = @ + 1]
  /\ m_indexes' = [m_indexes EXCEPT ![rid[size]] = size]
  /\ UNCHANGED <<rid, slots>>

(* Mutant: m_metadata and m_indexes do not grow. *)
NewSlotForgets ==
  /\ slots = size
  /\ rid' = [rid EXCEPT ![size] = size]
  /\ validity_id' = [validity_id EXCEPT ![size] = 0]
  /\ m_indexes' = [m_indexes EXCEPT ![size] = size]
  /\ UNCHANGED slots

(* getFreeSlot() when there is none. *)
NewSlot ==
  /\ slots = size
  /\ rid' = [rid EXCEPT ![size] = size]
  /\ validity_id' = [validity_id EXCEPT ![size] = 0]
  /\ m_indexes' = [m_indexes EXCEPT ![size] = size]
  /\ slots' = slots + 1

GetFreeSlot == size < MaxIds /\ (ReuseSlot \/ NewSlot)

PushBack(o) ==
  /\ ~loop.on
  /\ GetFreeSlot
  /\ m_data' = [m_data EXCEPT ![size] = o]
  /\ size' = size + 1
  /\ UNCHANGED <<handles, loop>>

(* m_data.push_back throws (no memory, or the object's constructor), after   *)
(* the slot was taken.                                                       *)
PushBackThrows ==
  /\ ~loop.on
  /\ GetFreeSlot
  /\ UNCHANGED <<m_data, size, handles, loop>>

(***************************************************************************)
(* erase(id)                                                               *)
(***************************************************************************)
Erased(ids) == {[h EXCEPT !.gone = @ \/ h.id \in ids] : h \in handles}

(* Mutant: the validity_id is changed after the swap. *)
EraseIDLate(id) ==
  LET data_id == m_indexes[id]
      last_data_id == size - 1
      swapped == Swap(validity_id, data_id, last_data_id)
  IN
  /\ validity_id' = [swapped EXCEPT ![data_id] = @ + 1]
  /\ m_data' = [Swap(m_data, data_id, last_data_id) EXCEPT ![last_data_id] = None]
  /\ rid' = Swap(rid, data_id, last_data_id)
  /\ m_indexes' = Swap(m_indexes, id, rid[last_data_id])
  /\ size' = size - 1
  /\ handles' = Erased({id})
  /\ UNCHANGED slots

(* Mutant: m_indexes is not swapped. *)
EraseIDForgets(id) ==
  LET data_id == m_indexes[id]
      last_data_id == size - 1
  IN
  /\ validity_id' =
       Swap([validity_id EXCEPT ![data_id] = @ + 1], data_id, last_data_id)
  /\ m_data' = [Swap(m_data, data_id, last_data_id) EXCEPT ![last_data_id] = None]
  /\ rid' = Swap(rid, data_id, last_data_id)
  /\ size' = size - 1
  /\ handles' = Erased({id})
  /\ UNCHANGED <<slots, m_indexes>>

EraseID(id) ==
  LET data_id == m_indexes[id]
      last_data_id == size - 1
      last_id == rid[last_data_id]
  IN
  /\ validity_id[data_id] < MaxValidity
  /\ validity_id' =
       Swap([validity_id EXCEPT ![data_id] = @ + 1], data_id, last_data_id)
  /\ m_data' = [Swap(m_data, data_id, last_data_id) EXCEPT ![last_data_id] = None]
  /\ rid' = Swap(rid, data_id, last_data_id)
  /\ m_indexes' = Swap(m_indexes, id, last_id)
  /\ size' = size - 1
  /\ handles' = Erased({id})
  /\ UNCHANGED slots

(* A client erases an id of an object. *)
Erase(id) ==
  /\ ~loop.on
  /\ id \in Live
  /\ EraseID(id)
  /\ UNCHANGED loop

EraseViaData(idx) ==
  /\ ~loop.on
  /\ idx < size
  /\ EraseID(rid[idx])
  /\ UNCHANGED loop

IsValid(h) == h.validity_id = validity_id[m_indexes[h.id]]

(* erase(handle): the handle need only pass isValid(). *)
EraseHandle(h) ==
  /\ ~loop.on
  /\ IsValid(h)
  /\ EraseID(h.id)
  /\ UNCHANGED loop

Clear ==
  /\ ~loop.on
  /\ \A i \in 0 .. slots - 1 : validity_id[i] < MaxValidity
  /\ m_data' = [i \in ID |-> None]
  /\ size' = 0
  /\ validity_id' = [i \in ID |-> IF i < slots THEN validity_id[i] + 1 ELSE validity_id[i]]
  /\ handles' = Erased(Live)
  /\ UNCHANGED <<rid, m_indexes, slots, loop>>

(***************************************************************************)
(* Handles                                                                 *)
(***************************************************************************)
NewHandle(idx) ==
  /\ ~loop.on
  /\ Cardinality(handles) < MaxHandles
  /\ handles' = handles \cup
       {[id |-> rid[idx], validity_id |-> validity_id[idx], gone |-> FALSE]}
  /\ UNCHANGED <<m_data, size, rid, validity_id, m_indexes, slots, loop>>

(* createHandle(id); its assertion says that the object exists. *)
CreateHandle(id) ==
  /\ id < slots
  /\ m_indexes[id] < size
  /\ NewHandle(m_indexes[id])

CreateHandleFromData(idx) ==
  /\ idx < size
  /\ NewHandle(idx)

(* A client lets a handle go. *)
DropHandle(h) ==
  /\ ~loop.on
  /\ handles' = handles \ {h}
  /\ UNCHANGED <<m_data, size, rid, validity_id, m_indexes, slots, loop>>

(***************************************************************************)
(* remove_if(predicate)                                                    *)
(***************************************************************************)
(* kept is what the call is to leave: the objects that do not match. *)
RemoveIf(pred) ==
  /\ ~loop.on
  /\ \A i \in 0 .. slots - 1 : validity_id[i] < MaxValidity   \* so that it can end
  /\ loop' = [i |-> 0, pred |-> pred, on |-> TRUE,
              kept |-> [id \in {id \in Live : Contents[id] \notin pred} |-> Contents[id]]]
  /\ UNCHANGED <<m_data, size, rid, validity_id, m_indexes, slots, handles>>

(* Mutant: i moves on after an object was erased too. *)
RemoveIfEraseSkips ==
  /\ loop.on /\ loop.i < size
  /\ m_data[loop.i] \in loop.pred
  /\ EraseID(rid[loop.i])
  /\ loop' = [loop EXCEPT !.i = @ + 1]

RemoveIfErase ==
  /\ loop.on /\ loop.i < size
  /\ m_data[loop.i] \in loop.pred
  /\ EraseID(rid[loop.i])
  /\ UNCHANGED loop

RemoveIfKeep ==
  /\ loop.on /\ loop.i < size
  /\ m_data[loop.i] \notin loop.pred
  /\ loop' = [loop EXCEPT !.i = @ + 1]
  /\ UNCHANGED <<m_data, size, rid, validity_id, m_indexes, slots, handles>>

RemoveIfEnd ==
  /\ loop.on /\ loop.i >= size
  /\ loop' = Idle
  /\ UNCHANGED <<m_data, size, rid, validity_id, m_indexes, slots, handles>>

-----------------------------------------------------------------------------
Next ==
  \/ \E o \in Object : PushBack(o)
  \/ PushBackThrows
  \/ \E id \in ID : Erase(id) \/ EraseViaData(id)
  \/ \E h \in handles : EraseHandle(h) \/ DropHandle(h)
  \/ Clear
  \/ \E id \in ID : CreateHandle(id) \/ CreateHandleFromData(id)
  \/ \E pred \in SUBSET Object : RemoveIf(pred)
  \/ RemoveIfErase \/ RemoveIfKeep \/ RemoveIfEnd

Spec == Init /\ [][Next]_vars

-----------------------------------------------------------------------------
TypeOK ==
  /\ m_data \in [ID -> Object \cup {None}]
  /\ size \in 0 .. slots
  /\ rid \in [ID -> ID]
  /\ validity_id \in [ID -> 0 .. MaxValidity]
  /\ m_indexes \in [ID -> ID]
  /\ slots \in 0 .. MaxIds
  /\ handles \subseteq Handle
  /\ loop.i \in Nat /\ loop.pred \subseteq Object /\ loop.on \in BOOLEAN

(***************************************************************************)
(* The ids handed out so far and the positions are in one-to-one            *)
(* correspondence, those of free ids included: m_indexes and rid undo each  *)
(* other after any sequence of insertions, erasures and failed insertions.  *)
(***************************************************************************)
IndexesInvertRids ==
  \A i \in 0 .. slots - 1 :
    /\ rid[i] < slots /\ m_indexes[rid[i]] = i
    /\ m_indexes[i] < slots /\ rid[m_indexes[i]] = i

(***************************************************************************)
(* A handle is valid exactly as long as its object is in the set: isValid() *)
(* returns "false if uninitialized or if the object has been erased from    *)
(* the vector, true otherwise" (sparse_set.hpp:66-69), also when the slot   *)
(* was used again, moved, or cleared and used again.                        *)
(***************************************************************************)
HandlesTellTheTruth == \A h \in handles : IsValid(h) <=> ~h.gone

(* Why: validity ids of a slot only grow, and a slot whose object is gone has *)
(* moved past every handle to it.                                            *)
HandleInv ==
  \A h \in handles :
    /\ h.id < slots
    /\ IF h.gone THEN h.validity_id < validity_id[m_indexes[h.id]]
                 ELSE /\ h.validity_id = validity_id[m_indexes[h.id]]
                      /\ m_indexes[h.id] < size

(* remove_if leaves exactly the objects that do not match, each under its id, *)
(* although every erasure moves an object it has not looked at yet.          *)
RemoveIfExact == loop.on /\ loop.i >= size => Contents = loop.kept

SlotMap == INSTANCE AbstractSlotMap WITH contents <- Contents

(* Ids keep naming their objects: the set implements a map from ids to        *)
(* objects, in which only the erased objects are lost.                       *)
ImplementsSlotMap == SlotMap!Spec
=============================================================================
