------------------------------- MODULE Arena -------------------------------
(***************************************************************************)
(* Arena<true> (allocation/arena.hpp) with objects of any types: allocate<T,  *)
(* N>(), allocate<T>(n), emplace<T>() and reset().  AllocationBench only asks *)
(* it for bytes; here the padding matters.  Addresses are numbers; that an    *)
(* object fits is the caller's concern, as nothing compares current with end. *)
(***************************************************************************)
EXTENDS Integers, Sequences

CONSTANTS
  Type,       \* the types: records of size and align
  Count,      \* how many objects a call may ask for
  begin,      \* where new std::byte[CAPACITY] lies
  MaxObjects  \* most objects between two resets (bounds the model)

ASSUME ArenaAssumption ==
  /\ begin \in Nat /\ Count \subseteq Nat /\ MaxObjects \in Nat
  /\ \A T \in Type : T.size \in Nat \ {0} /\ T.align \in Nat \ {0}

VARIABLES
  current,  \* the next free byte
  objects   \* what was handed out since the last reset: ptr, type and number

arenaVars == <<current, objects>>

ArenaInit == current = begin /\ objects = <<>>

(* Mutant: nothing undoes the case of an aligned current. *)
PaddingFull(T) == T.align - (current % T.align)

(* "branchless increment to an aligned address" *)
Padding(T) == (T.align - (current % T.align)) % T.align

(* allocate<T, n>() and allocate<T>(n). *)
Allocate(T, n) ==
  /\ Len(objects) < MaxObjects
  /\ objects' = Append(objects, [ptr |-> current + Padding(T), type |-> T, count |-> n])
  /\ current' = current + Padding(T) + T.size * n

(* emplace<T>(): the object is made where it lies, before current moves on. *)
Emplace(T) ==
  /\ Len(objects) < MaxObjects
  /\ objects' = Append(objects, [ptr |-> current + Padding(T), type |-> T, count |-> 1])
  /\ current' = current + Padding(T) + T.size

Reset == current' = begin /\ objects' = <<>>

ArenaNext ==
  \/ \E T \in Type : Emplace(T) \/ \E n \in Count : Allocate(T, n)
  \/ Reset

ArenaSpec == ArenaInit /\ [][ArenaNext]_arenaVars

-----------------------------------------------------------------------------
EndOf(o) == o.ptr + o.type.size * o.count
EndBefore(k) == IF k = 1 THEN begin ELSE EndOf(objects[k - 1])

(***************************************************************************)
(* Every object lies where its type may, after all of the one before it and   *)
(* before the next free byte, and less than one alignment is wasted for it.   *)
(***************************************************************************)
ObjectsApart ==
  /\ \A k \in DOMAIN objects :
       /\ objects[k].ptr % objects[k].type.align = 0
       /\ objects[k].ptr - EndBefore(k) \in 0 .. objects[k].type.align - 1
  /\ current = EndBefore(Len(objects) + 1)
=============================================================================
