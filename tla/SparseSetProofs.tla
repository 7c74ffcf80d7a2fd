-------------------------- MODULE SparseSetProofs --------------------------
(***************************************************************************)
(* What holds of SparseSet for every number of ids, objects and handles.    *)
(***************************************************************************)
EXTENDS SparseSet, TLAPS

(* The types and the shape of loop: what every step may rely on. *)
LoopShape == loop = [i |-> loop.i, pred |-> loop.pred, kept |-> loop.kept, on |-> loop.on]

TypeInv == TypeOK /\ LoopShape

(* The three invariants hold each other up: an erasure through a handle is    *)
(* only sound when valid handles have objects, and a handle only stays true  *)
(* when the position of its slot is found again.                             *)
Inv == TypeInv /\ IndexesInvertRids /\ HandleInv

(* A swap exchanges two values, leaves the others alone ... *)
LEMMA SwapValues ==
  ASSUME NEW f, DOMAIN f = ID, NEW i \in ID, NEW j \in ID
  PROVE  \A k \in ID : Swap(f, i, j)[k] =
           IF k = j THEN f[i] ELSE IF k = i THEN f[j] ELSE f[k]
  BY DEF Swap

(* ... and keeps the type of a vector. *)
LEMMA SwapType ==
  ASSUME NEW S, NEW f \in [ID -> S], NEW i \in ID, NEW j \in ID
  PROVE  Swap(f, i, j) \in [ID -> S]
  BY DEF Swap

(* The sizes as numbers, and the positions that are in use or free. *)
LEMMA Sizes ==
  ASSUME Inv
  PROVE  /\ size \in Nat /\ slots \in Nat /\ size <= slots /\ slots <= MaxIds
         /\ MaxIds \in Nat /\ MaxIds > 0 /\ MaxValidity \in Nat
         /\ \A k \in 0 .. slots - 1 : k \in ID
         /\ \A k \in ID : k \in Nat /\ k < MaxIds
<1>1. size \in 0 .. slots /\ slots \in 0 .. MaxIds
  BY DEF Inv, TypeInv, TypeOK
<1>2. MaxIds \in Nat /\ MaxIds > 0 /\ MaxValidity \in Nat
  BY SparseSetAssumption
<1> QED
  BY <1>1, <1>2 DEF ID

(* The vectors as functions, and the correspondence of ids and positions. *)
LEMMA Vectors ==
  ASSUME Inv
  PROVE  /\ m_data \in [ID -> Object \cup {None}] /\ validity_id \in [ID -> 0 .. MaxValidity]
         /\ rid \in [ID -> ID] /\ m_indexes \in [ID -> ID]
         /\ \A k \in 0 .. slots - 1 :
              /\ k \in ID
              /\ rid[k] \in ID /\ rid[k] \in 0 .. slots - 1 /\ m_indexes[rid[k]] = k
              /\ m_indexes[k] \in ID /\ m_indexes[k] \in 0 .. slots - 1 /\ rid[m_indexes[k]] = k
         /\ \A k \in ID : validity_id[k] \in Nat /\ validity_id[k] <= MaxValidity
<1>1. /\ m_data \in [ID -> Object \cup {None}] /\ validity_id \in [ID -> 0 .. MaxValidity]
      /\ rid \in [ID -> ID] /\ m_indexes \in [ID -> ID]
  BY DEF Inv, TypeInv, TypeOK
<1>2. ASSUME NEW k \in 0 .. slots - 1
      PROVE  /\ k \in ID
             /\ rid[k] \in ID /\ rid[k] \in 0 .. slots - 1 /\ m_indexes[rid[k]] = k
             /\ m_indexes[k] \in ID /\ m_indexes[k] \in 0 .. slots - 1 /\ rid[m_indexes[k]] = k
  <2>1. k \in ID
    BY Sizes
  <2>2. rid[k] \in ID /\ m_indexes[k] \in ID
    BY <1>1, <2>1
  <2>3. /\ rid[k] < slots /\ m_indexes[rid[k]] = k
        /\ m_indexes[k] < slots /\ rid[m_indexes[k]] = k
    BY DEF Inv, IndexesInvertRids
  <2>4. rid[k] \in 0 .. slots - 1 /\ m_indexes[k] \in 0 .. slots - 1
    BY <2>2, <2>3, Sizes
  <2> QED
    BY <2>1, <2>2, <2>3, <2>4
<1>3. ASSUME NEW k \in ID PROVE validity_id[k] \in Nat /\ validity_id[k] <= MaxValidity
  <2>1. validity_id[k] \in 0 .. MaxValidity
    BY <1>1
  <2> QED
    BY <2>1
<1> QED
  BY <1>1, <1>2, <1>3

(* Taking a slot keeps types and correspondence; a slot in use is not touched  *)
(* and a free one only moves on.                                             *)
LEMMA GetFreeSlotStep ==
  ASSUME Inv, GetFreeSlot
  PROVE  /\ size \in ID
         /\ rid' \in [ID -> ID]
         /\ validity_id' \in [ID -> 0 .. MaxValidity]
         /\ m_indexes' \in [ID -> ID]
         /\ slots' \in 0 .. MaxIds /\ size < slots' /\ slots <= slots'
         /\ IndexesInvertRids'
         /\ \A id \in 0 .. slots - 1 :
              /\ m_indexes'[id] = m_indexes[id]
              /\ validity_id'[m_indexes[id]] >= validity_id[m_indexes[id]]
              /\ m_indexes[id] < size => validity_id'[m_indexes[id]] = validity_id[m_indexes[id]]
<1>1. size < MaxIds
  BY DEF GetFreeSlot
<1>2. size \in ID
  BY <1>1, Sizes DEF ID
<1>3. CASE ReuseSlot
  <2>1. /\ slots > size /\ rid' = rid /\ slots' = slots
        /\ validity_id' = [validity_id EXCEPT ![size] = @ + 1]
        /\ validity_id[size] < MaxValidity
        /\ m_indexes' = [m_indexes EXCEPT ![rid[size]] = size]
    BY <1>3 DEF ReuseSlot
  <2>2. m_indexes' = m_indexes
    <3>1. size \in 0 .. slots - 1
      BY <2>1, Sizes
    <3>2. rid[size] \in ID /\ m_indexes[rid[size]] = size /\ m_indexes \in [ID -> ID]
      BY <3>1, Vectors
    <3> QED
      BY <3>2, <2>1
  <2>3. validity_id[size] + 1 \in 0 .. MaxValidity
    BY <1>2, <2>1, Vectors, Sizes
  <2>4. validity_id' \in [ID -> 0 .. MaxValidity]
    BY <2>1, <2>3, Vectors
  <2>5. \A k \in ID : validity_id'[k] = IF k = size THEN validity_id[k] + 1 ELSE validity_id[k]
    BY <1>2, <2>1, Vectors
  <2>6. IndexesInvertRids'
    BY <2>1, <2>2 DEF Inv, IndexesInvertRids
  <2>7. \A k \in 0 .. slots - 1 :
          /\ validity_id'[m_indexes[k]] >= validity_id[m_indexes[k]]
          /\ m_indexes[k] < size => validity_id'[m_indexes[k]] = validity_id[m_indexes[k]]
    <3> TAKE k \in 0 .. slots - 1
    <3>1. m_indexes[k] \in ID /\ m_indexes[k] \in Int /\ validity_id[m_indexes[k]] \in Nat
      BY Vectors, Sizes
    <3> QED
      BY <3>1, <2>5, Sizes
  <2>8. slots' \in 0 .. MaxIds /\ size < slots' /\ slots <= slots'
    BY <2>1, Sizes
  <2> QED
    BY <1>2, <2>1, <2>2, <2>4, <2>6, <2>7, <2>8, Vectors
<1>4. CASE NewSlot
  <2>1. /\ slots' = slots + 1 /\ slots = size
        /\ rid' = [rid EXCEPT ![size] = size]
        /\ validity_id' = [validity_id EXCEPT ![size] = 0]
        /\ m_indexes' = [m_indexes EXCEPT ![size] = size]
    BY <1>4 DEF NewSlot
  <2>2. rid' \in [ID -> ID] /\ m_indexes' \in [ID -> ID]
    BY <1>2, <2>1, Vectors
  <2>3. validity_id' \in [ID -> 0 .. MaxValidity]
    <3>1. 0 \in 0 .. MaxValidity
      BY Sizes
    <3> QED
      BY <3>1, <2>1, Vectors
  <2>4. \A k \in 0 .. slots - 1 :
          /\ rid'[k] = rid[k] /\ m_indexes'[k] = m_indexes[k] /\ validity_id'[k] = validity_id[k]
    <3> TAKE k \in 0 .. slots - 1
    <3>1. k # size /\ k \in ID
      BY <2>1, Sizes
    <3> QED
      BY <3>1, <2>1, Vectors
  <2>5. rid'[size] = size /\ m_indexes'[size] = size
    BY <1>2, <2>1, Vectors
  <2>6. IndexesInvertRids'
    <3> SUFFICES ASSUME NEW k \in 0 .. slots' - 1
                 PROVE  /\ rid'[k] < slots' /\ m_indexes'[rid'[k]] = k
                        /\ m_indexes'[k] < slots' /\ rid'[m_indexes'[k]] = k
      BY DEF IndexesInvertRids
    <3>1. CASE k = size
      BY <3>1, <2>1, <2>5, Sizes
    <3>2. CASE k # size
      <4>1. k \in 0 .. slots - 1
        BY <3>2, <2>1, Sizes
      <4>2. /\ rid[k] \in 0 .. slots - 1 /\ m_indexes[k] \in 0 .. slots - 1
            /\ m_indexes[rid[k]] = k /\ rid[m_indexes[k]] = k
        BY <4>1, Vectors
      <4>3. /\ rid'[k] = rid[k] /\ m_indexes'[rid[k]] = k
            /\ m_indexes'[k] = m_indexes[k] /\ rid'[m_indexes[k]] = k
        BY <4>1, <4>2, <2>4
      <4> QED
        BY <4>2, <4>3, <2>1, Sizes
    <3> QED
      BY <3>1, <3>2
  <2>7. \A k \in 0 .. slots - 1 :
          /\ validity_id[m_indexes[k]] \in Nat
          /\ validity_id'[m_indexes[k]] = validity_id[m_indexes[k]]
    BY <2>4, Vectors
  <2>8. slots' \in 0 .. MaxIds /\ size < slots' /\ slots <= slots'
    BY <1>1, <2>1, Sizes
  <2>9. \A k \in 0 .. slots - 1 : validity_id'[m_indexes[k]] >= validity_id[m_indexes[k]]
    BY <2>7
  <2> QED
    BY <1>2, <2>2, <2>3, <2>4, <2>6, <2>7, <2>8, <2>9
<1> QED
  BY <1>3, <1>4 DEF GetFreeSlot

(* So handles stay true when a slot is taken, whether its object follows or not. *)
LEMMA GetFreeSlotHandles ==
  ASSUME Inv, GetFreeSlot, UNCHANGED handles, size' \in {size, size + 1}
  PROVE  HandleInv'
<1> SUFFICES ASSUME NEW h \in handles
             PROVE  /\ h.id < slots'
                    /\ IF h.gone THEN h.validity_id < validity_id'[m_indexes'[h.id]]
                                 ELSE /\ h.validity_id = validity_id'[m_indexes'[h.id]]
                                      /\ m_indexes'[h.id] < size'
  BY DEF HandleInv
<1>1. h.id \in 0 .. slots - 1 /\ h.id \in ID /\ h.validity_id \in Nat
  BY DEF Inv, TypeInv, TypeOK, HandleInv, Handle, ID
<1>2. m_indexes[h.id] \in ID
  BY <1>1 DEF Inv, TypeInv, TypeOK
<1>3. validity_id[m_indexes[h.id]] \in Int /\ validity_id'[m_indexes[h.id]] \in Int
  BY <1>2, GetFreeSlotStep DEF Inv, TypeInv, TypeOK
<1>4. /\ m_indexes'[h.id] = m_indexes[h.id]
      /\ validity_id'[m_indexes[h.id]] >= validity_id[m_indexes[h.id]]
      /\ m_indexes[h.id] < size => validity_id'[m_indexes[h.id]] = validity_id[m_indexes[h.id]]
      /\ slots <= slots'
  BY <1>1, GetFreeSlotStep
<1>5. size \in Int /\ slots \in Int /\ slots' \in Int /\ size <= size'
  BY GetFreeSlotStep DEF Inv, TypeInv, TypeOK
<1>6. /\ h.id < slots
      /\ IF h.gone THEN h.validity_id < validity_id[m_indexes[h.id]]
                   ELSE /\ h.validity_id = validity_id[m_indexes[h.id]]
                        /\ m_indexes[h.id] < size
  BY DEF Inv, HandleInv
<1> QED
  BY <1>1, <1>2, <1>3, <1>4, <1>5, <1>6 DEF ID

(* The erasure of an id that has an object: the freed slot is at the first     *)
(* free position, one ahead of where it was, and all others keep their ids.  *)
LEMMA EraseStep ==
  ASSUME Inv, NEW id \in ID, id < slots, m_indexes[id] < size, EraseID(id)
  PROVE  /\ m_data' \in [ID -> Object \cup {None}]
         /\ size' \in 0 .. slots'
         /\ rid' \in [ID -> ID]
         /\ validity_id' \in [ID -> 0 .. MaxValidity]
         /\ m_indexes' \in [ID -> ID]
         /\ slots' = slots
         /\ IndexesInvertRids'
         /\ \A k \in 0 .. slots - 1 : validity_id'[m_indexes'[k]] =
              IF k = id THEN validity_id[m_indexes[k]] + 1 ELSE validity_id[m_indexes[k]]
         /\ \A k \in 0 .. slots - 1 : k # id /\ m_indexes[k] < size => m_indexes'[k] < size'
<1> DEFINE d == m_indexes[id]
           last == size - 1
           last_id == rid[last]
           bumped == [validity_id EXCEPT ![d] = @ + 1]
<1>1. id \in 0 .. slots - 1
  BY Sizes
<1>2. d \in ID /\ d \in 0 .. slots - 1 /\ rid[d] = id
  BY <1>1, Vectors
<1>3. last \in 0 .. slots - 1 /\ last \in ID /\ d <= last
  <2>1. last \in 0 .. slots - 1 /\ d <= last
    BY <1>2, Sizes
  <2> QED
    BY <2>1, Sizes
<1>4. last_id \in ID /\ last_id \in 0 .. slots - 1 /\ m_indexes[last_id] = last
  BY <1>3, Vectors
<1>5. /\ validity_id' = Swap(bumped, d, last)
      /\ rid' = Swap(rid, d, last)
      /\ m_indexes' = Swap(m_indexes, id, last_id)
      /\ m_data' = [Swap(m_data, d, last) EXCEPT ![last] = None]
      /\ size' = last /\ slots' = slots
      /\ validity_id[d] < MaxValidity
  BY DEF EraseID
<1>6. \A k \in 0 .. slots - 1 :
        /\ k # id => m_indexes[k] # d
        /\ k # last_id => m_indexes[k] # last
        /\ k # d => rid[k] # id
        /\ k # last => rid[k] # last_id
  BY <1>2, <1>4, Vectors
<1>7. size' \in 0 .. slots'
  BY <1>3, <1>5, Sizes
<1>8. m_indexes[id] = d /\ rid[last] = last_id /\ last = size - 1
  OBVIOUS
<1> HIDE DEF d, last, last_id
<1>9. bumped \in [ID -> 0 .. MaxValidity]
      /\ \A k \in ID : bumped[k] = IF k = d THEN validity_id[k] + 1 ELSE validity_id[k]
  <2>1. validity_id[d] + 1 \in 0 .. MaxValidity
    BY <1>2, <1>5, Vectors, Sizes
  <2> QED
    BY <1>2, <2>1, Vectors
<1> HIDE DEF bumped
<1>10. validity_id' \in [ID -> 0 .. MaxValidity]
       /\ \A k \in ID : validity_id'[k] =
            IF k = last THEN bumped[d] ELSE IF k = d THEN bumped[last] ELSE bumped[k]
  <2>1. bumped \in [ID -> 0 .. MaxValidity] /\ DOMAIN bumped = ID /\ d \in ID /\ last \in ID
    BY <1>2, <1>3, <1>9
  <2>2. Swap(bumped, d, last) \in [ID -> 0 .. MaxValidity]
    BY <2>1, SwapType
  <2>3. \A k \in ID : Swap(bumped, d, last)[k] =
          IF k = last THEN bumped[d] ELSE IF k = d THEN bumped[last] ELSE bumped[k]
    BY <2>1, SwapValues
  <2> QED
    BY <2>2, <2>3, <1>5
<1>11. rid' \in [ID -> ID]
       /\ \A k \in ID : rid'[k] = IF k = last THEN id ELSE IF k = d THEN last_id ELSE rid[k]
  <2>1. rid \in [ID -> ID] /\ DOMAIN rid = ID /\ d \in ID /\ last \in ID
    BY <1>2, <1>3, Vectors
  <2>2. Swap(rid, d, last) \in [ID -> ID]
    BY <2>1, SwapType
  <2>3. \A k \in ID : Swap(rid, d, last)[k] =
          IF k = last THEN rid[d] ELSE IF k = d THEN rid[last] ELSE rid[k]
    BY <2>1, SwapValues
  <2> QED
    BY <2>2, <2>3, <1>2, <1>5, <1>8
<1>12. m_indexes' \in [ID -> ID]
       /\ \A k \in ID : m_indexes'[k] =
            IF k = last_id THEN d ELSE IF k = id THEN last ELSE m_indexes[k]
  <2>1. m_indexes \in [ID -> ID] /\ DOMAIN m_indexes = ID /\ last_id \in ID
    BY <1>4, Vectors
  <2>2. Swap(m_indexes, id, last_id) \in [ID -> ID]
    BY <2>1, SwapType
  <2>3. \A k \in ID : Swap(m_indexes, id, last_id)[k] =
          IF k = last_id THEN m_indexes[id]
          ELSE IF k = id THEN m_indexes[last_id] ELSE m_indexes[k]
    BY <2>1, SwapValues
  <2> QED
    BY <2>2, <2>3, <1>4, <1>5, <1>8
<1>13. m_data' \in [ID -> Object \cup {None}]
  <2>1. m_data \in [ID -> Object \cup {None}]
    BY Vectors
  <2>2. Swap(m_data, d, last) \in [ID -> Object \cup {None}]
    BY <1>2, <1>3, <2>1, SwapType
  <2> QED
    BY <1>5, <2>2
<1>14. IndexesInvertRids'
  <2> SUFFICES ASSUME NEW k \in 0 .. slots - 1
               PROVE  /\ rid'[k] < slots /\ m_indexes'[rid'[k]] = k
                      /\ m_indexes'[k] < slots /\ rid'[m_indexes'[k]] = k
    BY <1>5 DEF IndexesInvertRids
  <2>1. /\ k \in ID
        /\ rid[k] \in ID /\ rid[k] < slots /\ m_indexes[rid[k]] = k
        /\ m_indexes[k] \in ID /\ m_indexes[k] < slots /\ rid[m_indexes[k]] = k
    BY Vectors, Sizes
  <2>2. d < slots /\ last < slots /\ last_id < slots
    BY <1>2, <1>3, <1>4, Sizes
  <2>3. rid'[k] < slots /\ m_indexes'[rid'[k]] = k
    <3>1. CASE k = last
      <4>1. rid'[k] = id
        BY <2>1, <3>1, <1>11
      <4>2. m_indexes'[id] = last
        <5>1. CASE id = last_id
          BY <5>1, <1>4, <1>8, <1>12
        <5>2. CASE id # last_id
          BY <5>2, <1>12
        <5> QED
          BY <5>1, <5>2
      <4> QED
        BY <3>1, <4>1, <4>2
    <3>2. CASE k # last /\ k = d
      BY <2>1, <2>2, <3>2, <1>4, <1>11, <1>12
    <3>3. CASE k # last /\ k # d
      <4>1. rid'[k] = rid[k] /\ rid[k] # id /\ rid[k] # last_id
        BY <2>1, <3>3, <1>6, <1>11
      <4> QED
        BY <4>1, <2>1, <1>12
    <3> QED
      BY <3>1, <3>2, <3>3
  <2>4. m_indexes'[k] < slots /\ rid'[m_indexes'[k]] = k
    <3>1. CASE k = last_id
      <4>1. m_indexes'[k] = d
        BY <2>1, <3>1, <1>12
      <4>2. rid'[d] = last_id
        <5>1. CASE d = last
          BY <5>1, <1>2, <1>8, <1>11
        <5>2. CASE d # last
          BY <5>2, <1>2, <1>11
        <5> QED
          BY <5>1, <5>2
      <4> QED
        BY <3>1, <4>1, <4>2, <2>2
    <3>2. CASE k # last_id /\ k = id
      BY <2>1, <2>2, <3>2, <1>3, <1>11, <1>12
    <3>3. CASE k # last_id /\ k # id
      <4>1. m_indexes'[k] = m_indexes[k] /\ m_indexes[k] # d /\ m_indexes[k] # last
        BY <2>1, <3>3, <1>6, <1>12
      <4> QED
        BY <4>1, <2>1, <1>11
    <3> QED
      BY <3>1, <3>2, <3>3
  <2> QED
    BY <2>3, <2>4
<1>15. ASSUME NEW k \in 0 .. slots - 1
       PROVE  /\ validity_id'[m_indexes'[k]] =
                   IF k = id THEN validity_id[m_indexes[k]] + 1 ELSE validity_id[m_indexes[k]]
              /\ k # id /\ m_indexes[k] < size => m_indexes'[k] < size'
  <2>1. k \in ID /\ m_indexes[k] \in ID /\ m_indexes[k] \in Int
    BY Vectors, Sizes
  <2>2. d \in Int /\ last \in Int /\ size \in Int
    BY <1>2, <1>3, Sizes
  <2>3. CASE k = id
    <3>1. m_indexes'[k] = last
      <4>1. CASE k = last_id
        BY <2>1, <2>3, <4>1, <1>4, <1>8, <1>12
      <4>2. CASE k # last_id
        BY <2>1, <2>3, <4>2, <1>12
      <4> QED
        BY <4>1, <4>2
    <3>2. validity_id'[last] = validity_id[d] + 1
      BY <1>2, <1>3, <1>9, <1>10
    <3> QED
      BY <2>3, <3>1, <3>2, <1>8
  <2>4. CASE k # id /\ k = last_id
    <3>1. m_indexes'[k] = d /\ m_indexes[k] = last /\ last # d
      BY <2>1, <2>4, <1>4, <1>6, <1>12
    <3>2. validity_id'[d] = validity_id[last]
      BY <3>1, <1>2, <1>3, <1>9, <1>10
    <3>3. d < size'
      BY <2>2, <3>1, <1>3, <1>5
    <3> QED
      BY <2>4, <3>1, <3>2, <3>3
  <2>5. CASE k # id /\ k # last_id
    <3>1. m_indexes'[k] = m_indexes[k] /\ m_indexes[k] # d /\ m_indexes[k] # last
      BY <2>1, <2>5, <1>6, <1>12
    <3>2. validity_id'[m_indexes[k]] = validity_id[m_indexes[k]]
      BY <2>1, <3>1, <1>9, <1>10
    <3>3. m_indexes[k] < size => m_indexes[k] < size'
      BY <2>1, <2>2, <3>1, <1>5, <1>8
    <3> QED
      BY <2>5, <3>1, <3>2, <3>3
  <2> QED
    BY <2>3, <2>4, <2>5
<1>16. \A k \in 0 .. slots - 1 :
         /\ validity_id'[m_indexes'[k]] =
              IF k = id THEN validity_id[m_indexes[k]] + 1 ELSE validity_id[m_indexes[k]]
         /\ k # id /\ m_indexes[k] < size => m_indexes'[k] < size'
  BY <1>15
<1> QED
  BY <1>5, <1>7, <1>10, <1>11, <1>12, <1>13, <1>14, <1>16


(* An erasure leaves a handle's fields alone, but for gone. *)
LEMMA ErasedHandles ==
  ASSUME Inv, NEW ids, NEW g \in Erased(ids)
  PROVE  \E h \in handles : /\ g.id = h.id /\ g.validity_id = h.validity_id
                            /\ g.gone <=> (h.gone \/ h.id \in ids)
                            /\ g \in Handle
<1>1. PICK h \in handles : g = [h EXCEPT !.gone = @ \/ h.id \in ids]
  BY DEF Erased
<1>2. h \in Handle
  BY DEF Inv, TypeInv, TypeOK
<1>3. g.id = h.id /\ g.validity_id = h.validity_id /\ g.gone = (h.gone \/ h.id \in ids)
  BY <1>1, <1>2 DEF Handle
<1>4. g \in Handle
  BY <1>1, <1>2 DEF Handle
<1> QED
  BY <1>3, <1>4

(* What HandleInv says of a handle, with the facts that make it arithmetic. *)
LEMMA HandleFacts ==
  ASSUME Inv, NEW h \in handles
  PROVE  /\ h.id \in 0 .. slots - 1 /\ h.id \in ID /\ h.validity_id \in Nat
         /\ m_indexes[h.id] \in ID /\ m_indexes[h.id] \in 0 .. slots - 1
         /\ validity_id[m_indexes[h.id]] \in Nat
         /\ h.gone => h.validity_id < validity_id[m_indexes[h.id]]
         /\ ~h.gone => /\ h.validity_id = validity_id[m_indexes[h.id]]
                       /\ m_indexes[h.id] < size
<1>1. h.id \in ID /\ h.validity_id \in Nat
  BY DEF Inv, TypeInv, TypeOK, Handle
<1>2. h.id < slots
  BY DEF Inv, HandleInv
<1>3. h.id \in 0 .. slots - 1
  BY <1>1, <1>2, Sizes
<1>4. /\ h.gone => h.validity_id < validity_id[m_indexes[h.id]]
      /\ ~h.gone => h.validity_id = validity_id[m_indexes[h.id]] /\ m_indexes[h.id] < size
  BY DEF Inv, HandleInv
<1> QED
  BY <1>1, <1>3, <1>4, Vectors

(* The erasure moves the slot past every handle to the object, and leaves the  *)
(* slots of the other handles alone, wherever they moved.                    *)
LEMMA EraseHandles ==
  ASSUME Inv, NEW id \in ID, id < slots, m_indexes[id] < size, EraseID(id)
  PROVE  HandleInv' /\ handles' \subseteq Handle
<1>1. handles' = Erased({id}) /\ slots' = slots
  BY DEF EraseID
<1>2. handles' \subseteq Handle
  BY <1>1, ErasedHandles
<1>3. ASSUME NEW g \in handles'
      PROVE  /\ g.id < slots'
             /\ g.gone => g.validity_id < validity_id'[m_indexes'[g.id]]
             /\ ~g.gone => /\ g.validity_id = validity_id'[m_indexes'[g.id]]
                           /\ m_indexes'[g.id] < size'
  <2>1. PICK h \in handles : /\ g.id = h.id /\ g.validity_id = h.validity_id
                             /\ g.gone <=> (h.gone \/ h.id = id)
    BY <1>1, ErasedHandles
  <2>2. /\ h.id \in 0 .. slots - 1 /\ h.validity_id \in Nat
        /\ validity_id[m_indexes[h.id]] \in Nat
        /\ h.gone => h.validity_id < validity_id[m_indexes[h.id]]
        /\ ~h.gone => h.validity_id = validity_id[m_indexes[h.id]] /\ m_indexes[h.id] < size
    BY HandleFacts
  <2>3. /\ validity_id'[m_indexes'[h.id]] =
             IF h.id = id THEN validity_id[m_indexes[h.id]] + 1 ELSE validity_id[m_indexes[h.id]]
        /\ h.id # id /\ m_indexes[h.id] < size => m_indexes'[h.id] < size'
    BY <2>2, EraseStep
  <2>4. h.id < slots
    BY <2>2, Sizes
  <2>5. CASE h.id = id
    BY <2>1, <2>2, <2>3, <2>4, <2>5, <1>1
  <2>6. CASE h.id # id
    BY <2>1, <2>2, <2>3, <2>4, <2>6, <1>1
  <2> QED
    BY <2>5, <2>6
<1>4. HandleInv'
  BY <1>3 DEF HandleInv
<1> QED
  BY <1>2, <1>4

(* An erasure, whatever it does with the loop, keeps the invariant. *)
LEMMA EraseInv ==
  ASSUME Inv, NEW id \in ID, id < slots, m_indexes[id] < size, EraseID(id), UNCHANGED loop
  PROVE  Inv'
<1>1. LoopShape' /\ (loop.i \in Nat /\ loop.pred \subseteq Object /\ loop.on \in BOOLEAN)'
  BY DEF Inv, TypeInv, TypeOK, LoopShape
<1>2. slots' \in 0 .. MaxIds
  BY EraseStep DEF Inv, TypeInv, TypeOK
<1>3. TypeInv'
  BY <1>1, <1>2, EraseStep, EraseHandles DEF TypeInv, TypeOK
<1> QED
  BY <1>3, EraseStep, EraseHandles DEF Inv

(* clear() moves every slot on and so past every handle. *)
LEMMA ClearInv ==
  ASSUME Inv, Clear
  PROVE  Inv'
<1>1. /\ \A i \in 0 .. slots - 1 : validity_id[i] < MaxValidity
      /\ m_data' = [i \in ID |-> None] /\ size' = 0
      /\ validity_id' = [i \in ID |-> IF i < slots THEN validity_id[i] + 1 ELSE validity_id[i]]
      /\ handles' = Erased(Live)
      /\ rid' = rid /\ m_indexes' = m_indexes /\ slots' = slots /\ loop' = loop
  BY DEF Clear
<1>2. validity_id' \in [ID -> 0 .. MaxValidity]
  <2> SUFFICES ASSUME NEW k \in ID
               PROVE  (IF k < slots THEN validity_id[k] + 1 ELSE validity_id[k]) \in 0 .. MaxValidity
    BY <1>1
  <2>1. validity_id[k] \in Nat /\ validity_id[k] <= MaxValidity /\ k \in Nat
    BY Vectors, Sizes
  <2>2. k < slots => validity_id[k] < MaxValidity
    BY <2>1, <1>1, Sizes
  <2> QED
    BY <2>1, <2>2, Sizes
<1>3. \A k \in 0 .. slots - 1 :
        validity_id'[m_indexes[k]] = validity_id[m_indexes[k]] + 1
  <2> TAKE k \in 0 .. slots - 1
  <2>1. m_indexes[k] \in ID /\ m_indexes[k] < slots
    BY Vectors, Sizes
  <2> QED
    BY <2>1, <1>1
<1>4. handles' \subseteq Handle
  BY <1>1, ErasedHandles
<1>5. ASSUME NEW g \in handles'
      PROVE  /\ g.id < slots
             /\ g.gone /\ g.validity_id < validity_id'[m_indexes[g.id]]
  <2>1. PICK h \in handles : /\ g.id = h.id /\ g.validity_id = h.validity_id
                             /\ g.gone <=> (h.gone \/ h.id \in Live)
    BY <1>1, ErasedHandles
  <2>2. /\ h.id \in 0 .. slots - 1 /\ h.validity_id \in Nat
        /\ m_indexes[h.id] \in 0 .. slots - 1
        /\ validity_id[m_indexes[h.id]] \in Nat
        /\ h.gone => h.validity_id < validity_id[m_indexes[h.id]]
        /\ ~h.gone => h.validity_id = validity_id[m_indexes[h.id]] /\ m_indexes[h.id] < size
    BY HandleFacts
  <2>3. ~h.gone => h.id \in Live
    <3>1. rid[m_indexes[h.id]] = h.id
      BY <2>2, Vectors
    <3>2. ~h.gone => m_indexes[h.id] \in 0 .. size - 1
      BY <2>2, Sizes
    <3> QED
      BY <3>1, <3>2 DEF Live
  <2>4. g.gone
    BY <2>1, <2>3
  <2>5. validity_id'[m_indexes[h.id]] = validity_id[m_indexes[h.id]] + 1
    BY <2>2, <1>3
  <2>6. h.validity_id <= validity_id[m_indexes[h.id]]
    BY <2>2
  <2>7. h.validity_id < validity_id'[m_indexes[h.id]]
    BY <2>2, <2>5, <2>6
  <2>8. h.id < slots
    BY <2>2, Sizes
  <2> QED
    BY <2>1, <2>4, <2>7, <2>8
<1>6. HandleInv'
  BY <1>1, <1>5 DEF HandleInv
<1>7. IndexesInvertRids'
  BY <1>1 DEF Inv, IndexesInvertRids
<1>8. TypeInv'
  <2>1. m_data' \in [ID -> Object \cup {None}]
    BY <1>1
  <2>2. size' \in 0 .. slots'
    BY <1>1, Sizes
  <2> QED
    BY <1>1, <1>2, <1>4, <2>1, <2>2 DEF Inv, TypeInv, TypeOK, LoopShape
<1> QED
  BY <1>6, <1>7, <1>8 DEF Inv

(* A handle made of an object is true. *)
LEMMA NewHandleInv ==
  ASSUME Inv, NEW idx \in ID, idx < size, NewHandle(idx)
  PROVE  Inv'
<1> DEFINE new == [id |-> rid[idx], validity_id |-> validity_id[idx], gone |-> FALSE]
<1>1. /\ handles' = handles \cup {new}
      /\ UNCHANGED <<m_data, size, rid, validity_id, m_indexes, slots, loop>>
  BY DEF NewHandle
<1>2. idx \in 0 .. slots - 1
  BY Sizes
<1>3. /\ rid[idx] \in ID /\ rid[idx] \in 0 .. slots - 1 /\ m_indexes[rid[idx]] = idx
      /\ validity_id[idx] \in Nat
  BY <1>2, Vectors
<1>4. new \in Handle
  BY <1>3 DEF Handle
<1>5. rid[idx] < slots
  BY <1>3, Sizes
<1>6. TypeInv'
  BY <1>1, <1>4 DEF Inv, TypeInv, TypeOK, LoopShape
<1>7. IndexesInvertRids'
  BY <1>1 DEF Inv, IndexesInvertRids
<1>8. new.id = rid[idx] /\ new.validity_id = validity_id[idx] /\ ~new.gone
  OBVIOUS
<1> HIDE DEF new
<1>9. HandleInv'
  <2> SUFFICES ASSUME NEW h \in handles \cup {new}
               PROVE  /\ h.id < slots
                      /\ IF h.gone THEN h.validity_id < validity_id[m_indexes[h.id]]
                                   ELSE /\ h.validity_id = validity_id[m_indexes[h.id]]
                                        /\ m_indexes[h.id] < size
    BY <1>1 DEF HandleInv
  <2>1. CASE h \in handles
    BY <2>1 DEF Inv, HandleInv
  <2>2. CASE h = new
    BY <2>2, <1>3, <1>5, <1>8
  <2> QED
    BY <2>1, <2>2
<1> QED
  BY <1>6, <1>7, <1>9 DEF Inv

(* An inserted object, or one whose insertion failed, keeps the invariant. *)
LEMMA PushInv ==
  ASSUME Inv, GetFreeSlot, UNCHANGED <<handles, loop>>,
         \/ UNCHANGED <<m_data, size>>
         \/ size' = size + 1 /\ \E o \in Object : m_data' = [m_data EXCEPT ![size] = o]
  PROVE  Inv'
<1>1. m_data' \in [ID -> Object \cup {None}]
  BY Vectors
<1>2. size' \in {size, size + 1}
  OBVIOUS
<1>3. size' \in 0 .. slots'
  BY <1>2, GetFreeSlotStep, Sizes
<1>4. TypeInv'
  BY <1>1, <1>3, GetFreeSlotStep DEF Inv, TypeInv, TypeOK, LoopShape
<1> QED
  BY <1>2, <1>4, GetFreeSlotStep, GetFreeSlotHandles DEF Inv

(* Steps that only touch the loop or drop a handle. *)
LEMMA QuietInv ==
  ASSUME Inv, UNCHANGED <<m_data, size, rid, validity_id, m_indexes, slots>>,
         handles' \subseteq handles, LoopShape',
         loop'.i \in Nat, loop'.pred \subseteq Object, loop'.on \in BOOLEAN
  PROVE  Inv'
<1>1. TypeInv'
  BY DEF Inv, TypeInv, TypeOK
<1>2. IndexesInvertRids'
  BY DEF Inv, IndexesInvertRids
<1>3. HandleInv'
  BY DEF Inv, HandleInv
<1> QED
  BY <1>1, <1>2, <1>3 DEF Inv

(* The empty set satisfies the invariant ... *)
LEMMA InitInv == Init => Inv
<1> SUFFICES ASSUME Init PROVE Inv
  OBVIOUS
<1>1. 0 \in ID /\ 0 \in 0 .. MaxValidity /\ 0 \in 0 .. MaxIds
  BY SparseSetAssumption DEF ID
<1>2. TypeOK
  BY <1>1 DEF Init, TypeOK, Idle
<1>3. LoopShape
  BY DEF Init, Idle, LoopShape
<1>4. IndexesInvertRids
  BY DEF Init, IndexesInvertRids
<1>5. HandleInv
  BY DEF Init, HandleInv
<1> QED
  BY <1>2, <1>3, <1>4, <1>5 DEF Inv, TypeInv

(* An id that is live has an object and may be erased. *)
LEMMA RidsHaveObjects ==
  ASSUME Inv, NEW i \in Nat, i < size
  PROVE  rid[i] \in ID /\ rid[i] < slots /\ m_indexes[rid[i]] < size /\ i \in ID
<1>1. i \in 0 .. slots - 1
  BY Sizes
<1> QED
  BY <1>1, Vectors, Sizes

(* ... every step keeps it ... *)
LEMMA NextInv == Inv /\ [Next]_vars => Inv'
<1> SUFFICES ASSUME Inv, [Next]_vars PROVE Inv'
  OBVIOUS
<1>a. /\ LoopShape /\ loop.i \in Nat /\ loop.pred \subseteq Object /\ loop.on \in BOOLEAN
      /\ \A id \in ID : id \in Nat
  BY Sizes DEF Inv, TypeInv, TypeOK
<1>1. ASSUME NEW o \in Object, PushBack(o) PROVE Inv'
  BY <1>1, PushInv DEF PushBack
<1>2. CASE PushBackThrows
  BY <1>2, PushInv DEF PushBackThrows
<1>3. ASSUME NEW id \in ID, Erase(id) PROVE Inv'
  <2>1. PICK i \in 0 .. size - 1 : id = rid[i]
    BY <1>3 DEF Erase, Live
  <2>2. i \in Nat /\ i < size
    BY Sizes
  <2>3. id < slots /\ m_indexes[id] < size
    BY <2>1, <2>2, RidsHaveObjects
  <2> QED
    BY <1>3, <2>3, EraseInv DEF Erase
<1>4. ASSUME NEW idx \in ID, EraseViaData(idx) PROVE Inv'
  <2>1. rid[idx] \in ID /\ rid[idx] < slots /\ m_indexes[rid[idx]] < size
    BY <1>4, <1>a, RidsHaveObjects DEF EraseViaData
  <2> QED
    BY <1>4, <2>1, EraseInv DEF EraseViaData
<1>5. ASSUME NEW h \in handles, EraseHandle(h) PROVE Inv'
  <2>1. h.validity_id = validity_id[m_indexes[h.id]]
    BY <1>5 DEF EraseHandle, IsValid
  <2>2. /\ h.id \in ID /\ h.id \in 0 .. slots - 1 /\ h.validity_id \in Nat
        /\ h.gone => h.validity_id < validity_id[m_indexes[h.id]]
        /\ ~h.gone => m_indexes[h.id] < size
    BY HandleFacts
  <2>3. h.id < slots /\ m_indexes[h.id] < size
    BY <2>1, <2>2, Sizes
  <2> QED
    BY <1>5, <2>2, <2>3, EraseInv DEF EraseHandle
<1>6. ASSUME NEW h \in handles, DropHandle(h) PROVE Inv'
  BY <1>6, <1>a, QuietInv DEF DropHandle, LoopShape
<1>7. CASE Clear
  BY <1>7, ClearInv
<1>8. ASSUME NEW id \in ID, CreateHandle(id) PROVE Inv'
  <2>1. id < slots /\ m_indexes[id] < size /\ NewHandle(m_indexes[id])
    BY <1>8 DEF CreateHandle
  <2>2. m_indexes[id] \in ID
    BY Vectors
  <2> QED
    BY <2>1, <2>2, NewHandleInv
<1>9. ASSUME NEW idx \in ID, CreateHandleFromData(idx) PROVE Inv'
  BY <1>9, NewHandleInv DEF CreateHandleFromData
<1>10. ASSUME NEW pred \in SUBSET Object, RemoveIf(pred) PROVE Inv'
  BY <1>10, QuietInv DEF RemoveIf, LoopShape
<1>11. CASE RemoveIfErase
  <2>1. /\ rid[loop.i] \in ID /\ rid[loop.i] < slots /\ m_indexes[rid[loop.i]] < size
        /\ EraseID(rid[loop.i]) /\ UNCHANGED loop
    BY <1>11, <1>a, RidsHaveObjects DEF RemoveIfErase
  <2> QED
    BY <2>1, EraseInv
<1>12. CASE RemoveIfKeep
  <2>1. /\ loop' = [loop EXCEPT !.i = @ + 1]
        /\ UNCHANGED <<m_data, size, rid, validity_id, m_indexes, slots, handles>>
    BY <1>12 DEF RemoveIfKeep
  <2>2. /\ LoopShape' /\ loop'.i = loop.i + 1
        /\ loop'.pred = loop.pred /\ loop'.on = loop.on
    BY <2>1, <1>a DEF LoopShape
  <2> QED
    BY <2>1, <2>2, <1>a, QuietInv
<1>13. CASE RemoveIfEnd
  BY <1>13, QuietInv DEF RemoveIfEnd, LoopShape, Idle
<1>14. CASE UNCHANGED vars
  BY <1>14, <1>a, QuietInv DEF vars, LoopShape
<1> QED
  BY <1>1, <1>2, <1>3, <1>4, <1>5, <1>6, <1>7, <1>8, <1>9, <1>10, <1>11, <1>12, <1>13, <1>14
     DEF Next

(* ... and so it holds for ever. *)
LEMMA Invariance == Spec => []Inv
  BY InitInv, NextInv, PTL DEF Spec

(* The types of SparseSet's variables, for every number of ids. *)
THEOREM TypeCorrect == Spec => []TypeOK
<1>1. Inv => TypeOK
  BY DEF Inv, TypeInv
<1> QED
  BY <1>1, Invariance, PTL

(* m_indexes and the rids of m_metadata undo each other after every sequence  *)
(* of insertions (also failed ones), erasures, clears and remove_ifs.        *)
THEOREM IndexesCorrect == Spec => []IndexesInvertRids
<1>1. Inv => IndexesInvertRids
  BY DEF Inv
<1> QED
  BY <1>1, Invariance, PTL

(* isValid() says of every handle whether its object is still in the set,     *)
(* however often slots were moved, freed and used again.                     *)
THEOREM HandlesCorrect == Spec => []HandlesTellTheTruth
<1>1. ASSUME Inv, NEW h \in handles PROVE IsValid(h) <=> ~h.gone
  <2>1. /\ h.validity_id \in Nat /\ validity_id[m_indexes[h.id]] \in Nat
        /\ h.gone => h.validity_id < validity_id[m_indexes[h.id]]
        /\ ~h.gone => h.validity_id = validity_id[m_indexes[h.id]]
    BY <1>1, HandleFacts
  <2>2. CASE h.gone
    <3>1. h.validity_id # validity_id[m_indexes[h.id]]
      BY <2>1, <2>2
    <3> QED
      BY <2>2, <3>1 DEF IsValid
  <2>3. CASE ~h.gone
    BY <2>1, <2>3 DEF IsValid
  <2> QED
    BY <2>2, <2>3
<1>2. Inv => HandlesTellTheTruth
  BY <1>1 DEF HandlesTellTheTruth
<1> QED
  BY <1>2, Invariance, PTL

-----------------------------------------------------------------------------
(***************************************************************************)
(* What the positions say about the map from ids to objects.                *)
(***************************************************************************)
(* The object at a position is the one its rid names. *)
Located ==
  /\ \A p \in 0 .. size - 1 :
       rid[p] \in Live /\ m_indexes[rid[p]] = p /\ Contents[rid[p]] = m_data[p]
  /\ DOMAIN Contents = Live
  /\ \A id \in Live : id \in 0 .. slots - 1 /\ m_indexes[id] \in 0 .. size - 1

(* The invariant gives the map from ids to objects its values. *)
LEMMA ContentsLocated == Inv => Located
<1> SUFFICES ASSUME Inv PROVE Located
  OBVIOUS
<1>1. ASSUME NEW p \in 0 .. size - 1
      PROVE  /\ rid[p] \in Live /\ m_indexes[rid[p]] = p /\ Contents[rid[p]] = m_data[p]
             /\ rid[p] \in 0 .. slots - 1
  <2>1. rid[p] \in Live
    BY DEF Live
  <2>2. p \in 0 .. slots - 1
    BY Sizes
  <2>3. m_indexes[rid[p]] = p /\ rid[p] \in 0 .. slots - 1
    BY <2>2, Vectors
  <2> QED
    BY <2>1, <2>3 DEF Contents
<1>2. \A id \in Live : id \in 0 .. slots - 1 /\ m_indexes[id] \in 0 .. size - 1
  BY <1>1 DEF Live
<1>3. DOMAIN Contents = Live
  BY DEF Contents
<1> QED
  BY <1>1, <1>2, <1>3 DEF Located

(* The same after a step that keeps the invariant. *)
LEMMA ContentsLocatedNext == Inv' => Located'
  BY ContentsLocated, PTL

(* An erasure leaves every position where it was but two: the last object      *)
(* takes the place of the erased one.                                        *)
LEMMA ErasePositions ==
  ASSUME Inv, NEW id \in ID, id < slots, m_indexes[id] < size, EraseID(id)
  PROVE  LET d == m_indexes[id]
         IN  /\ size' = size - 1 /\ size' \in ID /\ d \in 0 .. size' /\ rid[d] = id
             /\ \A p \in 0 .. size' - 1 :
                  IF p = d THEN rid'[p] = rid[size'] /\ m_data'[p] = m_data[size']
                           ELSE rid'[p] = rid[p] /\ m_data'[p] = m_data[p]
<1> DEFINE d == m_indexes[id]
           last == size - 1
<1>1. id \in 0 .. slots - 1
  BY Sizes
<1>2. d \in ID /\ d \in 0 .. slots - 1 /\ rid[d] = id
  BY <1>1, Vectors
<1>3. last \in 0 .. slots - 1 /\ last \in ID /\ d \in 0 .. last
  <2>1. last \in 0 .. slots - 1 /\ d \in 0 .. last
    BY <1>2, Sizes
  <2> QED
    BY <2>1, Sizes
<1>4. /\ rid' = Swap(rid, d, last) /\ size' = last
      /\ m_data' = [Swap(m_data, d, last) EXCEPT ![last] = None]
  BY DEF EraseID
<1>5. DOMAIN rid = ID /\ DOMAIN m_data = ID /\ m_data \in [ID -> Object \cup {None}]
  BY Vectors
<1>6. \A p \in 0 .. last - 1 : p \in ID /\ p # last
  BY <1>3, Sizes
<1> HIDE DEF d, last
<1>7. \A p \in ID : rid'[p] = IF p = last THEN rid[d] ELSE IF p = d THEN rid[last] ELSE rid[p]
  BY <1>2, <1>3, <1>4, <1>5, SwapValues
<1>8. \A p \in ID : p # last => m_data'[p] = IF p = d THEN m_data[last] ELSE m_data[p]
  <2>1. Swap(m_data, d, last) \in [ID -> Object \cup {None}]
    BY <1>2, <1>3, <1>5, SwapType
  <2>2. \A p \in ID : Swap(m_data, d, last)[p] =
          IF p = last THEN m_data[d] ELSE IF p = d THEN m_data[last] ELSE m_data[p]
    BY <1>2, <1>3, <1>5, SwapValues
  <2> QED
    BY <2>1, <2>2, <1>3, <1>4
<1>9. \A p \in 0 .. last - 1 :
        IF p = d THEN rid'[p] = rid[last] /\ m_data'[p] = m_data[last]
                 ELSE rid'[p] = rid[p] /\ m_data'[p] = m_data[p]
  BY <1>6, <1>7, <1>8
<1>10. size' = size - 1
  BY DEF EraseID
<1> QED
  BY <1>2, <1>3, <1>4, <1>9, <1>10 DEF d

(* So an erasure takes one id out of the map and leaves the others their objects. *)
LEMMA EraseContents ==
  ASSUME Inv, Inv', NEW id \in ID, id < slots, m_indexes[id] < size, EraseID(id)
  PROVE  /\ id \in Live /\ Live' = Live \ {id}
         /\ \A k \in Live' : Contents'[k] = Contents[k]
<1> DEFINE d == m_indexes[id]
<1>1. /\ size' = size - 1 /\ size' \in Nat /\ d \in 0 .. size' /\ rid[d] = id
      /\ \A p \in 0 .. size' - 1 :
           IF p = d THEN rid'[p] = rid[size'] /\ m_data'[p] = m_data[size']
                    ELSE rid'[p] = rid[p] /\ m_data'[p] = m_data[p]
  BY ErasePositions, Sizes
<1>2. Located /\ Located'
  BY ContentsLocated, ContentsLocatedNext
<1>3. d \in 0 .. size - 1 /\ size' \in 0 .. size - 1 /\ size \in Nat
  BY <1>1, Sizes
<1> HIDE DEF d
<1>4. id \in Live
  BY <1>1, <1>2, <1>3 DEF Located
<1>5. \A p, q \in 0 .. size - 1 : rid[p] = rid[q] => p = q
  BY <1>2 DEF Located
<1>6. ASSUME NEW p \in 0 .. size' - 1
      PROVE  /\ rid'[p] \in Live /\ rid'[p] # id
             /\ Contents'[rid'[p]] = Contents[rid'[p]]
  <2>1. p \in 0 .. size - 1 /\ p # size'
    BY <1>1, <1>3
  <2>2. Contents'[rid'[p]] = m_data'[p]
    BY <1>2 DEF Located
  <2>3. CASE p = d
    <3>1. rid'[p] = rid[size'] /\ m_data'[p] = m_data[size'] /\ size' # d
      BY <1>1, <2>1, <2>3
    <3> QED
      BY <3>1, <2>2, <1>1, <1>2, <1>3, <1>5 DEF Located
  <2>4. CASE p # d
    <3>1. rid'[p] = rid[p] /\ m_data'[p] = m_data[p]
      BY <1>1, <2>4
    <3> QED
      BY <3>1, <2>1, <2>2, <2>4, <1>1, <1>2, <1>3, <1>5 DEF Located
  <2> QED
    BY <2>3, <2>4
<1>7. ASSUME NEW k \in Live, k # id
      PROVE  k \in Live'
  <2>1. PICK q \in 0 .. size - 1 : k = rid[q]
    BY DEF Live
  <2>2. q # d
    BY <2>1, <1>1, <1>7
  <2>3. \A p \in 0 .. size' - 1 : rid'[p] \in Live'
    BY <1>2 DEF Located
  <2>4. CASE q = size'
    <3>1. d \in 0 .. size' - 1
      BY <1>1, <2>2, <2>4
    <3> QED
      BY <3>1, <2>1, <2>3, <2>4, <1>1
  <2>5. CASE q # size'
    <3>1. q \in 0 .. size' - 1
      BY <1>1, <2>5
    <3> QED
      BY <3>1, <2>1, <2>2, <2>3, <1>1
  <2> QED
    BY <2>4, <2>5
<1>8. \A k \in Live' : \E p \in 0 .. size' - 1 : k = rid'[p]
  BY DEF Live
<1>9. Live' = Live \ {id}
  BY <1>6, <1>7, <1>8
<1> QED
  BY <1>4, <1>6, <1>8, <1>9

(* The slot an insertion takes is that of an id no object has. *)
LEMMA PushContents ==
  ASSUME Inv, Inv', NEW o \in Object, PushBack(o)
  PROVE  /\ rid'[size] \in ID \ Live /\ Live' = Live \cup {rid'[size]}
         /\ \A k \in Live' : Contents'[k] = IF k = rid'[size] THEN o ELSE Contents[k]
<1>1. /\ GetFreeSlot /\ size' = size + 1
      /\ m_data' = [m_data EXCEPT ![size] = o]
  BY DEF PushBack
<1>2. size \in ID /\ rid' \in [ID -> ID] /\ size \in Nat
  BY <1>1, GetFreeSlotStep, Sizes
<1>3. Located /\ Located'
  BY ContentsLocated, ContentsLocatedNext
<1>4. \A p \in 0 .. size - 1 : p \in ID /\ p # size /\ p \in 0 .. size' - 1
  BY <1>1, Sizes
<1>5. \A p \in 0 .. size - 1 : rid'[p] = rid[p] /\ m_data'[p] = m_data[p]
  <2>1. rid' = rid \/ rid' = [rid EXCEPT ![size] = size]
    BY <1>1 DEF GetFreeSlot, ReuseSlot, NewSlot
  <2> QED
    BY <2>1, <1>1, <1>4, Vectors
<1>6. m_data'[size] = o
  BY <1>1, <1>2, Vectors
<1>7. size \in 0 .. size' - 1
  BY <1>1, <1>2
<1>8. \A p, q \in 0 .. size' - 1 : rid'[p] = rid'[q] => p = q
  BY <1>3 DEF Located
<1>9. \A p \in 0 .. size - 1 : rid[p] # rid'[size]
  BY <1>4, <1>5, <1>7, <1>8
<1>10. rid'[size] \in ID \ Live
  BY <1>2, <1>9 DEF Live
<1>11. \A p \in 0 .. size' - 1 : p = size \/ p \in 0 .. size - 1
  BY <1>1, <1>2
<1>12. Live' = Live \cup {rid'[size]}
  <2>1. Live' = {rid'[p] : p \in 0 .. size' - 1} /\ Live = {rid[p] : p \in 0 .. size - 1}
    BY DEF Live
  <2> QED
    BY <2>1, <1>4, <1>5, <1>7, <1>11
<1>13. ASSUME NEW k \in Live'
       PROVE  Contents'[k] = IF k = rid'[size] THEN o ELSE Contents[k]
  <2>1. PICK p \in 0 .. size' - 1 : k = rid'[p]
    BY DEF Live
  <2>2. Contents'[k] = m_data'[p]
    BY <2>1, <1>3 DEF Located
  <2>3. CASE p = size
    BY <2>1, <2>2, <2>3, <1>6
  <2>4. CASE p # size
    <3>1. p \in 0 .. size - 1
      BY <2>4, <1>11
    <3>2. k = rid[p] /\ m_data'[p] = m_data[p] /\ k # rid'[size]
      BY <3>1, <2>1, <1>5, <1>9
    <3> QED
      BY <3>1, <3>2, <2>2, <1>3 DEF Located
  <2> QED
    BY <2>3, <2>4
<1> QED
  BY <1>10, <1>12, <1>13

-----------------------------------------------------------------------------
(***************************************************************************)
(* remove_if and the map.                                                  *)
(***************************************************************************)
(* What remove_if may rely on between two objects: those before i stay, and    *)
(* the map still has everything the call is to leave.                        *)
LoopInv ==
  loop.on =>
    /\ loop.i <= size
    /\ \A p \in 0 .. loop.i - 1 : m_data[p] \notin loop.pred
    /\ loop.kept = [id \in {id \in Live : Contents[id] \notin loop.pred} |-> Contents[id]]

(* Outside of remove_if no step is bound by LoopInv. *)
LEMMA LoopIdle == ASSUME ~loop.on, UNCHANGED loop PROVE LoopInv'
  BY DEF LoopInv

(* A matching object goes, and the objects before i stay where they are. *)
LEMMA RemoveIfEraseLoop ==
  ASSUME Inv, Inv', LoopInv, RemoveIfErase
  PROVE  LoopInv'
<1>1. /\ loop.on /\ loop.i < size /\ m_data[loop.i] \in loop.pred
      /\ EraseID(rid[loop.i]) /\ loop' = loop
  BY DEF RemoveIfErase
<1>2. loop.i \in Nat /\ loop.i \in 0 .. size - 1
  BY <1>1, Sizes DEF Inv, TypeInv, TypeOK
<1> DEFINE id == rid[loop.i]
<1>3. id \in ID /\ id < slots /\ m_indexes[id] < size
  BY <1>1, <1>2, RidsHaveObjects
<1>4. Located /\ Located'
  BY ContentsLocated, ContentsLocatedNext
<1>5. m_indexes[id] = loop.i /\ Contents[id] \in loop.pred
  BY <1>1, <1>2, <1>4 DEF Located
<1>6. /\ size' = size - 1 /\ loop.i \in 0 .. size'
      /\ \A p \in 0 .. size' - 1 : p # loop.i => m_data'[p] = m_data[p]
  BY <1>1, <1>3, <1>5, ErasePositions
<1>7. \A p \in 0 .. loop.i - 1 : m_data'[p] \notin loop.pred
  <2>1. \A p \in 0 .. loop.i - 1 : p # loop.i /\ p \in 0 .. size' - 1
    BY <1>2, <1>6, Sizes
  <2> QED
    BY <2>1, <1>1, <1>6 DEF LoopInv
<1>8. Live' = Live \ {id} /\ \A k \in Live' : Contents'[k] = Contents[k]
  BY <1>1, <1>3, EraseContents
<1> HIDE DEF id
<1>9. {k \in Live' : Contents'[k] \notin loop.pred} = {k \in Live : Contents[k] \notin loop.pred}
  BY <1>5, <1>8
<1>10. loop.kept = [k \in {k \in Live' : Contents'[k] \notin loop.pred} |-> Contents'[k]]
  <2>1. loop.kept = [k \in {k \in Live : Contents[k] \notin loop.pred} |-> Contents[k]]
    BY <1>1 DEF LoopInv
  <2> QED
    BY <2>1, <1>8, <1>9
<1>11. loop.i <= size'
  BY <1>2, <1>6, Sizes
<1> QED
  BY <1>1, <1>7, <1>10, <1>11 DEF LoopInv

(* No operation disturbs a remove_if that is under way ... *)
LEMMA LoopInvStep == Inv /\ Inv' /\ LoopInv /\ [Next]_vars => LoopInv'
<1> SUFFICES ASSUME Inv, Inv', LoopInv, [Next]_vars PROVE LoopInv'
  OBVIOUS
<1>1. CASE RemoveIfErase
  BY <1>1, RemoveIfEraseLoop
<1>2. CASE RemoveIfKeep
  <2>1. /\ loop.on /\ loop.i < size /\ m_data[loop.i] \notin loop.pred
        /\ loop' = [loop EXCEPT !.i = @ + 1] /\ LoopShape /\ loop.i \in Nat
        /\ UNCHANGED <<m_data, size, rid, validity_id, m_indexes, slots, handles>>
    BY <1>2 DEF RemoveIfKeep, Inv, TypeInv, TypeOK
  <2>2. /\ loop'.i = loop.i + 1 /\ loop'.pred = loop.pred /\ loop'.kept = loop.kept
    BY <2>1 DEF LoopShape
  <2>3. Live' = Live /\ Contents' = Contents
    BY <2>1 DEF Live, Contents
  <2>4. loop'.i <= size
    BY <2>1, <2>2, Sizes
  <2>5. \A p \in 0 .. loop'.i - 1 : p = loop.i \/ p \in 0 .. loop.i - 1
    BY <2>1, <2>2
  <2>6. /\ \A p \in 0 .. loop.i - 1 : m_data[p] \notin loop.pred
        /\ loop.kept = [id \in {id \in Live : Contents[id] \notin loop.pred} |-> Contents[id]]
    BY <2>1 DEF LoopInv
  <2>7. \A p \in 0 .. loop'.i - 1 : m_data'[p] \notin loop'.pred
    BY <2>1, <2>2, <2>5, <2>6
  <2>8. loop'.kept = [id \in {id \in Live' : Contents'[id] \notin loop'.pred} |-> Contents'[id]]
    BY <2>2, <2>3, <2>6
  <2> QED
    BY <2>1, <2>4, <2>7, <2>8 DEF LoopInv
<1>3. CASE RemoveIfEnd
  BY <1>3 DEF RemoveIfEnd, Idle, LoopInv
<1>4. ASSUME NEW pred \in SUBSET Object, RemoveIf(pred) PROVE LoopInv'
  <2>1. /\ loop'.i = 0 /\ loop'.pred = pred
        /\ loop'.kept = [id \in {id \in Live : Contents[id] \notin pred} |-> Contents[id]]
    BY <1>4 DEF RemoveIf
  <2>2. size' = size /\ Live' = Live /\ Contents' = Contents
    BY <1>4 DEF RemoveIf, Live, Contents
  <2> QED
    BY <2>1, <2>2, Sizes DEF LoopInv
<1>5. CASE UNCHANGED vars
  <2>1. Live' = Live /\ Contents' = Contents
    BY <1>5 DEF vars, Live, Contents
  <2> QED
    BY <1>5, <2>1 DEF vars, LoopInv
<1>6. CASE ~loop.on /\ UNCHANGED loop
  BY <1>6, LoopIdle
<1> QED
  BY <1>1, <1>2, <1>3, <1>4, <1>5, <1>6
     DEF Next, PushBack, PushBackThrows, Erase, EraseViaData, EraseHandle, DropHandle, Clear,
         CreateHandle, CreateHandleFromData, NewHandle

(* ... and none has begun at first. *)
LEMMA LoopInvariance == Spec => []LoopInv
<1>1. Init => LoopInv
  BY DEF Init, Idle, LoopInv
<1>2. Inv /\ LoopInv /\ [Next]_vars => LoopInv'
  BY NextInv, LoopInvStep
<1> QED
  BY <1>1, <1>2, Invariance, PTL DEF Spec

(* remove_if leaves exactly the objects that do not match, each under its id,  *)
(* however many objects were moved behind its back.                          *)
THEOREM RemoveIfCorrect == Spec => []RemoveIfExact
<1>1. ASSUME Inv, LoopInv, loop.on, loop.i >= size PROVE Contents = loop.kept
  <2>1. loop.i \in Nat /\ Located
    BY <1>1, ContentsLocated DEF Inv, TypeInv, TypeOK
  <2>2. ASSUME NEW id \in Live PROVE Contents[id] \notin loop.pred
    <3>1. PICK p \in 0 .. size - 1 : id = rid[p]
      BY DEF Live
    <3>2. p \in 0 .. loop.i - 1
      BY <1>1, <2>1, Sizes
    <3> QED
      BY <1>1, <2>1, <3>1, <3>2 DEF LoopInv, Located
  <2>3. {id \in Live : Contents[id] \notin loop.pred} = Live
    BY <2>2
  <2>4. Contents = [id \in Live |-> Contents[id]]
    BY DEF Contents
  <2> QED
    BY <1>1, <2>3, <2>4 DEF LoopInv
<1>2. Inv /\ LoopInv => RemoveIfExact
  BY <1>1 DEF RemoveIfExact
<1> QED
  BY <1>2, Invariance, LoopInvariance, PTL

(* Every step of the set is a step of the map from ids to objects, or leaves   *)
(* the map alone.                                                            *)
LEMMA MapStep == Inv /\ Inv' /\ [Next]_vars => [SlotMap!Next]_Contents
<1> SUFFICES ASSUME Inv, Inv', [Next]_vars PROVE SlotMap!Next \/ Contents' = Contents
  OBVIOUS
<1>0. /\ DOMAIN Contents = Live /\ Contents = [k \in Live |-> Contents[k]]
      /\ Contents' = [k \in Live' |-> Contents'[k]]
  BY DEF Contents
<1>1. ASSUME NEW o \in Object, PushBack(o) PROVE SlotMap!Next
  <2> DEFINE id == rid'[size]
  <2>1. /\ id \in ID \ Live /\ Live' = Live \cup {id}
        /\ \A k \in Live' : Contents'[k] = IF k = id THEN o ELSE Contents[k]
    BY <1>1, PushContents
  <2> HIDE DEF id
  <2>2. Contents' = [k \in Live \cup {id} |-> IF k = id THEN o ELSE Contents[k]]
    BY <1>0, <2>1
  <2>3. SlotMap!Add(id, o)
    BY <1>0, <2>1, <2>2 DEF SlotMap!Add
  <2> QED
    BY <2>1, <2>3 DEF SlotMap!Next
<1>2. ASSUME NEW id \in ID, id < slots, m_indexes[id] < size, EraseID(id) PROVE SlotMap!Next
  <2>1. /\ id \in Live /\ Live' = Live \ {id}
        /\ \A k \in Live' : Contents'[k] = Contents[k]
    BY <1>2, EraseContents
  <2>2. Contents' = [k \in Live \ {id} |-> Contents[k]]
    BY <1>0, <2>1
  <2>3. SlotMap!Erase(id)
    BY <1>0, <2>1, <2>2 DEF SlotMap!Erase
  <2> QED
    BY <2>3 DEF SlotMap!Next
<1>3. CASE PushBackThrows
  <2>1. size' = size /\ m_data' = m_data /\ GetFreeSlot
    BY <1>3 DEF PushBackThrows
  <2>2. \A p \in 0 .. size - 1 : p \in ID /\ p # size
    BY Sizes
  <2>3. \A p \in 0 .. size - 1 : rid'[p] = rid[p]
    <3>1. rid' = rid \/ rid' = [rid EXCEPT ![size] = size]
      BY <2>1 DEF GetFreeSlot, ReuseSlot, NewSlot
    <3> QED
      BY <3>1, <2>2, Vectors
  <2>4. Live' = Live
    BY <2>1, <2>3 DEF Live
  <2>5. Located /\ Located'
    BY ContentsLocated, ContentsLocatedNext
  <2>6. \A p \in 0 .. size - 1 : Contents'[rid[p]] = Contents[rid[p]]
    BY <2>1, <2>3, <2>5 DEF Located
  <2>7. \A k \in Live : Contents'[k] = Contents[k]
    BY <2>6 DEF Live
  <2> QED
    BY <1>0, <2>4, <2>7
<1>4. CASE Clear
  <2>1. size' = 0
    BY <1>4 DEF Clear
  <2>2. Live' = {}
    BY <2>1 DEF Live
  <2>3. SlotMap!Clear
    BY <1>0, <2>2 DEF SlotMap!Clear
  <2> QED
    BY <2>3 DEF SlotMap!Next
<1>5. ASSUME NEW i \in Nat, i < size, EraseID(rid[i]) PROVE SlotMap!Next
  BY <1>2, <1>5, RidsHaveObjects
<1>6. ASSUME NEW id \in ID, Erase(id) PROVE SlotMap!Next
  <2>1. PICK i \in 0 .. size - 1 : id = rid[i]
    BY <1>6 DEF Erase, Live
  <2>2. i \in Nat /\ i < size
    BY Sizes
  <2> QED
    BY <1>5, <1>6, <2>1, <2>2 DEF Erase
<1>7. ASSUME NEW idx \in ID, EraseViaData(idx) PROVE SlotMap!Next
  BY <1>5, <1>7, Sizes DEF EraseViaData
<1>8. ASSUME NEW h \in handles, EraseHandle(h) PROVE SlotMap!Next
  <2>1. /\ h.id \in ID /\ h.id < slots /\ m_indexes[h.id] < size
    <3>1. h.validity_id = validity_id[m_indexes[h.id]]
      BY <1>8 DEF EraseHandle, IsValid
    <3> QED
      BY <3>1, HandleFacts, Sizes
  <2> QED
    BY <1>2, <1>8, <2>1 DEF EraseHandle
<1>9. CASE RemoveIfErase
  <2>1. loop.i \in Nat
    BY DEF Inv, TypeInv, TypeOK
  <2> QED
    BY <1>5, <1>9, <2>1 DEF RemoveIfErase
<1>10. CASE UNCHANGED <<m_data, size, rid, m_indexes>>
  BY <1>10 DEF Contents, Live
<1> QED
  BY <1>1, <1>3, <1>4, <1>6, <1>7, <1>8, <1>9, <1>10
     DEF Next, vars, CreateHandle, CreateHandleFromData, NewHandle, DropHandle, RemoveIf,
         RemoveIfKeep, RemoveIfEnd

(* Ids keep naming their objects: for every number of ids, the set implements  *)
(* the map from ids to objects in which only erased objects are lost.        *)
THEOREM MapImplemented == Spec => ImplementsSlotMap
<1>1. Init => SlotMap!Init
  <2> SUFFICES ASSUME Init PROVE Contents = [id \in {} |-> {}]
    BY DEF SlotMap!Init
  <2>1. Live = {}
    BY DEF Init, Live
  <2> QED
    BY <2>1 DEF Contents
<1> QED
  BY <1>1, MapStep, Invariance, PTL DEF Spec, ImplementsSlotMap, SlotMap!Spec

=============================================================================
