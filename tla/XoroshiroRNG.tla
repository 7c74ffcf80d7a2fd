---------------------------- MODULE XoroshiroRNG ----------------------------
(***************************************************************************)
(* XoroshiroRNG's fills and SequentialXoroshiroRNG                           *)
(* (src/src/utils/xoroshiro_64_star.hpp), with the two later versions of the  *)
(* latter (one_and_dones/no_unique_address.cpp).  advance() makes a batch of  *)
(* numbers, one per lane; the numbers themselves are left out, a number is   *)
(* its batch and its lane.  The fills for floats convert each number where   *)
(* it is and are otherwise those for integers.                               *)
(*                                                                           *)
(* Addresses count elements of 4 bytes, all fills' alignment is asserted to  *)
(* be at least that; a register holds BATCH_SIZE of them.  One object        *)
(* fills arrays, the other is a buffered one with a generator of its own.    *)
(***************************************************************************)
EXTENDS Integers, FiniteSets

CONSTANTS
  BATCH_SIZE,  \* numbers in a register
  MaxAddress,  \* largest address of an array (bounds the model)
  MaxElements, \* largest num_elements (bounds the model)
  MaxBatches   \* most batches of the sequential generator (bounds the model)

ASSUME XoroshiroAssumption ==
  BATCH_SIZE \in Nat \ {0} /\ MaxAddress \in Nat /\ MaxElements \in Nat /\ MaxBatches \in Nat

VARIABLES
  array, num_elements,      \* the parameters of the fill under way or the last one
  dst,                      \* its local variable, where it goes on
  filling,                  \* whether it is under way
  writes,                   \* what it wrote: triples of address, batch and lane
  batches,                  \* how many times advance() was called in it
  version, capabilities,    \* which buffered generator it is, and what it can be asked for
  made,                     \* the same as batches for its generator
  int_buffer, int_idx,      \* its buffers, as the batches they hold,
  float_buffer, float_idx,
  served                    \* and the numbers it returned

fillVars == <<array, num_elements, dst, filling, writes, batches>>
sequentialVars == <<version, capabilities, made, int_buffer, int_idx, float_buffer, float_idx, served>>
vars == <<fillVars, sequentialVars>>

Lane == 0 .. BATCH_SIZE - 1

FillInit ==
  /\ array = 0 /\ num_elements = 0 /\ dst = 0 /\ filling = FALSE
  /\ writes = {} /\ batches = 0

(* SequentialXoroshiroRNG and HeavyXoroshiroRNG fill both buffers.            *)
ConstructFilled ==
  /\ \/ version = "Sequential" /\ capabilities = {"uint32_t", "float"}
     \/ version = "Heavy" /\ capabilities = {"uint32_t", "int32_t", "float"}
  /\ made = 2
  /\ int_buffer = 1 /\ float_buffer = 2

(* BufferedXoroshiroRNG only seeds its generator: what its buffers hold is     *)
(* whatever lies there, here 0 and -1, which are no batches.  A buffer nothing *)
(* is asked of is empty, and not there.                                      *)
ConstructEmpty ==
  /\ version = "Buffered" /\ capabilities \in SUBSET {"uint32_t", "int32_t", "float"}
  /\ made = 0
  /\ int_buffer = 0 /\ float_buffer = -1

SequentialInit ==
  /\ ConstructFilled \/ ConstructEmpty
  /\ int_idx = 0 /\ float_idx = 0
  /\ served = {}

Init == FillInit /\ SequentialInit

(* The first count numbers of batch b, copied or stored to address d. *)
Copied(d, b, count) == {<<d + lane, b, lane>> : lane \in 0 .. count - 1}

-----------------------------------------------------------------------------
(***************************************************************************)
(* fill_partial_aligned_uint32 and _float                                    *)
(***************************************************************************)
NeededToAlign(d) == (BATCH_SIZE - (d % BATCH_SIZE)) % BATCH_SIZE

Call(d, n) == ~filling /\ array' = d /\ num_elements' = n

(* The array ends before the first boundary of a register, or at it. *)
FillShort(d, n) ==
  /\ Call(d, n)
  /\ n <= NeededToAlign(d)
  /\ writes' = Copied(d, 1, n)
  /\ batches' = 1
  /\ dst' = d
  /\ UNCHANGED <<filling, sequentialVars>>

(* Mutant: dst moves on to the boundary, but what was copied still counts. *)
FillHeadForgets(d, n) ==
  /\ Call(d, n)
  /\ n > NeededToAlign(d) /\ NeededToAlign(d) # 0
  /\ writes' = Copied(d, 1, NeededToAlign(d))
  /\ batches' = 1
  /\ dst' = d
  /\ filling' = TRUE
  /\ UNCHANGED sequentialVars

(* The elements before the boundary; the rest is left to fill_aligned. *)
FillHead(d, n) ==
  /\ Call(d, n)
  /\ n > NeededToAlign(d) /\ NeededToAlign(d) # 0
  /\ writes' = Copied(d, 1, NeededToAlign(d))
  /\ batches' = 1
  /\ dst' = d + NeededToAlign(d)
  /\ filling' = TRUE
  /\ UNCHANGED sequentialVars

(* fill_aligned_uint32 and _float, which assert the alignment; the others come *)
(* here too if there is nothing to align.                                     *)
FillAligned(d, n) ==
  /\ Call(d, n)
  /\ d % BATCH_SIZE = 0
  /\ writes' = {} /\ batches' = 0
  /\ dst' = d
  /\ filling' = TRUE
  /\ UNCHANGED sequentialVars

(***************************************************************************)
(* The rest of fill_aligned_uint32 and _float                                *)
(***************************************************************************)
End == array + num_elements
Remainder == End % BATCH_SIZE
AlignedEnd == End - Remainder

(* store_si or store_ps of a batch. *)
StoreBatch ==
  /\ filling /\ dst < AlignedEnd
  /\ writes' = writes \cup Copied(dst, batches + 1, BATCH_SIZE)
  /\ batches' = batches + 1
  /\ dst' = dst + BATCH_SIZE
  /\ UNCHANGED <<array, num_elements, filling, sequentialVars>>

(* memcpy of the elements that are left, if there are some, and the return. *)
FillRemainder ==
  /\ filling /\ dst >= AlignedEnd
  /\ IF Remainder # 0
     THEN writes' = writes \cup Copied(dst, batches + 1, Remainder) /\ batches' = batches + 1
     ELSE UNCHANGED <<writes, batches>>
  /\ filling' = FALSE
  /\ UNCHANGED <<array, num_elements, dst, sequentialVars>>

-----------------------------------------------------------------------------
(***************************************************************************)
(* SequentialXoroshiroRNG, HeavyXoroshiroRNG and BufferedXoroshiroRNG        *)
(***************************************************************************)
(* Mutant: the end of the buffer is noticed one number late. *)
UsedUpLate(idx) == idx > BATCH_SIZE

UsedUp(idx) == idx = BATCH_SIZE

(* get_batch_uint32 and get_batch_floats, called if the buffer is used up: the *)
(* batch that is in the buffer then.                                         *)
GetBatch(used, buffer) == IF used THEN made + 1 ELSE buffer

(* The next number of the integers' buffer, and a new batch first if need be.  *)
FromIntBuffer ==
  LET used == UsedUp(int_idx)
      buffer == GetBatch(used, int_buffer)
      idx == IF used THEN 0 ELSE int_idx
  IN
  /\ made' = GetBatch(used, made)
  /\ made' <= MaxBatches
  /\ int_buffer' = buffer
  /\ int_idx' = idx + 1
  /\ served' = served \cup {<<buffer, idx>>}
  /\ UNCHANGED <<version, capabilities, float_buffer, float_idx, fillVars>>

GetUint32 == "uint32_t" \in capabilities /\ FromIntBuffer
GetInt32 == "int32_t" \in capabilities /\ FromIntBuffer

(* Mutant: a new batch of floats is put into a buffer that may not be used up. *)
GetFloatEager ==
  LET used == UsedUp(float_idx) \/ UsedUp(int_idx)
      buffer == GetBatch(used, float_buffer)
      idx == IF used THEN 0 ELSE float_idx
  IN
  /\ "float" \in capabilities
  /\ made' = GetBatch(used, made)
  /\ made' <= MaxBatches
  /\ float_buffer' = buffer
  /\ float_idx' = idx + 1
  /\ served' = served \cup {<<buffer, idx>>}
  /\ UNCHANGED <<version, capabilities, int_buffer, int_idx, fillVars>>

GetFloat ==
  LET used == UsedUp(float_idx)
      buffer == GetBatch(used, float_buffer)
      idx == IF used THEN 0 ELSE float_idx
  IN
  /\ "float" \in capabilities
  /\ made' = GetBatch(used, made)
  /\ made' <= MaxBatches
  /\ float_buffer' = buffer
  /\ float_idx' = idx + 1
  /\ served' = served \cup {<<buffer, idx>>}
  /\ UNCHANGED <<version, capabilities, int_buffer, int_idx, fillVars>>

-----------------------------------------------------------------------------
FillNext ==
  \/ \E d \in 0 .. MaxAddress, n \in 0 .. MaxElements :
       FillShort(d, n) \/ FillHead(d, n) \/ FillAligned(d, n)
  \/ StoreBatch \/ FillRemainder

SequentialNext == GetUint32 \/ GetInt32 \/ GetFloat

Spec == Init /\ [][FillNext \/ SequentialNext]_vars

-----------------------------------------------------------------------------
(***************************************************************************)
(* A fill writes the elements of the array from the first on, each once, and  *)
(* nothing else, and when it returns it has written all of them, wherever    *)
(* the array starts and ends between two boundaries; no number goes to two   *)
(* elements; and the stores of whole registers are at boundaries, as store_si *)
(* needs.                                                                    *)
(***************************************************************************)
FillExact ==
  /\ {w[1] : w \in writes} =
       array .. (IF filling THEN dst ELSE End) - 1
  /\ \A v, w \in writes : v # w => v[1] # w[1] /\ <<v[2], v[3]>> # <<w[2], w[3]>>
  /\ filling /\ dst < AlignedEnd => dst % BATCH_SIZE = 0

(***************************************************************************)
(* Every number of a buffered generator is returned at most once, as an        *)
(* integer of either kind or as a float, and none is lost: what was not        *)
(* returned yet is still in one of the buffers, which never share a batch.    *)
(* The numbers that were in the memory of a BufferedXoroshiroRNG, which it     *)
(* returns first, are not the generator's.                                   *)
(***************************************************************************)
EveryNumberOnce ==
  LET OfGenerator == (1 .. made) \X Lane
      pending == {<<int_buffer, lane>> : lane \in int_idx .. BATCH_SIZE - 1} \cap OfGenerator
      floats == {<<float_buffer, lane>> : lane \in float_idx .. BATCH_SIZE - 1} \cap OfGenerator
      returned == served \cap OfGenerator
  IN
  /\ int_buffer # float_buffer
  /\ returned \cap (pending \cup floats) = {}
  /\ returned \cup pending \cup floats = OfGenerator
  /\ int_idx <= BATCH_SIZE /\ float_idx <= BATCH_SIZE
=============================================================================
