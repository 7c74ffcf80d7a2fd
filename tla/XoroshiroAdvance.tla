-------------------------- MODULE XoroshiroAdvance --------------------------
(***************************************************************************)
(* XoroshiroRNG::advance() (src/src/utils/xoroshiro_64_star.hpp) on the bits *)
(* of its registers, for every instruction set it is written for, and beside *)
(* it the ScalarXoroshiro64Star of src/src/benchmarks/rng/arrayfill.hpp, one  *)
(* for every lane.                                                           *)
(*                                                                         *)
(* The number of a lane is its word of a_states times a constant, in both;    *)
(* the product is left out.  A constructor's splitmix64 may give any words.   *)
(***************************************************************************)
EXTENDS BitWords

CONSTANTS
  InstructionSet,  \* of NONE, AVX128, AVX256, AVX512, those to look at
  Seeded(_),       \* the pairs of registers a constructor may make, for a set
  MaxAdvances      \* most calls of advance() (bounds the model)

VARIABLES
  instructions,        \* what the generator was compiled for; "" before
  weaving,             \* the template argument LaneWeaving
  a_states, b_states,  \* registers
  s,                   \* s[lane]: the two words of that lane's scalar generator
  advances

advanceVars == <<instructions, weaving, a_states, b_states, s, advances>>

(* The bits of a register, with the same operations on it for every set. *)
Bits(I) ==
  CASE I = "NONE" -> 32 [] I = "AVX128" -> 128 [] I = "AVX256" -> 256 [] I = "AVX512" -> 512

(* The specialisations of InstructionSetTraits, and registers of their width. *)
ASSUME AdvanceAssumption ==
  /\ InstructionSet \subseteq {"NONE", "AVX128", "AVX256", "AVX512"}
  /\ \A I \in InstructionSet : \A seed \in Seeded(I) :
       seed[1] \subseteq 0 .. Bits(I) - 1 /\ seed[2] \subseteq 0 .. Bits(I) - 1

(* The bits of a lane of the operations called epi64. *)
Epi64(I) == IF I = "NONE" THEN 32 ELSE 64

LanesOf(I) == 0 .. (Bits(I) \div 32) - 1

(* The word in a lane of 32 bits. *)
Word(x, lane) == {b - 32 * lane : b \in {c \in x : c \div 32 = lane}}

AdvanceInit ==
  /\ instructions = "" /\ weaving = TRUE
  /\ a_states = {} /\ b_states = {} /\ s = <<>>
  /\ advances = 0

(* The constructors; the scalar generators are given the same words. *)
Construct ==
  /\ instructions = ""
  /\ instructions' \in InstructionSet
  /\ weaving' \in BOOLEAN
  /\ \E seed \in Seeded(instructions') :
       /\ a_states' = seed[1] /\ b_states' = seed[2]
       /\ s' = [lane \in LanesOf(instructions') |-> <<Word(seed[1], lane), Word(seed[2], lane)>>]
  /\ UNCHANGED advances

(* ScalarXoroshiro64Star::next_u32() *)
NextU32(w) ==
  LET s1 == SymDiff(w[1], w[2]) IN
  << SymDiff(SymDiff(Rotl(w[1], 26, 32), s1), ShiftLeft(s1, 9, 32)), Rotl(s1, 13, 32) >>

(* Mutant: b is rotated before a takes it in. *)
AdvancedSwapped(a, b, w) ==
  LET b1 == Rotl(SymDiff(a, b), 13, w) IN
  << SymDiff(SymDiff(Rotl(a, 26, w), b1), ShiftLeft(b1, 9, w)), b1 >>

(* Mutant: the bits that leave at the top do not come back. *)
AdvancedShift(a, b, w) ==
  LET b1 == SymDiff(a, b) IN
  << SymDiff(SymDiff(Rotl(a, 26, w), b1), ShiftLeft(b1, 9, w)), ShiftLeft(b1, 13, w) >>

(* The registers after advance() with lanes of w bits. *)
Advanced(a, b, w) ==
  LET b1 == SymDiff(a, b) IN
  << SymDiff(SymDiff(Rotl(a, 26, w), b1), ShiftLeft(b1, 9, w)), Rotl(b1, 13, w) >>

LaneBits == IF weaving THEN Epi64(instructions) ELSE 32

Advance ==
  /\ instructions # "" /\ advances < MaxAdvances
  /\ LET after == Advanced(a_states, b_states, LaneBits) IN
     a_states' = after[1] /\ b_states' = after[2]
  /\ s' = [lane \in DOMAIN s |-> NextU32(s[lane])]
  /\ advances' = advances + 1
  /\ UNCHANGED <<instructions, weaving>>

AdvanceNext == Construct \/ Advance
AdvanceDone == advances = MaxAdvances

(* Mutant: the sign and the exponent have eight bits together. *)
FloatBitsEight(x) == SymDiff(ShiftRight(x, 8, 32), 23 .. 29)

(* float_convert(), before the one is subtracted. *)
FloatBits(x) == SymDiff(ShiftRight(x, 9, 32), 23 .. 29)

-----------------------------------------------------------------------------
(***************************************************************************)
(* "every lane is independent" without the weaving                           *)
(* (xoroshiro_64_star.hpp:520): each is the generator the algorithm came      *)
(* from, for every width of the registers.  With it that is still so where    *)
(* there is no vector unit and the 64-bit operations are those of 32 bits.   *)
(***************************************************************************)
LanesMatchScalar ==
  \/ weaving /\ instructions # "NONE"
  \/ \A lane \in DOMAIN s : s[lane] = <<Word(a_states, lane), Word(b_states, lane)>>

(* The one state that advance() may make a state from. *)
Before(a, b, w) ==
  LET b1 == Rotl(b, w - 13, w)
      a1 == Rotl(SymDiff(SymDiff(a, b1), ShiftLeft(b1, 9, w)), w - 26, w)
  IN  <<a1, SymDiff(a1, b1)>>

(***************************************************************************)
(* No number is ever the last one, whatever the instruction set and the       *)
(* weaving: advance() can be undone, so that no two states go on to the same, *)
(* every seed is on a cycle, and a generator that is "seeded so that it is    *)
(* not everywhere zero" (xoroshiro_64_star.hpp:32) never comes to be.         *)
(***************************************************************************)
AdvanceReversible ==
  [][Advance => <<a_states, b_states>> = Before(a_states', b_states', LaneBits)]_advanceVars

(***************************************************************************)
(* The numbers are those of the scalar generator, and float_convert makes of  *)
(* each a float in [1, 2) before one is subtracted.                          *)
(***************************************************************************)
NumbersSound ==
  /\ LanesMatchScalar
  /\ \A lane \in DOMAIN s : FloatBits(Word(a_states, lane)) \cap 23 .. 31 = 23 .. 29
=============================================================================
