-------------------------- MODULE Xoroshiro128plus --------------------------
(***************************************************************************)
(* The benchable Xoroshiro128plus (src/src/benchmarks/rng/xoroshiro128+.hpp): *)
(* the generator and its jump(), the whole of resetBenchmark(), with the      *)
(* constants of the code and words of 64 bits.                               *)
(*                                                                         *)
(* jump() does the same xors whatever the state is, so that one behaviour     *)
(* carries it out from many states at once: every variable but the loop's     *)
(* counter is a function of the state that jump() started from, and Start is  *)
(* the set of these.  getRandomUint and jump commute with xor, so what holds   *)
(* of the states with a single bit holds of all (SingleBitsSuffice).          *)
(***************************************************************************)
EXTENDS BitWords

CONSTANT Start  \* states before jump(): pairs of words

ASSUME StartAssumption == Start \subseteq (SUBSET (0 .. 63)) \X (SUBSET (0 .. 63))

VARIABLES
  state,     \* state[s]: the member state
  local,     \* local[s]: jump's variables state0 and state1
  bit_idx,   \* the bits of JUMP it has dealt with
  leap,      \* leap[b]: the state after 2 ^ doublings numbers, if the first had bit b only
  doublings

jumpVars == <<state, local, bit_idx, leap, doublings>>

JUMP == << Hex(<<13, 15, 9, 0, 0, 2, 9, 4, 13, 8, 15, 5, 5, 4, 10, 5>>),
           Hex(<<1, 7, 0, 8, 6, 5, 13, 15, 4, 11, 3, 2, 0, 1, 15, 12>>) >>

(* The state after getRandomUint(). *)
RandomUint(s) ==
  LET s1 == SymDiff(s[1], s[2]) IN
  << SymDiff(SymDiff(Rotl(s[1], 24, 64), s1), ShiftLeft(s1, 16, 64)), Rotl(s1, 37, 64) >>

(* A state as one word of 128 bits, and back. *)
Flat(s) == s[1] \cup {b + 64 : b \in s[2]}
Pair(x) == << x \cap 0 .. 63, {b - 64 : b \in x \cap 64 .. 127} >>

(* The states with one bit. *)
SingleBits == {Pair({b}) : b \in 0 .. 127}

(* The linear map that takes bit b to m[b]. *)
Image(m, x) == {b \in 0 .. 127 : Cardinality({c \in x : b \in m[c]}) % 2 = 1}

JumpInit ==
  /\ state = [s \in Start |-> s]
  /\ local = [s \in Start |-> <<{}, {}>>]
  /\ bit_idx = 0
  /\ leap = [b \in 0 .. 127 |-> Flat(RandomUint(Pair({b})))]
  /\ doublings = 0

(* Mutant: the number is drawn before the bit is looked at. *)
JumpBitLate ==
  /\ bit_idx < 128
  /\ state' = [s \in Start |-> RandomUint(state[s])]
  /\ IF (bit_idx % 64) \in JUMP[(bit_idx \div 64) + 1]
     THEN local' = [s \in Start |-> << SymDiff(local[s][1], state'[s][1]),
                                       SymDiff(local[s][2], state'[s][2]) >>]
     ELSE UNCHANGED local
  /\ bit_idx' = bit_idx + 1
  /\ UNCHANGED <<leap, doublings>>

(* The body of the loops, for one bit of JUMP. *)
JumpBit ==
  /\ bit_idx < 128
  /\ IF (bit_idx % 64) \in JUMP[(bit_idx \div 64) + 1]
     THEN local' = [s \in Start |-> << SymDiff(local[s][1], state[s][1]),
                                       SymDiff(local[s][2], state[s][2]) >>]
     ELSE UNCHANGED local
  /\ state' = [s \in Start |-> RandomUint(state[s])]
  /\ bit_idx' = bit_idx + 1
  /\ UNCHANGED <<leap, doublings>>

(* The assignments after the loops. *)
JumpEnd ==
  /\ bit_idx = 128
  /\ state' = local
  /\ bit_idx' = 129
  /\ UNCHANGED <<local, leap, doublings>>

(* Not in the code: twice as many numbers. *)
Double ==
  /\ bit_idx = 129 /\ doublings < 64
  /\ leap' = [b \in 0 .. 127 |-> Image(leap, leap[b])]
  /\ doublings' = doublings + 1
  /\ UNCHANGED <<state, local, bit_idx>>

JumpNext == JumpBit \/ JumpEnd \/ Double
JumpSpec == JumpInit /\ [][JumpNext]_jumpVars
JumpDone == doublings = 64

(***************************************************************************)
(* jump() leaves the generator where 2 ^ 64 numbers would: "It is equivalent  *)
(* to 2^64 calls to next(); it can be used to generate 2^64 non-overlapping   *)
(* subsequences" (xoroshiro128+.hpp:89-91).  So the numbers of a sample are   *)
(* none of the last sample's again, whose iterations are a size_t.           *)
(***************************************************************************)
JumpIsLongRun ==
  JumpDone => \A s \in Start : Flat(state[s]) = Image(leap, Flat(s))
=============================================================================
