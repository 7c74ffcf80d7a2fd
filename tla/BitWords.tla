------------------------------ MODULE BitWords ------------------------------
(***************************************************************************)
(* Unsigned words and SIMD registers as the sets of their bits that are one, *)
(* bit 0 the lowest.  A register of lanes of w bits is one set: lane k holds *)
(* the bits k * w .. k * w + w - 1, a word is a register of one lane.        *)
(*                                                                         *)
(* In C++ a ^ b is SymDiff(a, b) and a | b the union.                        *)
(***************************************************************************)
EXTENDS Integers, Sequences, FiniteSetsExt

(* Every lane shifted to the left: bits that leave their lane are lost. *)
ShiftLeft(x, k, w) == {b + k : b \in {c \in x : (c % w) + k < w}}

(* Every lane shifted to the right. *)
ShiftRight(x, k, w) == {b - k : b \in {c \in x : c % w >= k}}

(* (x << k) | (x >> (w - k)) in every lane. *)
Rotl(x, k, w) == ShiftLeft(x, k, w) \cup ShiftRight(x, w - k, w)

(* The word whose hexadecimal digits are d, the highest first. *)
Hex(d) ==
  LET Digit == DOMAIN d IN
  UNION {{4 * (Len(d) - k) + b : b \in {c \in 0 .. 3 : (d[k] \div 2 ^ c) % 2 = 1}} : k \in Digit}
=============================================================================
