----------------------------- MODULE MachineWord -----------------------------
(***************************************************************************)
(* The word of a register, of two halves of HalfBits bits, its two          *)
(* readings, reg_word and u_reg_word, and its shifts.                      *)
(***************************************************************************)
EXTENDS Powers

CONSTANT HalfBits   \* 16 in the code

ASSUME WidthAssumption == HalfBits \in Nat \ {0}

B == Pow2[HalfBits]
W == B * B
Reg == 0 .. W - 1

Signed(v) == IF v >= W \div 2 THEN v - W ELSE v
Unsigned(n) == n % W
SIGN_BIT(v) == v >= W \div 2

Bits == 2 * HalfBits

(* Mutants: an immediate that keeps its sign bit as a number; a right shift  *)
(* of a register taken to be unsigned.                                     *)
ZeroExtended(half) == half
UnsignedShift(v, n) == v \div Pow2[n]

(* (short)inst->IMM() as a word.                                           *)
SignExtended(half) == IF half >= B \div 2 THEN (W - B) + half ELSE half

(* val << n, and val >> n of a u_reg_word and of a reg_word.               *)
LeftShift(v, n) == Unsigned(v * Pow2[n])
RightShift(v, n) == v \div Pow2[n]
SignedShift(v, n) == Unsigned(Signed(v) \div Pow2[n])
=============================================================================
