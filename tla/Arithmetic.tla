------------------------------ MODULE Arithmetic ------------------------------
(***************************************************************************)
(* The integer arithmetic of run_spim: the multiplication built from half   *)
(* words, the accumulating forms with their carries and borrows, division,  *)
(* the overflow tests of add and sub, and the counting loops.  A word is    *)
(* two halves of HalfBits bits.  Register arithmetic is modulo its width:   *)
(* sums of signed words wrap, as they do in the code that the build file,   *)
(* which asks for no optimisation, has compiled.                           *)
(***************************************************************************)
EXTENDS Operands

Overflow == -1   \* stands for ExcCode_Ov raised in place of a result

VARIABLES
    HI, LO,
    done      \* the last instruction and what it wrote to its register

avars == <<rs, rt, HI, LO, done>>

ArithmeticInit ==
    /\ rs \in Reg /\ rt \in Reg /\ HI \in Reg /\ LO \in Reg
    /\ done = <<"none", 0>>

Complement(v) == W - 1 - v

Carry(sum, p, q) == IF sum < p \/ sum < q THEN 1 ELSE 0

(* The pair HI, LO of v1 * v2, in the steps of the code.                    *)
unsigned_multiply(v1, v2) ==
    LET a == v1 \div B
        b == v1 % B
        c == v2 \div B
        d == v2 % B
        mid == (a * d + c * b) % W
        mid2 == (mid + (b * d) \div B) % W
        carry == Carry(mid, a * d, c * b) + Carry(mid2, mid, (b * d) \div B)
    IN  [lo |-> ((b * d) % B) + (mid2 % B) * B,
         hi |-> (a * c + carry * B + (mid2 \div B)) % W]

(* Mutants: the carry from the low word lost; a low word that does not wrap. *)
NegatedWithoutCarry(p) == [lo |-> Unsigned(Complement(p.lo) + 1), hi |-> Complement(p.hi)]
NegatedUnwrapped(p) == [lo |-> Complement(p.lo) + 1, hi |-> Complement(p.hi)]

Negated(p) ==
    LET lo == Unsigned(Complement(p.lo) + 1)
    IN  [lo |-> lo, hi |-> Unsigned(Complement(p.hi) + (IF lo = 0 THEN 1 ELSE 0))]

Magnitude(v) == IF SIGN_BIT(v) THEN Unsigned(-Signed(v)) ELSE v
signed_multiply(v1, v2) ==
    LET p == unsigned_multiply(Magnitude(v1), Magnitude(v2))
    IN  IF SIGN_BIT(v1) # SIGN_BIT(v2) THEN Negated(p) ELSE p

Multiplied(signed) == IF signed THEN signed_multiply(rs, rt) ELSE unsigned_multiply(rs, rt)

Writes(op, hi, lo, rd) ==
    /\ HI' = hi /\ LO' = lo /\ done' = <<op, rd>>
    /\ UNCHANGED <<rs, rt>>
WritesOnly(op, rd) == done' = <<op, rd>> /\ UNCHANGED <<rs, rt, HI, LO>>

Mult(op, signed) == Writes(op, Multiplied(signed).hi, Multiplied(signed).lo, 0)
Mul == Writes("mul", Multiplied(TRUE).hi, Multiplied(TRUE).lo, Multiplied(TRUE).lo)

Madd(op, signed) ==
    LET p == Multiplied(signed)
        sum == Unsigned(LO + p.lo)
    IN  Writes(op, Unsigned(HI + Carry(sum, p.lo, LO) + p.hi), sum, 0)

Borrow(low, subtracted) == IF subtracted > low THEN 1 ELSE 0
Msub(op, signed) ==
    LET p == Multiplied(signed)
    IN  Writes(op, Unsigned(HI - Borrow(LO, p.lo) - p.hi), Unsigned(LO - p.lo), 0)

(* C division truncates toward zero.                                       *)
Abs(n) == IF n < 0 THEN -n ELSE n
Quotient(n, d) == IF (n < 0) = (d < 0) THEN Abs(n) \div Abs(d) ELSE -(Abs(n) \div Abs(d))
Remainder(n, d) == n - Quotient(n, d) * d

(* Both divisions leave HI and LO alone for a zero divisor and for the one  *)
(* quotient that does not fit a signed word.                               *)
Divisible == rt # 0 /\ ~(rs = W \div 2 /\ rt = W - 1)
DivideBy(op, n, d) ==
    IF Divisible
    THEN Writes(op, Unsigned(Remainder(n, d)), Unsigned(Quotient(n, d)), 0)
    ELSE WritesOnly(op, 0)
Div == DivideBy("div", Signed(rs), Signed(rt))
Divu == DivideBy("divu", rs, rt)

ARITH_OVFL(result, op1, op2) ==
    SIGN_BIT(op1) = SIGN_BIT(op2) /\ SIGN_BIT(op1) # SIGN_BIT(result)
SubOverflow(diff, op1, op2) ==
    SIGN_BIT(op1) # SIGN_BIT(op2) /\ SIGN_BIT(op1) # SIGN_BIT(diff)

Add == WritesOnly("add", IF ARITH_OVFL(Unsigned(rs + rt), rs, rt) THEN Overflow ELSE Unsigned(rs + rt))
Sub == WritesOnly("sub", IF SubOverflow(Unsigned(rs - rt), rs, rt) THEN Overflow ELSE Unsigned(rs - rt))

(* clo and clz look down from the top bit for the first that differs.      *)
Leading(b) ==
    LET others == {i \in 0 .. 2 * HalfBits - 1 : BitOf(rs, i) # b}
        i == IF others = {} THEN -1 ELSE CHOOSE j \in others : \A k \in others : k <= j
    IN  2 * HalfBits - 1 - i

Mthi == Writes("mthi", rs, LO, 0)
Mtlo == Writes("mtlo", HI, rs, 0)

(* One instruction, from any state of the four registers.                  *)
ArithmeticNext ==
    /\ done[1] = "none"
    /\ \/ Mult("mult", TRUE) \/ Mult("multu", FALSE) \/ Mul
       \/ Madd("madd", TRUE) \/ Madd("maddu", FALSE)
       \/ Msub("msub", TRUE) \/ Msub("msubu", FALSE)
       \/ Div \/ Divu \/ Add \/ Sub \/ Mthi \/ Mtlo
       \/ WritesOnly("clz", Leading(0)) \/ WritesOnly("clo", Leading(1))

ArithmeticSpec == ArithmeticInit /\ [][ArithmeticNext]_avars

----------------------------------------------------------------------------
ArithmeticTypeOK ==
    /\ {rs, rt, HI, LO} \subseteq Reg
    /\ done[2] \in Reg \cup 0 .. 2 * HalfBits \cup {Overflow}

(* The divisions the code takes to be undefined.                           *)
NotDivided == {d \in {"div", "divu"} \X Reg \X Reg :
                  d[3] = 0 \/ (d[2] = W \div 2 /\ d[3] = W - 1)}

Exact == INSTANCE Accumulator
        WITH Word <- W, Undefined <- NotDivided, x <- rs, y <- rt, acc <- HI * W + LO

(* HI and LO are one number of two words: every product, carry, borrow,     *)
(* quotient and remainder comes out exact, with and without sign, and the   *)
(* traps of add and sub are those of the signed result.                     *)
ImplementsAccumulator == Exact!Spec
=============================================================================
