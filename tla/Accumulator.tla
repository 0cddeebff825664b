----------------------------- MODULE Accumulator -----------------------------
(***************************************************************************)
(* What the integer unit of a MIPS promises: HI and LO are one number of    *)
(* two words, that products are put in, added to and subtracted from, and   *)
(* where a division leaves remainder and quotient; add and sub trap exactly *)
(* when the signed result does not fit a word.                             *)
(***************************************************************************)
EXTENDS Powers

CONSTANTS Word,       \* the number of values of a word
          Overflow,   \* stands for a result that traps
          Undefined   \* <<op, x, y>> the architecture leaves undefined

VARIABLES x, y,   \* the operands, as unsigned words
          acc,    \* the two-word number
          done    \* the last instruction and what it wrote to its register

WordValues == 0 .. Word - 1
AsSigned(v) == IF 2 * v >= Word THEN v - Word ELSE v
Fits(n) == -Word <= 2 * n /\ 2 * n < Word

Product(signed) == IF signed THEN AsSigned(x) * AsSigned(y) ELSE x * y

Init ==
    /\ x \in WordValues /\ y \in WordValues
    /\ acc \in 0 .. Word * Word - 1 /\ done = <<"none", 0>>

Does(op) == done'[1] = op /\ UNCHANGED <<x, y>>
Becomes(op, n, rd) == Does(op) /\ done'[2] = rd /\ acc' = n % (Word * Word)

Multiply(op, signed) == Becomes(op, Product(signed), 0)
MultiplyAdd(op, signed) == Becomes(op, acc + Product(signed), 0)
MultiplySub(op, signed) == Becomes(op, acc - Product(signed), 0)
MultiplyWord == Becomes("mul", Product(TRUE), Product(TRUE) % Word)

(* n = q * d + r, with r nearer to 0 than d and of the sign of n.          *)
Divides(n, d, q, r) ==
    /\ n = q * d + r
    /\ IF d > 0 THEN -d < r /\ r < d ELSE d < r /\ r < -d
    /\ (n >= 0 => r >= 0) /\ (n <= 0 => r <= 0)

Divide(op, signed) ==
    LET n == IF signed THEN AsSigned(x) ELSE x
        d == IF signed THEN AsSigned(y) ELSE y
        q == CHOOSE k \in -Word .. Word : Divides(n, d, k, n - k * d)
    IN  IF <<op, x, y>> \in Undefined
        THEN Does(op) /\ acc' \in 0 .. Word * Word - 1
        ELSE Becomes(op, ((n - q * d) % Word) * Word + (q % Word), 0)

Trapping(op, n) ==
    /\ Does(op) /\ UNCHANGED acc
    /\ done'[2] = IF Fits(n) THEN n % Word ELSE Overflow

Move(op) ==
    /\ Does(op)
    /\ acc' = IF op = "mthi" THEN x * Word + (acc % Word) ELSE (acc \div Word) * Word + x

(* How many of the leading bits of x are equal to the bit b.               *)
Counting(op, b) ==
    LET rest == IF b = 0 THEN x ELSE Word - 1 - x
        n == done'[2]
    IN  /\ Does(op) /\ UNCHANGED acc
        /\ IF rest = 0 THEN Pow2[n] = Word ELSE rest * Pow2[n] < Word /\ rest * Pow2[n + 1] >= Word

Next ==
    \/ Multiply("mult", TRUE) \/ Multiply("multu", FALSE) \/ MultiplyWord
    \/ MultiplyAdd("madd", TRUE) \/ MultiplyAdd("maddu", FALSE)
    \/ MultiplySub("msub", TRUE) \/ MultiplySub("msubu", FALSE)
    \/ Divide("div", TRUE) \/ Divide("divu", FALSE)
    \/ Trapping("add", AsSigned(x) + AsSigned(y)) \/ Trapping("sub", AsSigned(x) - AsSigned(y))
    \/ Move("mthi") \/ Move("mtlo")
    \/ Counting("clz", 0) \/ Counting("clo", 1)

Spec == Init /\ [][Next]_<<x, y, acc, done>>
=============================================================================
