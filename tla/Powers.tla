-------------------------------- MODULE Powers --------------------------------
(* The powers of two, by recursion, which is how the proofs reason of them,  *)
(* and the bits of a number.                                               *)
EXTENDS Integers

Pow2[n \in Nat] == IF n = 0 THEN 1 ELSE 2 * Pow2[n - 1]
BitOf(v, i) == (v \div Pow2[i]) % 2
=============================================================================
