--------------------------- MODULE MCFloatRegisters ---------------------------
(* The registers of the coprocessor alone, on a CPU with delayed loads.      *)
EXTENDS FloatRegisters

(* Doubles of two words each, and a word that is of none.                   *)
MCZero == <<"zero", 0>>
MCValues == {MCZero} \cup (Doubles \X {0, 1})
=============================================================================
