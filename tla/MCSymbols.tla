------------------------------ MODULE MCSymbols ------------------------------
(* The addresses of a real layout; $gp area of three words.                *)
EXTENDS Symbols

MCTextBase == 4194304      \* 0x00400000
MCGpBase == 268435456      \* 0x10000000
MCGpTop == MCGpBase + 12
(* Four words of data, on both sides of the address from which the lower    *)
(* half is negative as a signed number.                                    *)
MCDataBase == MCGpBase + Half + 32768 - 8
MCDataPoints == {MCDataBase + 8}
MCDataTop == MCDataBase + 12
=============================================================================
