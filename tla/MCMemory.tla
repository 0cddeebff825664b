------------------------------ MODULE MCMemory ------------------------------
(* A memory of 22 words: text 4, data 12, stack up to 56, kernel data 60,   *)
(* special 76, devices 84.                                                 *)
EXTENDS Memory

MCByte == 0 .. 4
MCDevices == {84}
MCWords == {[k \in 0 .. 3 |-> k + 1]}
(* One or two accesses of each kind: inside a segment, narrow and wide,     *)
(* misaligned, in the window below the stack, above the data, past the end. *)
MCLoads == {<<5, 1>>, <<8, 4>>, <<16, 4>>, <<22, 2>>, <<40, 4>>, <<52, 4>>, <<62, 2>>}
Every == {<<4, 4>>, <<5, 1>>, <<17, 2>>, <<18, 2>>, <<30, 2>>, <<45, 1>>, <<52, 4>>, <<60, 4>>, <<64, 4>>, <<84, 4>>}
(* Without a store to the bytes expand_k_data clears: 2 and 3 of the        *)
(* kernel data, for the sizes reached here.                                *)
OutsideCleared == Every \ {<<60, 4>>}
MCSbrks == {-4, 0, 3}
MCKGrowths == {4}
=============================================================================
