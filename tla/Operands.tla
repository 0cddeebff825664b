------------------------------- MODULE Operands -------------------------------
(* The registers the integer instructions read.                            *)
EXTENDS MachineWord

VARIABLES rs, rt
=============================================================================
