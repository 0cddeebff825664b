------------------------------ MODULE UserProgram ------------------------------
(***************************************************************************)
(* What a user program may see of the interpreter: its own instructions,   *)
(* each one complete or not begun, whatever the interrupts, exceptions and *)
(* handlers in between.  upc is the next instruction of the program and    *)
(* ureg the register abstracted by CpuControl.                             *)
(***************************************************************************)
EXTENDS Integers

CONSTANTS AddrSpace, TextAddrs, TextBot, Values, Programs

VARIABLES text, upc, ureg

uvars == <<text, upc, ureg>>

Init ==
    /\ text \in Programs
    /\ upc = TextBot
    /\ ureg = 0

After(a) == (a + 4) % AddrSpace

At(ops) == upc \in TextAddrs /\ text[upc].op \in ops /\ text' = text

(* The instruction completes and the next one follows.                     *)
Sequential ==
    /\ At({"nop", "mtc0", "trap", "break", "store"})
    /\ upc' = After(upc)
    /\ ureg' = ureg

WriteRegister ==
    /\ At({"add", "load", "syscall"})
    /\ upc' = After(upc)
    /\ ureg' \in Values

Jump ==
    /\ At({"j"})
    /\ upc' = text[upc].target
    /\ ureg' = ureg

Branch ==
    /\ At({"branch"})
    /\ upc' = IF ureg # 0 THEN text[upc].target
              ELSE IF text[upc].nullify THEN After(After(upc))
              ELSE After(upc)
    /\ ureg' = ureg

(* A load that faults has not completed, but has cleared its destination.  *)
FaultingLoad ==
    /\ At({"load"})
    /\ upc' = upc
    /\ ureg' = 0

Next == Sequential \/ WriteRegister \/ Jump \/ Branch \/ FaultingLoad

Spec == Init /\ [][Next]_uvars
=============================================================================
