----------------------------- MODULE LoadPipeline -----------------------------
(***************************************************************************)
(* What loads promise the program of each CPU.  Without delayed loads "the  *)
(* result from a load is available immediate"; with them it "is not         *)
(* available until the subsequent instruction has executed (as in the real *)
(* machine)".  Each CPU has a pipeline of its own, which only its own       *)
(* instructions move.                                                      *)
(***************************************************************************)
CONSTANTS CPUs, Delayed, Regs, Values, Zero, NoLoad

VARIABLES
    regs,     \* regs[c][r]: what an instruction of c that reads r sees
    loading,  \* loading[c]: the load c's last instruction made, or NoLoad
    landing   \* landing[c]: the load of c that lands before its next instruction

pvars == <<regs, loading, landing>>

Load == [reg : Regs, value : Values]

Init ==
    /\ regs = [c \in CPUs |-> [r \in Regs |-> Zero]]
    /\ loading = [c \in CPUs |-> NoLoad]
    /\ landing = [c \in CPUs |-> NoLoad]

(* The registers of c when its load before last, if any, has landed.        *)
Landed(c) ==
    IF landing[c] = NoLoad
    THEN regs[c]
    ELSE [regs[c] EXCEPT ![landing[c].reg] = landing[c].value]

Advance(c, load, registers) ==
    /\ regs' = [regs EXCEPT ![c] = registers]
    /\ loading' = [loading EXCEPT ![c] = load]
    /\ landing' = [landing EXCEPT ![c] = loading[c]]

(* One instruction of c: it writes no register, writes one at once, or loads *)
(* one for later.                                                          *)
Instruction(c) ==
    \/ Advance(c, NoLoad, Landed(c))
    \/ \E r \in Regs, v \in Values :
          Advance(c, NoLoad, [Landed(c) EXCEPT ![r] = v])
    \/ c \in Delayed /\ \E load \in Load : Advance(c, load, Landed(c))

Next == \E c \in CPUs : Instruction(c)

Spec == Init /\ [][Next]_pvars
=============================================================================
