----------------------------- MODULE DelayedLoads -----------------------------
(***************************************************************************)
(* The delayed loads of run_spim when the engine steps several CPUs.  The  *)
(* two-element shift register is declared static inside the member         *)
(* function, so the process has one of them, whatever the number of CPUs;  *)
(* an entry holds a pointer to a register of the CPU that loaded.          *)
(***************************************************************************)
CONSTANTS
    CPUs,     \* the CPU objects the engine steps, in any order
    Delayed,  \* those whose config has delayed_loads set
    Regs,     \* the registers a load may name, $0 not included
    Values,   \* the values registers hold
    Zero,     \* the value of every register at first
    NoLoad    \* the null pointer

ASSUME LoadAssumption ==
    /\ Delayed \subseteq CPUs
    /\ Zero \in Values
    /\ NoLoad \notin [cpu : CPUs, reg : Regs, value : Values]
    /\ NoLoad \notin [reg : Regs, value : Values]

VARIABLES
    R,    \* R[c][r], the registers
    new,  \* delayed_load_addr1 and delayed_load_value1, or NoLoad
    old   \* delayed_load_addr2 and delayed_load_value2, or NoLoad

vars == <<R, new, old>>

Entry == [cpu : Delayed, reg : Regs, value : Values]

TypeOK ==
    /\ R \in [CPUs -> [Regs -> Values]]
    /\ new \in Entry \cup {NoLoad}
    /\ old \in Entry \cup {NoLoad}

Init ==
    /\ R = [c \in CPUs |-> [r \in Regs |-> Zero]]
    /\ new = NoLoad
    /\ old = NoLoad

(* Mutant: an older load is dropped when a newer one follows it.            *)
DroppingUpdate(c) ==
    IF c \in Delayed /\ old # NoLoad /\ new = NoLoad
    THEN [R EXCEPT ![old.cpu][old.reg] = old.value]
    ELSE R

(* DO_DELAYED_UPDATE writes the older entry through its pointer ...         *)
DO_DELAYED_UPDATE(c) ==
    IF c \in Delayed /\ old # NoLoad
    THEN [R EXCEPT ![old.cpu][old.reg] = old.value]
    ELSE R

(* ... and the newer entry becomes the older one, leaving its place to the  *)
(* load that this instruction may be.                                      *)
Shift(c, load) ==
    IF c \in Delayed THEN old' = new /\ new' = load ELSE UNCHANGED <<new, old>>

(* run_spim of c with an instruction that writes no register.               *)
ExecOther(c) ==
    /\ R' = DO_DELAYED_UPDATE(c)
    /\ Shift(c, NoLoad)

(* run_spim of c with an instruction that writes register r at once.        *)
ExecWrite(c, r, v) ==
    /\ R' = [DO_DELAYED_UPDATE(c) EXCEPT ![c][r] = v]
    /\ Shift(c, NoLoad)

(* run_spim of c with a load of v into r: LOAD_INST_BASE.                   *)
ExecLoad(c, r, v) ==
    IF c \in Delayed
    THEN /\ R' = DO_DELAYED_UPDATE(c)
         /\ Shift(c, [cpu |-> c, reg |-> r, value |-> v])
    ELSE ExecWrite(c, r, v)

run_spim(c) ==
    \/ ExecOther(c)
    \/ \E r \in Regs, v \in Values : ExecWrite(c, r, v) \/ ExecLoad(c, r, v)

Next == \E c \in CPUs : run_spim(c)

Spec == Init /\ [][Next]_vars

-----------------------------------------------------------------------------
(* The pipeline each CPU should have, read from the shared entries.         *)
Of(entry, c) ==
    IF entry # NoLoad /\ entry.cpu = c
    THEN [reg |-> entry.reg, value |-> entry.value]
    ELSE NoLoad

Pipeline == INSTANCE LoadPipeline WITH
                regs <- R,
                loading <- [c \in CPUs |-> Of(new, c)],
                landing <- [c \in CPUs |-> Of(old, c)]

(* A load's result is not available until the instruction after it, of the  *)
(* same CPU, has executed, it is available from then on, and no CPU changes *)
(* another's registers.                                                    *)
LoadsAreDelayed == Pipeline!Spec
=============================================================================
