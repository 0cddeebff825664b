----------------------------- MODULE MCCpuControl -----------------------------
(***************************************************************************)
(* Small programs for CpuControl: nine words of address space, three of    *)
(* user text at 4, 8, 12, two of kernel text at 24 (EXCEPTION_ADDR) and 28, *)
(* nothing at 0, 16, 20 and 32.                                            *)
(***************************************************************************)
EXTENDS CpuUserView

MCTextAddrs == {4, 8, 12, 24, 28}
MCValues == {0, 8, 14}

Op(name) == [op |-> name]
MoveTo(reg) == [op |-> "mtc0", rd |-> reg]
Break(debugger) == [op |-> "break", debugger |-> debugger]
Fault(name, excode) == [op |-> name, code |-> excode]
J(target) == [op |-> "j", target |-> target]
Branch(target, nullify) ==
    [op |-> "branch", target |-> target, nullify |-> nullify]

Layout(first, second, third, handler, last) ==
    {[a \in MCTextAddrs |->
        CASE a = 4 -> i1 [] a = 8 -> i2 [] a = 12 -> i3 [] a = 24 -> h1 [] a = 28 -> h2] :
     i1 \in first, i2 \in second, i3 \in third, h1 \in handler, h2 \in last}

(* Every class of instruction that may appear in user code.                *)
AnyUser ==
    {Op("none"), Op("undefined"), Op("nop"), Op("add"), Op("syscall"),
     Fault("trap", ExcCode_Tr), Fault("illegal", ExcCode_CpU),
     Break(TRUE), Break(FALSE), Fault("load", ExcCode_AdEL),
     Fault("store", ExcCode_DBE), MoveTo("epc"), MoveTo("compare")}

(* Handlers that may fault, return early, or write the registers.          *)
AnyHandler ==
    {Op("add"), Fault("load", ExcCode_DBE), MoveTo("cause"), MoveTo("status"),
     Break(TRUE), Op("jr")}

AnyProgram ==
    Layout({MoveTo("status")}, AnyUser, {J(8), Op("jr"), Branch(4, TRUE), Op("eret")},
           AnyHandler, {Op("eret")})

(* User code that follows the conventions, handlers that only acknowledge  *)
(* the interrupt and return.                                               *)
TransparentPrograms ==
    Layout({MoveTo("status")},
           {Op("add"), Op("syscall"), Break(TRUE), Fault("trap", ExcCode_Tr),
            Fault("load", ExcCode_AdEL), Fault("store", ExcCode_DBE)},
           {J(8), Branch(4, FALSE), Branch(4, TRUE)},
           {MoveTo("cause"), MoveTo("compare"), Op("nop")}, {Op("eret")})

(* Jumps and loads for the delayed modes.                                  *)
DelayedPrograms ==
    Layout({MoveTo("status"), Fault("load", ExcCode_AdEL)},
           {Op("add"), Fault("load", ExcCode_AdEL), Op("eret"), Op("jr"), Branch(4, TRUE)},
           {J(8), Branch(4, FALSE), Branch(4, TRUE)},
           {MoveTo("cause"), Op("add")}, {Op("eret")})

IntsOn == [ie |-> TRUE, exl |-> FALSE]
IntsOff == [ie |-> FALSE, exl |-> FALSE]
Kernel == [ie |-> TRUE, exl |-> TRUE]
AnyStatus == {IntsOn, IntsOff, Kernel}
UserStatus == {IntsOn, IntsOff}

ClearCause == [bd |-> FALSE, ip |-> {}, code |-> 0]
OnlyClear == {ClearCause}

(* The premises of UserProgramTheorem hold of the run CpuUserView.          *)
ASSUME ConventionsFollowed ==
    Programs = TransparentPrograms =>
        PlainMachine /\ \A p \in Programs : Conventional(p, {4, 8, 12, 16, 20}, {24, 28})
=============================================================================
