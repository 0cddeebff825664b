------------------------------ MODULE CpuUserView ------------------------------
(***************************************************************************)
(* CpuControl seen by the program it runs: while a handler runs, the       *)
(* program is at the address the handler will return to.                   *)
(***************************************************************************)
EXTENDS CpuControl

User == INSTANCE UserProgram WITH
            upc <- IF cpu.resume # NoAddr THEN cpu.resume ELSE cpu.pc,
            ureg <- cpu.R

(* Interrupts, exceptions and handlers that only acknowledge them are       *)
(* invisible to the program: no instruction is lost, repeated after it      *)
(* completed, or executed out of order, wherever an interrupt is taken.     *)
ImplementsUserProgram == User!Spec

-----------------------------------------------------------------------------
(* The conventions under which it is so.  The user's text and the handler's *)
(* are closed under what follows an instruction; the user's may have        *)
(* addresses with no memory, where every fetch raises.                      *)
Follow(i, a) ==
    CASE i.op = "j" -> {i.target}
      [] i.op = "branch" -> {i.target, Plus4(a)} \cup (IF i.nullify THEN {Plus4(Plus4(a))} ELSE {})
      [] i.op \in {"eret", "illegal", "none", "undefined"} -> {}
      [] OTHER -> {Plus4(a)}

(* The user's program leaves EXL alone and knows where it jumps; a handler  *)
(* faults nowhere, changes no register and returns with ERET.               *)
UserOps ==
    {"none", "undefined", "nop", "add", "syscall", "trap", "illegal", "break", "mtc0", "load", "store", "j", "branch"}
HandlerOps == {"none", "undefined", "nop", "mtc0", "j", "branch", "eret"}
Conventional(p, user, handler) ==
    /\ user \subseteq {a \in Address : a % 4 = 0} /\ handler \subseteq TextAddrs
    /\ TextBot \in user /\ ExceptionAddr \in handler
    /\ \A a \in user \cap TextAddrs : p[a].op \in UserOps /\ Follow(p[a], a) \subseteq user
    /\ \A a \in handler :
          /\ p[a].op \in HandlerOps /\ Follow(p[a], a) \subseteq handler
          /\ p[a].op = "mtc0" => p[a].rd \in {"cause", "compare"}
    /\ TRUE \in FailModes => user \subseteq TextAddrs /\ \A a \in user : p[a].op # "illegal"

(* Nothing is delayed, the debugger prints nothing, and no write to Status  *)
(* sets EXL.                                                               *)
PlainMachine ==
    /\ ~DelayedBranches /\ ~DelayedLoads /\ DisplayAddrs = {}
    /\ \A w \in StatusWrites : ~w.exl
=============================================================================
