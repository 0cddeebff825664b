------------------------------ MODULE CpuControl ------------------------------
(***************************************************************************)
(* The control part of the MIPS interpreter: one call of CPU::run_spim per *)
(* instruction, the exception and interrupt logic of coprocessor 0, the    *)
(* jumps (with the recursive call that emulates a delay slot), delayed     *)
(* loads, and what the engine and the debugger may do between two calls.   *)
(*                                                                         *)
(* Data is abstracted to one general register, R, which stands for every   *)
(* register an instruction reads or writes; the text segments are a        *)
(* program chosen in Init; addresses are bytes modulo AddrSpace.           *)
(***************************************************************************)
EXTENDS Integers, Sequences

CONSTANTS
    AddrSpace,        \* size of the address space in bytes (2^32 in the code)
    TextAddrs,        \* addresses read_mem_inst finds in text_seg or k_text_seg
    TextBot,          \* TEXT_BOT, where the program starts
    ExceptionAddr,    \* EXCEPTION_ADDR, where the handler starts
    Values,           \* the values R, loads and moves range over
    Programs,         \* the programs that may be loaded, functions on TextAddrs
    Levels,           \* interrupt levels (IP bits) devices raise or software sets
    StatusWrites,     \* the [ie, exl] values MTC0 may put in Status
    CauseWrites,      \* the [bd, ip, code] values MTC0 may put in Cause
    FailModes,        \* the values of should_fail_on_exception (tournament mode)
    DelayedBranches,  \* config.delayed_branches
    DelayedLoads,     \* config.delayed_loads
    SyscallsEnabled,  \* is_syscalls_enabled
    DisplayAddrs,     \* addresses the debugger prints with print_inst
    MaxDepth,         \* bound: nested run_spim calls before the C stack is full
    NoAddr,           \* "no address" (of resume)
    NoLoad            \* the null pointer in a delayed-load slot

Address == 0 .. AddrSpace - 1

(* Exception codes of inst.h and the largest one the code calls "real".    *)
ExcCode_Int == 0
ExcCode_AdEL == 4
ExcCode_AdES == 5
ExcCode_IBE == 6
ExcCode_DBE == 7
ExcCode_Sys == 8
ExcCode_Bp == 9
ExcCode_RI == 10
ExcCode_CpU == 11
ExcCode_Ov == 12
ExcCode_Tr == 13
ExcCode_FPE == 15
ExcCodes == 0 .. 31
LastRealExcept == 30
TimerLevel == 7       \* the IP7 bit, cleared by a write to Compare

(* The instructions, one class for each shape of control in the switch.    *)
Inst ==
    [op : {"none", "undefined", "nop", "add", "syscall", "jr", "eret"}]
        \cup [op : {"trap"}, code : {ExcCode_Tr, ExcCode_FPE}]
        \cup [op : {"illegal"}, code : {ExcCode_RI, ExcCode_CpU}]
        \cup [op : {"break"}, debugger : BOOLEAN]
        \cup [op : {"mtc0"}, rd : {"status", "cause", "epc", "compare"}]
        \cup [op : {"load"}, code : {ExcCode_AdEL, ExcCode_DBE}]
        \cup [op : {"store"}, code : {ExcCode_AdES, ExcCode_DBE}]
        \cup [op : {"j"}, target : Address]
        \cup [op : {"branch"}, target : Address, nullify : BOOLEAN]

ASSUME AddressAssumption ==
    /\ AddrSpace \in Nat /\ AddrSpace > 0 /\ AddrSpace % 4 = 0
    /\ TextAddrs \subseteq {a \in Address : a % 4 = 0}
    /\ TextBot \in Address /\ ExceptionAddr \in Address
    /\ Values \subseteq Address /\ 0 \in Values
    /\ DisplayAddrs \subseteq Address
    /\ NoAddr \notin Address /\ NoLoad \notin Values

ASSUME ConfigAssumption ==
    /\ FailModes \subseteq BOOLEAN
    /\ DelayedBranches \in BOOLEAN
    /\ DelayedLoads \in BOOLEAN
    /\ SyscallsEnabled \in BOOLEAN
    /\ MaxDepth \in Nat
    /\ Programs \subseteq [TextAddrs -> Inst]
    /\ StatusWrites \subseteq [ie : BOOLEAN, exl : BOOLEAN]
    /\ CauseWrites \subseteq [bd : BOOLEAN, ip : SUBSET Levels, code : ExcCodes]

VARIABLES
    text,    \* the program in the text segments
    cpu,     \* the registers and flags run_spim reads and writes, a Machine
    loads,   \* the two-entry shift register of delayed loads, static in run_spim
    frames,  \* JUMP_INST activations waiting for their nested run_spim
    phase,   \* "idle": the engine's turn; "fetch": a nested run_spim starts;
             \* "unwind": it has returned; "overflow": the C stack is full
    ret      \* what the last run_spim returned to the engine

vars == <<text, cpu, loads, frames, phase, ret>>

(***************************************************************************)
(* exc is exception_occurred, slot running_in_delay_slot and fail           *)
(* should_fail_on_exception, which nothing changes.  resume is a           *)
(* history field the code does not have: the address at which the          *)
(* exception being handled interrupted the program, NoAddr when EXL was    *)
(* cleared or software wrote Status or EPC itself.                         *)
(***************************************************************************)
Machine ==
    [pc : Address, R : Values, ie : BOOLEAN, exl : BOOLEAN, ip : SUBSET Levels,
     bd : BOOLEAN, code : ExcCodes, epc : Address, bad : Address,
     exc : BOOLEAN, done : BOOLEAN, slot : BOOLEAN, fail : BOOLEAN,
     resume : Address \cup {NoAddr}]

Frame == [at : Address, target : Address]

TypeOK ==
    /\ text \in Programs
    /\ cpu \in Machine
    /\ loads \in [1..2 -> Values \cup {NoLoad}]
    /\ frames \in Seq(Frame)
    /\ phase \in {"idle", "fetch", "unwind", "overflow"}
    /\ phase \in {"fetch", "unwind"} => frames # << >>
    /\ ret \in BOOLEAN

Init ==
    /\ text \in Programs
    /\ \E fail \in FailModes :
       cpu = [pc |-> TextBot, R |-> 0, ie |-> FALSE, exl |-> FALSE, ip |-> {},
              bd |-> FALSE, code |-> 0, epc |-> 0, bad |-> 0, exc |-> FALSE,
              done |-> FALSE, slot |-> FALSE, fail |-> fail, resume |-> NoAddr]
    /\ loads = [i \in 1..2 |-> NoLoad]
    /\ frames = << >>
    /\ phase = "idle"
    /\ ret = TRUE

-----------------------------------------------------------------------------
(* Exceptions.                                                             *)

Plus4(a) == (a + 4) % AddrSpace
Minus4(a) == (a - 4) % AddrSpace
RoundDown(a) == a - (a % 4)

(* Mutant: EPC holds the instruction after the one that faulted.            *)
FaultAddressAfter(m) == RoundDown(Plus4(m.pc))

(* The address _raise_exception stores in EPC.                             *)
FaultAddress(m) == RoundDown(IF m.slot THEN Minus4(m.pc) ELSE m.pc)

(* Mutant: EXL is not set for an interrupt.                                *)
RaiseWithoutEXL(m, c) ==
    IF c = ExcCode_Int /\ (~m.ie \/ m.exl)
    THEN m
    ELSE [m EXCEPT !.exc = TRUE, !.epc = FaultAddress(m), !.code = c,
                   !.exl = @ \/ c # ExcCode_Int]

(* Mutant: EPC is written although EXL is set.                             *)
RaiseOverEPC(m, c) ==
    IF c = ExcCode_Int /\ (~m.ie \/ m.exl)
    THEN m
    ELSE [m EXCEPT !.exc = TRUE, !.epc = FaultAddress(m), !.code = c, !.exl = TRUE,
                   !.resume = IF m.exl THEN @ ELSE FaultAddress(m)]

(* CPU::_raise_exception: an interrupt is ignored unless IE is set and EXL is   *)
(* clear; EPC and BD are written only when EXL is clear.                   *)
raise_exception(m, c) ==
    IF c = ExcCode_Int /\ (~m.ie \/ m.exl)
    THEN m
    ELSE [m EXCEPT !.exc = TRUE,
                   !.epc = IF m.exl THEN @ ELSE FaultAddress(m),
                   !.resume = IF m.exl THEN @ ELSE FaultAddress(m),
                   !.bd = @ \/ (m.slot /\ ~m.exl),
                   !.code = c,
                   !.exl = TRUE]

(* Mutant: should_fail_on_exception is not consulted.                      *)
RaisesAll(m, c) == c \in ExcCodes

(* The value RAISE_EXCEPTION returns.                                      *)
Raises(m, c) == c = ExcCode_Int \/ ~m.fail

RAISE_EXCEPTION(m, c) ==
    IF Raises(m, c) THEN raise_exception(m, c) ELSE [m EXCEPT !.done = TRUE]

(* A bad memory access: raise, then record the address if that "raised".   *)
BadAccess(m, c, addr) ==
    [RAISE_EXCEPTION(m, c) EXCEPT !.bad = IF Raises(m, c) THEN addr ELSE @]

handle_exception(m) ==
    IF m.fail /\ m.code # ExcCode_Int
    THEN [m EXCEPT !.done = TRUE]
    ELSE [m EXCEPT !.exc = FALSE, !.pc = ExceptionAddr]

(* Cause >> 2 exceeds LAST_REAL_EXCEPT when BD, an IP bit or code 31 is on. *)
CauseAboveReal(m) == m.bd \/ m.ip # {} \/ m.code > LastRealExcept

(* "After instruction executes": the end of every run_spim that breaks     *)
(* out of the switch.                                                      *)
Finished(m) ==
    LET next == [m EXCEPT !.pc = Plus4(@)] IN
    IF ~next.exc
    THEN next
    ELSE handle_exception(
             IF CauseAboveReal(next)
             THEN [next EXCEPT !.epc = Minus4(next.pc)]
             ELSE next)

-----------------------------------------------------------------------------
(* Fetch.                                                                  *)

Nop == [op |-> "nop"]

(* Mutant: exception_occurred is cleared before the fetch.                 *)
FetchedForgets(a) ==
    LET m == [cpu EXCEPT !.exc = FALSE] IN
    IF a \in TextAddrs THEN m ELSE BadAccess(m, ExcCode_IBE, a)

(* read_mem_inst: a bad address goes through bad_text_read, which raises   *)
(* IBE and returns the decoding of 0, an SLL that does nothing.            *)
Fetched(a) == IF a \in TextAddrs THEN cpu ELSE BadAccess(cpu, ExcCode_IBE, a)
CurrentInst == IF cpu.pc \in TextAddrs THEN text[cpu.pc] ELSE Nop

(* The engine calls run_spim while it returned true and done is not set;   *)
(* JUMP_INST calls it unconditionally.                                     *)
Calling ==
    \/ phase = "idle" /\ ret /\ ~cpu.done
    \/ phase = "fetch"

Return(value) ==
    /\ frames' = frames
    /\ IF phase = "fetch"
       THEN phase' = "unwind" /\ ret' = ret
       ELSE phase' = "idle" /\ ret' = value

(* exception_occurred after the fetch: it was pending, or the fetch failed. *)
TakeAtFetch ==
    /\ Calling
    /\ Fetched(cpu.pc).exc
    /\ cpu' = handle_exception([Fetched(cpu.pc) EXCEPT !.exc = FALSE])
    /\ Return(TRUE)
    /\ UNCHANGED <<text, loads>>

(* A null instruction, or one whose symbol has no address yet: run_error,  *)
(* then return false.                                                      *)
CannotExecute ==
    /\ Calling
    /\ ~Fetched(cpu.pc).exc
    /\ CurrentInst.op \in {"none", "undefined"}
    /\ cpu' = Fetched(cpu.pc)
    /\ Return(FALSE)
    /\ UNCHANGED <<text, loads>>

(* DO_DELAYED_UPDATE, the last thing before the switch.                    *)
Updated ==
    [Fetched(cpu.pc) EXCEPT !.R = IF DelayedLoads /\ loads[2] # NoLoad
                                  THEN loads[2] ELSE @]
ShiftedLoads ==
    IF DelayedLoads THEN [loads EXCEPT ![1] = NoLoad, ![2] = loads[1]] ELSE loads

(* The switch is reached with an instruction of class op.                  *)
Executing(op) ==
    /\ Calling
    /\ ~Fetched(cpu.pc).exc
    /\ CurrentInst.op = op
    /\ text' = text

(* The rest of a call whose case ends in break with machine m.             *)
Complete(m) ==
    /\ cpu' = Finished(m)
    /\ loads' = ShiftedLoads
    /\ Return(TRUE)

-----------------------------------------------------------------------------
(* The cases of the switch.                                                *)

(* Every instruction whose data the model does not follow, CACHE, PREF and *)
(* SYNC included.                                                          *)
ExecNop == Executing("nop") /\ Complete(Updated)

(* ADD, ADDI, SUB (and the arithmetic that never overflows): on overflow   *)
(* the result is skipped only if RAISE_EXCEPTION says it raised.           *)
ExecAdd ==
    /\ Executing("add")
    /\ \E result \in Values, overflow \in BOOLEAN :
          LET m == IF overflow THEN RAISE_EXCEPTION(Updated, ExcCode_Ov) ELSE Updated
          IN  Complete(IF overflow /\ Raises(Updated, ExcCode_Ov)
                       THEN m ELSE [m EXCEPT !.R = result])

(* The TEQ ... TNEI traps, and the C.cond compares on a NaN.               *)
ExecTrap ==
    /\ Executing("trap")
    /\ \E holds \in BOOLEAN :
          Complete(IF holds THEN RAISE_EXCEPTION(Updated, CurrentInst.code)
                   ELSE Updated)

(* Coprocessor 2 and RFE: always an exception.                             *)
ExecIllegal ==
    /\ Executing("illegal")
    /\ Complete(RAISE_EXCEPTION(Updated, CurrentInst.code))

(* A debugger breakpoint that raises returns at once, before PC is bumped   *)
(* and before the exception is handled; otherwise BREAK falls into CACHE.  *)
ExecBreak ==
    /\ Executing("break")
    /\ LET m == RAISE_EXCEPTION(Updated, ExcCode_Bp) IN
       IF CurrentInst.debugger /\ Raises(Updated, ExcCode_Bp)
       THEN cpu' = m /\ loads' = ShiftedLoads /\ Return(TRUE)
       ELSE Complete(m)

(* do_syscall: nothing when disabled; EXIT and EXIT2 make run_spim return   *)
(* false; the others may put a result in a register.                       *)
ExecSyscall ==
    /\ Executing("syscall")
    /\ \/ ~SyscallsEnabled /\ Complete(Updated)
       \/ /\ SyscallsEnabled
          /\ \E result \in Values : Complete([Updated EXCEPT !.R = result])
       \/ /\ SyscallsEnabled
          /\ cpu' = Updated /\ loads' = ShiftedLoads /\ Return(FALSE)

(* A load always writes its destination: bad_mem_read returns 0 after it   *)
(* raised.                                                                 *)
ExecLoad ==
    /\ Executing("load")
    /\ \E value \in Values, bad \in BOOLEAN :
          LET m == IF bad THEN BadAccess(Updated, CurrentInst.code, Updated.R)
                   ELSE Updated
              loaded == IF bad THEN 0 ELSE value
          IN  IF DelayedLoads
              THEN /\ cpu' = Finished(m)
                   /\ loads' = [ShiftedLoads EXCEPT ![1] = loaded]
                   /\ Return(TRUE)
              ELSE Complete([m EXCEPT !.R = loaded])

ExecStore ==
    /\ Executing("store")
    /\ \E bad \in BOOLEAN :
          Complete(IF bad THEN BadAccess(Updated, CurrentInst.code, Updated.R)
                   ELSE Updated)

(* MTC0: the value moved is any the masks let through.                     *)
ExecMTC0 ==
    /\ Executing("mtc0")
    /\ \/ /\ CurrentInst.rd = "status"
          /\ \E w \in StatusWrites :
                Complete([Updated EXCEPT !.ie = w.ie, !.exl = w.exl,
                              !.resume = IF w.exl /\ Updated.exl THEN @ ELSE NoAddr])
       \/ /\ CurrentInst.rd = "cause"
          /\ \E w \in CauseWrites :
                Complete([Updated EXCEPT !.bd = w.bd, !.ip = w.ip, !.code = w.code])
       \/ /\ CurrentInst.rd = "epc"
          /\ Complete([Updated EXCEPT !.epc = Updated.R, !.resume = NoAddr])
       \/ /\ CurrentInst.rd = "compare"
          /\ Complete([Updated EXCEPT !.ip = @ \ {TimerLevel}])

-----------------------------------------------------------------------------
(* Jumps.                                                                  *)

(* JUMP_INST from machine m: with delayed branches run_spim is called      *)
(* recursively, with PC still at the jump, before PC is set.               *)
JUMP_INST(m, target) ==
    IF ~DelayedBranches
    THEN Complete([m EXCEPT !.pc = Minus4(target)])
    ELSE /\ cpu' = [m EXCEPT !.slot = TRUE]
         /\ loads' = ShiftedLoads
         /\ ret' = ret
         /\ IF Len(frames) < MaxDepth
            THEN /\ frames' = Append(frames, [at |-> m.pc, target |-> target])
                 /\ phase' = "fetch"
            ELSE frames' = frames /\ phase' = "overflow"

ExecJ == Executing("j") /\ JUMP_INST(Updated, CurrentInst.target)

ExecJR == Executing("jr") /\ JUMP_INST(Updated, Updated.R)

ExecERET ==
    /\ Executing("eret")
    /\ JUMP_INST([Updated EXCEPT !.exl = FALSE, !.resume = NoAddr], Updated.epc)

(* BRANCH_INST: taken when the register is not zero; a branch that is not   *)
(* taken and nullifies skips the next instruction.                         *)
ExecBranch ==
    /\ Executing("branch")
    /\ LET target == CurrentInst.target IN
       IF Updated.R # 0
       THEN JUMP_INST(Updated, IF DelayedBranches THEN Plus4(target) ELSE target)
       ELSE Complete(IF CurrentInst.nullify
                     THEN [Updated EXCEPT !.pc = Plus4(@)] ELSE Updated)

(* Mutant: the outermost jump does not return to the engine.               *)
LeaveDelaySlotForgets ==
    /\ phase = "unwind"
    /\ cpu' = Finished([cpu EXCEPT !.slot = FALSE,
                                   !.pc = Minus4(frames[Len(frames)].target)])
    /\ frames' = SubSeq(frames, 1, Len(frames) - 1)
    /\ UNCHANGED <<text, loads, phase, ret>>

(* The nested run_spim has returned to JUMP_INST: leave the delay slot, set *)
(* PC, and finish the jump itself.                                         *)
LeaveDelaySlot ==
    /\ phase = "unwind"
    /\ LET frame == frames[Len(frames)] IN
       cpu' = Finished([cpu EXCEPT !.slot = FALSE, !.pc = Minus4(frame.target)])
    /\ frames' = SubSeq(frames, 1, Len(frames) - 1)
    /\ IF Len(frames) = 1
       THEN phase' = "idle" /\ ret' = TRUE
       ELSE phase' = "unwind" /\ ret' = ret
    /\ UNCHANGED <<text, loads>>

-----------------------------------------------------------------------------
(* Between two calls of run_spim.                                          *)

Outside(m) ==
    /\ phase = "idle"
    /\ cpu' = m
    /\ UNCHANGED <<text, loads, frames, phase, ret>>

RAISE_INTERRUPT(level) == Outside([cpu EXCEPT !.ip = @ \cup {level}])
CLEAR_INTERRUPT(level) == Outside([cpu EXCEPT !.ip = @ \ {level}])

(* The engine, which is not in this repository, reports a pending          *)
(* interrupt with RAISE_EXCEPTION(ExcCode_Int).                            *)
EngineInterrupt ==
    /\ cpu.ip # {}
    /\ Outside(RAISE_EXCEPTION(cpu, ExcCode_Int))

(* print_inst / inst_to_string: clears exception_occurred, then reads the   *)
(* instruction the way the interpreter does.                               *)
print_inst(addr) ==
    LET m == [cpu EXCEPT !.exc = FALSE] IN
    Outside(IF addr \in TextAddrs THEN m ELSE BadAccess(m, ExcCode_IBE, addr))

-----------------------------------------------------------------------------
run_spim ==
    \/ TakeAtFetch
    \/ CannotExecute
    \/ ExecNop
    \/ ExecAdd
    \/ ExecTrap
    \/ ExecIllegal
    \/ ExecBreak
    \/ ExecSyscall
    \/ ExecLoad
    \/ ExecStore
    \/ ExecMTC0
    \/ ExecJ
    \/ ExecJR
    \/ ExecERET
    \/ ExecBranch
    \/ LeaveDelaySlot

Environment ==
    \/ \E level \in Levels : RAISE_INTERRUPT(level) \/ CLEAR_INTERRUPT(level)
    \/ EngineInterrupt
    \/ \E addr \in DisplayAddrs : print_inst(addr)

Next == run_spim \/ Environment

Spec == Init /\ [][Next]_vars

(* The engine's event loop keeps calling run_spim.                         *)
FairSpec == Spec /\ WF_vars(run_spim)

-----------------------------------------------------------------------------
(* Properties.                                                             *)

(* While an exception waits to be handled EXL is set, so that no interrupt  *)
(* can be accepted on top of it and replace its cause: nothing between the  *)
(* raise and handle_exception, a debugger breakpoint's early return and the *)
(* next fetch included, runs an ERET or MTC0.                               *)
PendingBlocksInterrupts == cpu.exc => cpu.exl

(* With should_fail_on_exception only interrupts are ever raised: anything  *)
(* else sets done instead, so handle_exception never drops a pending        *)
(* exception through its early return.                                     *)
TournamentOnlyInterrupts ==
    cpu.fail /\ cpu.exc => cpu.code = ExcCode_Int

(* "Turn on EXL bit to prevent subsequent interrupts from affecting EPC":   *)
(* until software itself writes EPC or clears EXL, EPC is the address the   *)
(* outermost exception interrupted.                                        *)
ResumeAddressKept == cpu.resume # NoAddr => cpu.exl /\ cpu.epc = cpu.resume

(* run_spim's JUMP_INST promises to execute a jump "by running the          *)
(* instruction from the delay slot before transfering control": a nested    *)
(* call fetches the instruction after the jump.                            *)
NestedCallRunsDelaySlot ==
    phase = "fetch" => cpu.pc = Plus4(frames[Len(frames)].at)

(* A raised exception is never dropped: the flag is cleared by entering the *)
(* handler, or by inst_to_string, which resets exception_occurred for its  *)
(* own fetch.                                                              *)
DroppedOnlyByPrinting ==
    [][cpu.exc /\ ~cpu'.exc =>
          \/ cpu'.pc = ExceptionAddr
          \/ \E addr \in DisplayAddrs : print_inst(addr)]_vars

(* An exception raised between two calls, or by a debugger breakpoint just  *)
(* before run_spim returned, reaches the handler if the engine still calls  *)
(* run_spim.                                                               *)
ExceptionReachesHandler == cpu.exc ~> (cpu.pc = ExceptionAddr \/ ~ret)

=============================================================================
