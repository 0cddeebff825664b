--------------------------- MODULE CpuControlProofs ---------------------------
(***************************************************************************)
(* Proofs about CpuControl for every program, address space, device set    *)
(* and configuration that satisfies its assumptions: its types, what holds *)
(* of a raised exception until its handler is entered, and that programs   *)
(* cannot tell that interrupts were served (CpuUserView).                  *)
(***************************************************************************)
EXTENDS CpuUserView, TLAPS, SequenceTheorems

(* Address arithmetic stays in the address space.                          *)
LEMMA AddressArithmetic ==
    ASSUME NEW a \in Address
    PROVE  /\ Plus4(a) \in Address
           /\ Minus4(a) \in Address
           /\ RoundDown(a) \in Address
<1>1. \A x \in Int : x % AddrSpace \in Address
  BY AddressAssumption DEF Address
<1>2. Plus4(a) \in Address /\ Minus4(a) \in Address
  BY <1>1 DEF Plus4, Minus4, Address
<1>3. RoundDown(a) \in Address
  BY AddressAssumption DEF RoundDown, Address
<1>4. QED BY <1>2, <1>3

(* Popping the innermost element of a sequence that is not empty.           *)
LEMMA PoppedType ==
    ASSUME NEW S, NEW s \in Seq(S), s # << >>
    PROVE  /\ s[Len(s)] \in S
           /\ SubSeq(s, 1, Len(s) - 1) \in Seq(S)
           /\ Len(s) # 1 => SubSeq(s, 1, Len(s) - 1) # << >>
<1> DEFINE n == Len(s) - 1
<1>1. s[Len(s)] \in S /\ n \in Nat /\ n <= Len(s)
  BY EmptySeq, ElementOfSeq
<1> HIDE DEF n
<1>2. SubSeq(s, 1, n) \in Seq(S) /\ Len(SubSeq(s, 1, n)) = n
  BY <1>1
<1>3. n # 0 => SubSeq(s, 1, n) # << >>
  BY <1>2
<1>4. QED BY <1>1, <1>2, <1>3 DEF n

(* The functions on machines return machines.                              *)
LEMMA RaiseType ==
    ASSUME NEW m \in Machine, NEW c \in ExcCodes
    PROVE  RAISE_EXCEPTION(m, c) \in Machine
<1>1. FaultAddress(m) \in Address
  BY AddressArithmetic DEF FaultAddress, Machine
<1>2. QED BY <1>1 DEF RAISE_EXCEPTION, raise_exception, Machine

LEMMA BadAccessType ==
    ASSUME NEW m \in Machine, NEW c \in ExcCodes, NEW a \in Address
    PROVE  BadAccess(m, c, a) \in Machine
BY RaiseType DEF BadAccess, Machine

LEMMA HandleType ==
    ASSUME NEW m \in Machine
    PROVE  handle_exception(m) \in Machine
BY AddressAssumption DEF handle_exception, Machine

LEMMA FinishedType ==
    ASSUME NEW m \in Machine
    PROVE  Finished(m) \in Machine
<1> DEFINE next == [m EXCEPT !.pc = Plus4(@)]
           kept == [next EXCEPT !.epc = Minus4(next.pc)]
<1>1. next \in Machine
  BY AddressArithmetic DEF Machine
<1>2. kept \in Machine
  BY <1>1, AddressArithmetic DEF Machine
<1>3. handle_exception(next) \in Machine /\ handle_exception(kept) \in Machine
  BY <1>1, <1>2, HandleType
<1>4. QED BY <1>1, <1>3 DEF Finished

(* A machine stays one when fields are replaced by values of their types.  *)
LEMMA UpdatedType ==
    ASSUME TypeOK
    PROVE  /\ Fetched(cpu.pc) \in Machine
           /\ Updated \in Machine
           /\ ShiftedLoads \in [1..2 -> Values \cup {NoLoad}]
<1>1. Fetched(cpu.pc) \in Machine
  BY BadAccessType DEF TypeOK, Fetched, Machine, ExcCodes, ExcCode_IBE
<1>2. loads[2] \in Values \cup {NoLoad} /\ loads[1] \in Values \cup {NoLoad}
  BY DEF TypeOK
<1>3. Updated \in Machine
  BY <1>1, <1>2 DEF Updated, Machine
<1>4. ShiftedLoads \in [1..2 -> Values \cup {NoLoad}]
  BY <1>2 DEF ShiftedLoads, TypeOK
<1>5. QED BY <1>1, <1>3, <1>4

LEMMA CompleteType ==
    ASSUME TypeOK, text' = text, NEW m \in Machine, Complete(m)
    PROVE  TypeOK'
<1>1. cpu' \in Machine
  BY FinishedType DEF Complete
<1>2. loads' \in [1..2 -> Values \cup {NoLoad}]
  BY UpdatedType DEF Complete
<1>3. QED BY <1>1, <1>2 DEF Complete, Return, TypeOK

LEMMA JumpType ==
    ASSUME TypeOK, text' = text, NEW m \in Machine, NEW target \in Address,
           JUMP_INST(m, target)
    PROVE  TypeOK'
<1>1. CASE ~DelayedBranches
  <2>1. [m EXCEPT !.pc = Minus4(target)] \in Machine
    BY AddressArithmetic DEF Machine
  <2>2. QED BY <1>1, <2>1, CompleteType DEF JUMP_INST
<1>2. CASE DelayedBranches
  <2>1. cpu' \in Machine
    BY <1>2 DEF JUMP_INST, Machine
  <2>2. [at |-> m.pc, target |-> target] \in Frame
    BY DEF Frame, Machine
  <2>3. frames' \in Seq(Frame) /\ (phase' = "fetch" => frames' # << >>)
    BY <1>2, <2>2, AppendProperties DEF JUMP_INST, TypeOK
  <2>4. loads' \in [1..2 -> Values \cup {NoLoad}]
    BY <1>2, UpdatedType DEF JUMP_INST
  <2>5. phase' \in {"fetch", "overflow"} /\ ret' = ret
    BY <1>2 DEF JUMP_INST
  <2>6. QED BY <2>1, <2>3, <2>4, <2>5 DEF TypeOK
<1>3. QED BY <1>1, <1>2

(* The instruction about to run is one of the instruction set.             *)
LEMMA CurrentInstType ==
    ASSUME TypeOK
    PROVE  CurrentInst \in Inst
<1>1. CASE cpu.pc \in TextAddrs
  BY <1>1, ConfigAssumption DEF TypeOK, CurrentInst
<1>2. CASE cpu.pc \notin TextAddrs
  BY <1>2 DEF CurrentInst, Nop, Inst
<1>3. QED BY <1>1, <1>2

LEMMA InstFields ==
    ASSUME NEW i \in Inst
    PROVE  /\ i.op \in {"trap", "illegal", "load", "store"} => i.code \in ExcCodes
           /\ i.op \in {"j", "branch"} => i.target \in Address
BY DEF Inst, ExcCodes, ExcCode_AdEL, ExcCode_AdES, ExcCode_DBE, ExcCode_RI,
       ExcCode_CpU, ExcCode_Tr, ExcCode_FPE

(* Every call of run_spim, and every step between calls, keeps the types.   *)
LEMMA RunSpimType ==
    ASSUME TypeOK, run_spim
    PROVE  TypeOK'
<1> DEFINE inst == CurrentInst
<1>0. /\ Fetched(cpu.pc) \in Machine
      /\ Updated \in Machine
      /\ Updated.R \in Address
      /\ inst \in Inst
  BY UpdatedType, CurrentInstType, AddressAssumption DEF Machine
<1>1. CASE TakeAtFetch
  <2>1. [Fetched(cpu.pc) EXCEPT !.exc = FALSE] \in Machine
    BY <1>0 DEF Machine
  <2>2. cpu' \in Machine
    BY <1>1, <2>1, HandleType DEF TakeAtFetch
  <2>3. QED BY <1>1, <2>2 DEF TakeAtFetch, Return, TypeOK
<1>2. CASE CannotExecute
  BY <1>0, <1>2 DEF CannotExecute, Return, TypeOK
<1>3. CASE ExecNop
  BY <1>0, <1>3, CompleteType DEF ExecNop, Executing
<1>4. CASE ExecAdd
  <2>1. RAISE_EXCEPTION(Updated, ExcCode_Ov) \in Machine
    BY <1>0, RaiseType DEF ExcCodes, ExcCode_Ov
  <2>2. PICK result \in Values, overflow \in BOOLEAN :
          LET m == IF overflow THEN RAISE_EXCEPTION(Updated, ExcCode_Ov) ELSE Updated
          IN  Complete(IF overflow /\ Raises(Updated, ExcCode_Ov)
                       THEN m ELSE [m EXCEPT !.R = result])
    BY <1>4 DEF ExecAdd
  <2> DEFINE m == IF overflow THEN RAISE_EXCEPTION(Updated, ExcCode_Ov) ELSE Updated
             n == IF overflow /\ Raises(Updated, ExcCode_Ov) THEN m ELSE [m EXCEPT !.R = result]
  <2>3. m \in Machine
    BY <1>0, <2>1
  <2>4. [m EXCEPT !.R = result] \in Machine
    BY <2>3 DEF Machine
  <2>5. n \in Machine
    BY <2>3, <2>4
  <2>6. Complete(n)
    BY <2>2
  <2> HIDE DEF n
  <2>7. QED BY <1>4, <2>5, <2>6, CompleteType DEF ExecAdd, Executing
<1>5. CASE ExecTrap
  <2>1. RAISE_EXCEPTION(Updated, inst.code) \in Machine
    BY <1>0, <1>5, InstFields, RaiseType DEF ExecTrap, Executing
  <2>2. QED BY <1>0, <1>5, <2>1, CompleteType DEF ExecTrap, Executing
<1>6. CASE ExecIllegal
  <2>1. RAISE_EXCEPTION(Updated, inst.code) \in Machine
    BY <1>0, <1>6, InstFields, RaiseType DEF ExecIllegal, Executing
  <2>2. QED BY <1>6, <2>1, CompleteType DEF ExecIllegal, Executing
<1>7. CASE ExecBreak
  <2> DEFINE m == RAISE_EXCEPTION(Updated, ExcCode_Bp)
  <2>1. m \in Machine
    BY <1>0, RaiseType DEF ExcCodes, ExcCode_Bp
  <2>2. CASE inst.debugger /\ Raises(Updated, ExcCode_Bp)
    BY <1>7, <2>1, <2>2, UpdatedType DEF ExecBreak, Executing, Return, TypeOK
  <2>3. CASE ~(inst.debugger /\ Raises(Updated, ExcCode_Bp))
    <3>1. Complete(m) /\ text' = text
      BY <1>7, <2>3 DEF ExecBreak, Executing
    <3> HIDE DEF m
    <3>2. QED BY <2>1, <3>1, CompleteType
  <2>4. QED BY <2>2, <2>3
<1>8. CASE ExecSyscall
  <2>1. CASE Complete(Updated)
    BY <1>0, <1>8, <2>1, CompleteType DEF ExecSyscall, Executing
  <2>2. ASSUME NEW result \in Values, Complete([Updated EXCEPT !.R = result])
        PROVE  TypeOK'
    <3>1. [Updated EXCEPT !.R = result] \in Machine
      BY <1>0 DEF Machine
    <3>2. QED BY <1>8, <2>2, <3>1, CompleteType DEF ExecSyscall, Executing
  <2>3. CASE cpu' = Updated /\ loads' = ShiftedLoads /\ Return(FALSE)
    BY <1>0, <1>8, <2>3, UpdatedType DEF ExecSyscall, Executing, Return, TypeOK
  <2>4. QED BY <1>8, <2>1, <2>2, <2>3 DEF ExecSyscall
<1>9. CASE ExecLoad
  <2>1. PICK value \in Values, bad \in BOOLEAN :
          LET m == IF bad THEN BadAccess(Updated, CurrentInst.code, Updated.R)
                   ELSE Updated
              loaded == IF bad THEN 0 ELSE value
          IN  IF DelayedLoads
              THEN /\ cpu' = Finished(m)
                   /\ loads' = [ShiftedLoads EXCEPT ![1] = loaded]
                   /\ Return(TRUE)
              ELSE Complete([m EXCEPT !.R = loaded])
    BY <1>9 DEF ExecLoad
  <2> DEFINE m == IF bad THEN BadAccess(Updated, CurrentInst.code, Updated.R)
                  ELSE Updated
             loaded == IF bad THEN 0 ELSE value
  <2>2. inst.code \in ExcCodes
    BY <1>0, <1>9, InstFields DEF ExecLoad, Executing
  <2>3. m \in Machine
    BY <1>0, <2>2, BadAccessType
  <2>4. loaded \in Values
    BY AddressAssumption
  <2>5. text' = text
    BY <1>9 DEF ExecLoad, Executing
  <2>6. CASE DelayedLoads
    <3>1. cpu' = Finished(m) /\ loads' = [ShiftedLoads EXCEPT ![1] = loaded]
          /\ Return(TRUE)
      BY <2>1, <2>6
    <3> HIDE DEF m, loaded
    <3>2. cpu' \in Machine
      BY <2>3, <3>1, FinishedType
    <3>3. loads' \in [1..2 -> Values \cup {NoLoad}]
      BY <2>4, <3>1, UpdatedType
    <3>4. QED BY <2>5, <3>1, <3>2, <3>3 DEF Return, TypeOK
  <2>7. CASE ~DelayedLoads
    <3>1. Complete([m EXCEPT !.R = loaded])
      BY <2>1, <2>7
    <3>2. [m EXCEPT !.R = loaded] \in Machine
      <4> HIDE DEF m, loaded
      <4>1. QED BY <2>3, <2>4 DEF Machine
    <3> HIDE DEF m, loaded
    <3>3. QED BY <2>5, <3>1, <3>2, CompleteType
  <2>8. QED BY <2>6, <2>7
<1>10. CASE ExecStore
  <2>1. inst.code \in ExcCodes
    BY <1>0, <1>10, InstFields DEF ExecStore, Executing
  <2>2. BadAccess(Updated, inst.code, Updated.R) \in Machine
    BY <1>0, <2>1, BadAccessType
  <2>3. QED BY <1>0, <1>10, <2>2, CompleteType DEF ExecStore, Executing
<1>11. CASE ExecMTC0
  <2>1. text' = text
    BY <1>11 DEF ExecMTC0, Executing
  <2>2. ASSUME NEW w \in StatusWrites,
               Complete([Updated EXCEPT !.ie = w.ie, !.exl = w.exl,
                             !.resume = IF w.exl /\ Updated.exl THEN @ ELSE NoAddr])
        PROVE  TypeOK'
    <3>1. w.ie \in BOOLEAN /\ w.exl \in BOOLEAN
      BY ConfigAssumption
    <3>2. [Updated EXCEPT !.ie = w.ie, !.exl = w.exl,
              !.resume = IF w.exl /\ Updated.exl THEN @ ELSE NoAddr] \in Machine
      BY <1>0, <3>1 DEF Machine
    <3>3. QED BY <2>1, <2>2, <3>2, CompleteType
  <2>3. ASSUME NEW w \in CauseWrites,
               Complete([Updated EXCEPT !.bd = w.bd, !.ip = w.ip, !.code = w.code])
        PROVE  TypeOK'
    <3>1. w.bd \in BOOLEAN /\ w.ip \in SUBSET Levels /\ w.code \in ExcCodes
      BY ConfigAssumption
    <3>2. [Updated EXCEPT !.bd = w.bd, !.ip = w.ip, !.code = w.code] \in Machine
      BY <1>0, <3>1 DEF Machine
    <3>3. QED BY <2>1, <2>3, <3>2, CompleteType
  <2>4. CASE Complete([Updated EXCEPT !.epc = Updated.R, !.resume = NoAddr])
    <3>1. [Updated EXCEPT !.epc = Updated.R, !.resume = NoAddr] \in Machine
      BY <1>0 DEF Machine
    <3>2. QED BY <2>1, <2>4, <3>1, CompleteType
  <2>5. CASE Complete([Updated EXCEPT !.ip = @ \ {TimerLevel}])
    <3>1. [Updated EXCEPT !.ip = @ \ {TimerLevel}] \in Machine
      BY <1>0 DEF Machine
    <3>2. QED BY <2>1, <2>5, <3>1, CompleteType
  <2>6. QED BY <1>11, <2>2, <2>3, <2>4, <2>5 DEF ExecMTC0
<1>12. CASE ExecJ
  <2>1. inst.target \in Address
    BY <1>0, <1>12, InstFields DEF ExecJ, Executing
  <2>2. QED BY <1>0, <1>12, <2>1, JumpType DEF ExecJ, Executing
<1>13. CASE ExecJR
  BY <1>0, <1>13, JumpType DEF ExecJR, Executing
<1>14. CASE ExecERET
  <2>1. [Updated EXCEPT !.exl = FALSE, !.resume = NoAddr] \in Machine
    BY <1>0 DEF Machine
  <2>2. Updated.epc \in Address
    BY <1>0 DEF Machine
  <2>3. QED BY <1>14, <2>1, <2>2, JumpType DEF ExecERET, Executing
<1>15. CASE ExecBranch
  <2>1. inst.target \in Address
    BY <1>0, <1>15, InstFields DEF ExecBranch, Executing
  <2>2. Plus4(inst.target) \in Address
    BY <2>1, AddressArithmetic
  <2>3. [Updated EXCEPT !.pc = Plus4(@)] \in Machine
    BY <1>0, AddressArithmetic DEF Machine
  <2>4. text' = text
    BY <1>15 DEF ExecBranch, Executing
  <2>5. CASE Updated.R # 0
    BY <1>0, <1>15, <2>1, <2>2, <2>4, <2>5, JumpType DEF ExecBranch
  <2>6. CASE Updated.R = 0
    BY <1>0, <1>15, <2>3, <2>4, <2>6, CompleteType DEF ExecBranch
  <2>7. QED BY <2>5, <2>6
<1>16. CASE LeaveDelaySlot
  <2> DEFINE frame == frames[Len(frames)]
             m == [cpu EXCEPT !.slot = FALSE, !.pc = Minus4(frame.target)]
  <2>1. frames \in Seq(Frame) /\ frames # << >>
    BY <1>16 DEF TypeOK, LeaveDelaySlot
  <2>2. frame \in Frame /\ frame.target \in Address
    <3>1. frame \in Frame
      BY <2>1, PoppedType, Zenon
    <3> HIDE DEF frame
    <3>2. QED BY <3>1 DEF Frame
  <2>3. m \in Machine
    <3>1. Minus4(frame.target) \in Address
      BY <2>2, AddressArithmetic
    <3> HIDE DEF frame
    <3>2. QED BY <3>1 DEF TypeOK, Machine
  <2>4. cpu' \in Machine
    <3>1. cpu' = Finished(m)
      BY <1>16 DEF LeaveDelaySlot
    <3> HIDE DEF m
    <3>2. QED BY <2>3, <3>1, FinishedType
  <2>5. frames' \in Seq(Frame) /\ (Len(frames) # 1 => frames' # << >>)
    <3>1. frames' = SubSeq(frames, 1, Len(frames) - 1)
      BY <1>16 DEF LeaveDelaySlot
    <3>2. QED BY <2>1, <3>1, PoppedType, Zenon
  <2>6. QED BY <1>16, <2>4, <2>5 DEF LeaveDelaySlot, TypeOK
<1>17. QED
  BY <1>1, <1>2, <1>3, <1>4, <1>5, <1>6, <1>7, <1>8, <1>9, <1>10, <1>11,
     <1>12, <1>13, <1>14, <1>15, <1>16 DEF run_spim

LEMMA EnvironmentType ==
    ASSUME TypeOK, Environment
    PROVE  TypeOK'
<1>1. ASSUME NEW m \in Machine, Outside(m)
      PROVE  TypeOK'
  BY <1>1 DEF Outside, TypeOK
<1>2. ASSUME NEW level \in Levels,
             RAISE_INTERRUPT(level) \/ CLEAR_INTERRUPT(level)
      PROVE  TypeOK'
  <2>1. /\ [cpu EXCEPT !.ip = @ \cup {level}] \in Machine
        /\ [cpu EXCEPT !.ip = @ \ {level}] \in Machine
    BY DEF TypeOK, Machine
  <2>2. QED BY <1>1, <1>2, <2>1 DEF RAISE_INTERRUPT, CLEAR_INTERRUPT
<1>3. CASE EngineInterrupt
  <2>1. RAISE_EXCEPTION(cpu, ExcCode_Int) \in Machine
    BY RaiseType DEF TypeOK, ExcCodes, ExcCode_Int
  <2>2. QED BY <1>1, <1>3, <2>1 DEF EngineInterrupt
<1>4. ASSUME NEW addr \in DisplayAddrs, print_inst(addr)
      PROVE  TypeOK'
  <2> DEFINE m == [cpu EXCEPT !.exc = FALSE]
  <2>1. m \in Machine
    BY DEF TypeOK, Machine
  <2>2. addr \in Address
    BY AddressAssumption
  <2>3. BadAccess(m, ExcCode_IBE, addr) \in Machine
    <3> HIDE DEF m
    <3>1. QED BY <2>1, <2>2, BadAccessType DEF ExcCodes, ExcCode_IBE
  <2>4. QED BY <1>1, <1>4, <2>1, <2>3 DEF print_inst
<1>5. QED BY <1>2, <1>3, <1>4 DEF Environment

(* Every state of every run is well typed: in particular PC, EPC and        *)
(* BadVAddr never leave the address space, and a nested run_spim always has *)
(* a JUMP_INST waiting for it.                                             *)
THEOREM TypeCorrect == Spec => []TypeOK
<1>1. Init => TypeOK
  <2> SUFFICES ASSUME Init PROVE TypeOK
    OBVIOUS
  <2>1. PICK fail \in FailModes :
           cpu = [pc |-> TextBot, R |-> 0, ie |-> FALSE, exl |-> FALSE, ip |-> {},
                  bd |-> FALSE, code |-> 0, epc |-> 0, bad |-> 0, exc |-> FALSE,
                  done |-> FALSE, slot |-> FALSE, fail |-> fail, resume |-> NoAddr]
    BY DEF Init
  <2>2. cpu \in Machine
    BY <2>1, AddressAssumption, ConfigAssumption DEF Machine, Address, ExcCodes
  <2>3. QED BY <2>2 DEF Init, TypeOK
<1>2. TypeOK /\ [Next]_vars => TypeOK'
  <2>1. CASE UNCHANGED vars
    BY <2>1 DEF vars, TypeOK
  <2>2. QED BY <2>1, RunSpimType, EnvironmentType DEF Next
<1>3. QED BY <1>1, <1>2, PTL DEF Spec

------------------------------------------------------------------------------
(* What holds of a raised exception until its handler is entered.  The      *)
(* invariants are about machines, so they are proved of the functions       *)
(* run_spim is made of first, and then of its actions.                      *)

(* EXL is set under a raised exception; in a tournament it is an interrupt. *)
Sound(m) ==
    /\ m.exc => m.exl
    /\ m.fail /\ m.exc => m.code = ExcCode_Int

LEMMA RaiseSound ==
    ASSUME NEW m \in Machine, Sound(m), NEW c \in ExcCodes
    PROVE  Sound(RAISE_EXCEPTION(m, c))
BY DEF Sound, RAISE_EXCEPTION, raise_exception, Raises, Machine

LEMMA BadAccessSound ==
    ASSUME NEW m \in Machine, Sound(m), NEW c \in ExcCodes, NEW a \in Address
    PROVE  Sound(BadAccess(m, c, a))
<1> DEFINE r == RAISE_EXCEPTION(m, c)
<1>1. r \in Machine /\ Sound(r)
  BY RaiseType, RaiseSound
<1> HIDE DEF r
<1>2. Sound([r EXCEPT !.bad = IF Raises(m, c) THEN a ELSE @])
  BY <1>1 DEF Sound, Machine
<1>3. QED BY <1>2 DEF BadAccess, r

LEMMA HandleSound ==
    ASSUME NEW m \in Machine, Sound(m)
    PROVE  Sound(handle_exception(m))
BY DEF Sound, handle_exception, Machine

LEMMA FinishedSound ==
    ASSUME NEW m \in Machine, Sound(m)
    PROVE  Sound(Finished(m))
<1> DEFINE next == [m EXCEPT !.pc = Plus4(@)]
           kept == [next EXCEPT !.epc = Minus4(next.pc)]
<1>1. next \in Machine /\ Sound(next)
  BY AddressArithmetic DEF Machine, Sound
<1>2. kept \in Machine /\ Sound(kept)
  BY <1>1, AddressArithmetic DEF Machine, Sound
<1>3. Sound(handle_exception(next)) /\ Sound(handle_exception(kept))
  BY <1>1, <1>2, HandleSound
<1>4. QED BY <1>1, <1>3 DEF Finished

(* The switch is never reached with an exception pending, so Status and     *)
(* Cause are not written and EXL is not cleared under one.                 *)
LEMMA NothingPending ==
    ASSUME TypeOK, ~Fetched(cpu.pc).exc
    PROVE  Updated \in Machine /\ ~Updated.exc /\ Sound(Updated)
<1>1. Fetched(cpu.pc) \in Machine /\ Updated \in Machine
  BY UpdatedType
<1>2. Updated.exc = Fetched(cpu.pc).exc
  BY <1>1 DEF Updated, Machine
<1>3. QED BY <1>1, <1>2 DEF Sound

LEMMA CompleteSound ==
    ASSUME NEW m \in Machine, Sound(m), Complete(m)
    PROVE  Sound(cpu')
BY FinishedSound DEF Complete

(* A machine without a pending exception may complete with any registers.  *)
LEMMA CompleteQuiet ==
    ASSUME NEW m \in Machine, ~m.exc, Complete(m)
    PROVE  Sound(cpu')
BY CompleteSound DEF Sound

LEMMA JumpSound ==
    ASSUME NEW m \in Machine, ~m.exc, NEW target \in Address,
           JUMP_INST(m, target)
    PROVE  Sound(cpu')
<1>1. CASE ~DelayedBranches
  <2>1. [m EXCEPT !.pc = Minus4(target)] \in Machine
    BY AddressArithmetic DEF Machine
  <2>2. ~[m EXCEPT !.pc = Minus4(target)].exc
    BY DEF Machine
  <2>3. QED BY <1>1, <2>1, <2>2, CompleteQuiet DEF JUMP_INST
<1>2. CASE DelayedBranches
  BY <1>2 DEF JUMP_INST, Sound, Machine
<1>3. QED BY <1>1, <1>2

LEMMA RunSpimSound ==
    ASSUME TypeOK, Sound(cpu), run_spim
    PROVE  Sound(cpu')
<1> DEFINE inst == CurrentInst
<1>0. /\ Fetched(cpu.pc) \in Machine
      /\ Sound(Fetched(cpu.pc))
      /\ Updated \in Machine
      /\ Updated.R \in Address
      /\ Updated.epc \in Address
      /\ inst \in Inst
  <2>1. Sound(Fetched(cpu.pc))
    <3>1. cpu \in Machine /\ cpu.pc \in Address
      BY DEF TypeOK, Machine
    <3>2. QED BY <3>1, BadAccessSound DEF Fetched, ExcCodes, ExcCode_IBE
  <2>2. QED BY <2>1, UpdatedType, CurrentInstType, AddressAssumption DEF Machine
<1>q. ASSUME NEW op, Executing(op)
      PROVE  ~Updated.exc /\ Sound(Updated) /\ inst.op = op
  BY <1>q, NothingPending DEF Executing
<1>1. CASE TakeAtFetch
  <2> DEFINE m == [Fetched(cpu.pc) EXCEPT !.exc = FALSE]
  <2>1. m \in Machine /\ Sound(m)
    BY <1>0 DEF Machine, Sound
  <2>2. cpu' = handle_exception(m)
    BY <1>1 DEF TakeAtFetch
  <2> HIDE DEF m
  <2>3. QED BY <2>1, <2>2, HandleSound
<1>2. CASE CannotExecute
  BY <1>0, <1>2 DEF CannotExecute
<1>3. CASE ExecNop
  BY <1>0, <1>q, <1>3, CompleteQuiet DEF ExecNop
<1>4. CASE ExecAdd
  <2>1. PICK result \in Values, overflow \in BOOLEAN :
          LET m == IF overflow THEN RAISE_EXCEPTION(Updated, ExcCode_Ov) ELSE Updated
          IN  Complete(IF overflow /\ Raises(Updated, ExcCode_Ov)
                       THEN m ELSE [m EXCEPT !.R = result])
    BY <1>4 DEF ExecAdd
  <2> DEFINE m == IF overflow THEN RAISE_EXCEPTION(Updated, ExcCode_Ov) ELSE Updated
             n == IF overflow /\ Raises(Updated, ExcCode_Ov) THEN m ELSE [m EXCEPT !.R = result]
  <2>2. Sound(Updated) /\ Updated \in Machine
    BY <1>0, <1>4, <1>q DEF ExecAdd
  <2>3. m \in Machine /\ Sound(m)
    <3> DEFINE r == RAISE_EXCEPTION(Updated, ExcCode_Ov)
    <3>1. r \in Machine /\ Sound(r)
      BY <2>2, RaiseType, RaiseSound DEF ExcCodes, ExcCode_Ov
    <3>2. m = r \/ m = Updated
      OBVIOUS
    <3> HIDE DEF r, m
    <3>3. QED BY <2>2, <3>1, <3>2
  <2>4. n \in Machine /\ Sound(n)
    <3> HIDE DEF m
    <3>1. [m EXCEPT !.R = result] \in Machine /\ Sound([m EXCEPT !.R = result])
      BY <2>3 DEF Machine, Sound
    <3>2. QED BY <2>3, <3>1
  <2>5. Complete(n)
    BY <2>1
  <2> HIDE DEF n
  <2>6. QED BY <2>4, <2>5, CompleteSound
<1>5. CASE ExecTrap
  <2>1. Sound(Updated) /\ inst.op = "trap"
    BY <1>5, <1>q DEF ExecTrap
  <2> DEFINE r == RAISE_EXCEPTION(Updated, inst.code)
  <2>2. r \in Machine /\ Sound(r)
    BY <1>0, <2>1, InstFields, RaiseType, RaiseSound
  <2>3. Complete(r) \/ Complete(Updated)
    BY <1>5 DEF ExecTrap
  <2> HIDE DEF r
  <2>4. QED BY <1>0, <2>1, <2>2, <2>3, CompleteSound
<1>6. CASE ExecIllegal
  <2>1. Sound(Updated) /\ inst.op = "illegal"
    BY <1>6, <1>q DEF ExecIllegal
  <2> DEFINE r == RAISE_EXCEPTION(Updated, inst.code)
  <2>2. r \in Machine /\ Sound(r)
    BY <1>0, <2>1, InstFields, RaiseType, RaiseSound
  <2>3. Complete(r)
    BY <1>6 DEF ExecIllegal
  <2> HIDE DEF r
  <2>4. QED BY <2>2, <2>3, CompleteSound
<1>7. CASE ExecBreak
  <2>1. Sound(Updated)
    BY <1>7, <1>q DEF ExecBreak
  <2> DEFINE r == RAISE_EXCEPTION(Updated, ExcCode_Bp)
  <2>2. r \in Machine /\ Sound(r)
    BY <1>0, <2>1, RaiseType, RaiseSound DEF ExcCodes, ExcCode_Bp
  <2>3. Complete(r) \/ cpu' = r
    BY <1>7 DEF ExecBreak
  <2> HIDE DEF r
  <2>4. QED BY <2>2, <2>3, CompleteSound
<1>8. CASE ExecSyscall
  <2>1. Sound(Updated) /\ ~Updated.exc
    BY <1>8, <1>q DEF ExecSyscall
  <2>2. ASSUME NEW result \in Values, Complete([Updated EXCEPT !.R = result])
        PROVE  Sound(cpu')
    <3>1. [Updated EXCEPT !.R = result] \in Machine
          /\ ~[Updated EXCEPT !.R = result].exc
      BY <1>0, <2>1 DEF Machine
    <3>2. QED BY <2>2, <3>1, CompleteQuiet
  <2>3. QED BY <1>0, <1>8, <2>1, <2>2, CompleteQuiet DEF ExecSyscall
<1>9. CASE ExecLoad
  <2>1. Sound(Updated) /\ inst.op = "load"
    BY <1>9, <1>q DEF ExecLoad
  <2>2. PICK value \in Values, bad \in BOOLEAN :
          LET m == IF bad THEN BadAccess(Updated, CurrentInst.code, Updated.R)
                   ELSE Updated
              loaded == IF bad THEN 0 ELSE value
          IN  IF DelayedLoads
              THEN /\ cpu' = Finished(m)
                   /\ loads' = [ShiftedLoads EXCEPT ![1] = loaded]
                   /\ Return(TRUE)
              ELSE Complete([m EXCEPT !.R = loaded])
    BY <1>9 DEF ExecLoad
  <2> DEFINE m == IF bad THEN BadAccess(Updated, CurrentInst.code, Updated.R)
                  ELSE Updated
             loaded == IF bad THEN 0 ELSE value
  <2>3. m \in Machine /\ Sound(m) /\ loaded \in Values
    BY <1>0, <2>1, InstFields, BadAccessType, BadAccessSound, AddressAssumption
  <2>4. cpu' = Finished(m) \/ cpu' = Finished([m EXCEPT !.R = loaded])
    BY <2>2 DEF Complete
  <2> HIDE DEF m, loaded
  <2>5. [m EXCEPT !.R = loaded] \in Machine /\ Sound([m EXCEPT !.R = loaded])
    BY <2>3 DEF Machine, Sound
  <2>6. QED BY <2>3, <2>4, <2>5, FinishedSound
<1>10. CASE ExecStore
  <2>1. Sound(Updated) /\ inst.op = "store"
    BY <1>10, <1>q DEF ExecStore
  <2> DEFINE r == BadAccess(Updated, inst.code, Updated.R)
  <2>2. r \in Machine /\ Sound(r)
    BY <1>0, <2>1, InstFields, BadAccessType, BadAccessSound
  <2>3. Complete(r) \/ Complete(Updated)
    BY <1>10 DEF ExecStore
  <2> HIDE DEF r
  <2>4. QED BY <1>0, <2>1, <2>2, <2>3, CompleteSound
<1>11. CASE ExecMTC0
  <2>1. ~Updated.exc
    BY <1>11, <1>q DEF ExecMTC0
  <2>2. ASSUME NEW w \in StatusWrites,
               Complete([Updated EXCEPT !.ie = w.ie, !.exl = w.exl,
                             !.resume = IF w.exl /\ Updated.exl THEN @ ELSE NoAddr])
        PROVE  Sound(cpu')
    <3> DEFINE m == [Updated EXCEPT !.ie = w.ie, !.exl = w.exl,
                        !.resume = IF w.exl /\ Updated.exl THEN @ ELSE NoAddr]
    <3>1. w.ie \in BOOLEAN /\ w.exl \in BOOLEAN
      BY ConfigAssumption
    <3>2. m \in Machine /\ ~m.exc
      BY <1>0, <2>1, <3>1 DEF Machine
    <3> HIDE DEF m
    <3>3. QED BY <2>2, <3>2, CompleteQuiet DEF m
  <2>3. ASSUME NEW w \in CauseWrites,
               Complete([Updated EXCEPT !.bd = w.bd, !.ip = w.ip, !.code = w.code])
        PROVE  Sound(cpu')
    <3> DEFINE m == [Updated EXCEPT !.bd = w.bd, !.ip = w.ip, !.code = w.code]
    <3>1. w.bd \in BOOLEAN /\ w.ip \in SUBSET Levels /\ w.code \in ExcCodes
      BY ConfigAssumption
    <3>2. m \in Machine /\ ~m.exc
      BY <1>0, <2>1, <3>1 DEF Machine
    <3> HIDE DEF m
    <3>3. QED BY <2>3, <3>2, CompleteQuiet DEF m
  <2>4. CASE Complete([Updated EXCEPT !.epc = Updated.R, !.resume = NoAddr])
    <3>1. [Updated EXCEPT !.epc = Updated.R, !.resume = NoAddr] \in Machine
          /\ ~[Updated EXCEPT !.epc = Updated.R, !.resume = NoAddr].exc
      BY <1>0, <2>1 DEF Machine
    <3>2. QED BY <2>4, <3>1, CompleteQuiet
  <2>5. CASE Complete([Updated EXCEPT !.ip = @ \ {TimerLevel}])
    <3>1. [Updated EXCEPT !.ip = @ \ {TimerLevel}] \in Machine
          /\ ~[Updated EXCEPT !.ip = @ \ {TimerLevel}].exc
      BY <1>0, <2>1 DEF Machine
    <3>2. QED BY <2>5, <3>1, CompleteQuiet
  <2>6. QED BY <1>11, <2>2, <2>3, <2>4, <2>5 DEF ExecMTC0
<1>12. CASE ExecJ
  <2>1. ~Updated.exc /\ inst.target \in Address
    BY <1>0, <1>12, <1>q, InstFields DEF ExecJ
  <2>2. QED BY <1>0, <1>12, <2>1, JumpSound DEF ExecJ
<1>13. CASE ExecJR
  BY <1>0, <1>q, <1>13, JumpSound DEF ExecJR
<1>14. CASE ExecERET
  <2> DEFINE m == [Updated EXCEPT !.exl = FALSE, !.resume = NoAddr]
  <2>1. m \in Machine /\ ~m.exc
    BY <1>0, <1>q, <1>14 DEF Machine, ExecERET
  <2>2. JUMP_INST(m, Updated.epc)
    BY <1>14 DEF ExecERET
  <2> HIDE DEF m
  <2>3. QED BY <1>0, <2>1, <2>2, JumpSound
<1>15. CASE ExecBranch
  <2>1. ~Updated.exc /\ inst.target \in Address /\ Plus4(inst.target) \in Address
    BY <1>0, <1>15, <1>q, InstFields, AddressArithmetic DEF ExecBranch
  <2>2. [Updated EXCEPT !.pc = Plus4(@)] \in Machine
        /\ ~[Updated EXCEPT !.pc = Plus4(@)].exc
    BY <1>0, <2>1, AddressArithmetic DEF Machine
  <2>3. \/ JUMP_INST(Updated, inst.target)
        \/ JUMP_INST(Updated, Plus4(inst.target))
        \/ Complete([Updated EXCEPT !.pc = Plus4(@)])
        \/ Complete(Updated)
    BY <1>15 DEF ExecBranch
  <2>4. QED BY <1>0, <2>1, <2>2, <2>3, JumpSound, CompleteQuiet
<1>16. CASE LeaveDelaySlot
  <2> DEFINE m == [cpu EXCEPT !.slot = FALSE, !.pc = Minus4(frames[Len(frames)].target)]
  <2>1. frames[Len(frames)].target \in Address
    <3>1. frames[Len(frames)] \in Frame
      BY <1>16, PoppedType DEF LeaveDelaySlot, TypeOK
    <3>2. QED BY <3>1 DEF Frame
  <2>2. m \in Machine /\ Sound(m)
    BY <2>1, AddressArithmetic DEF TypeOK, Machine, Sound
  <2>3. cpu' = Finished(m)
    BY <1>16 DEF LeaveDelaySlot
  <2> HIDE DEF m
  <2>4. QED BY <2>2, <2>3, FinishedSound
<1>17. QED
  BY <1>1, <1>2, <1>3, <1>4, <1>5, <1>6, <1>7, <1>8, <1>9, <1>10, <1>11,
     <1>12, <1>13, <1>14, <1>15, <1>16 DEF run_spim

LEMMA EnvironmentSound ==
    ASSUME TypeOK, Sound(cpu), Environment
    PROVE  Sound(cpu')
<1>1. ASSUME NEW level \in Levels,
             RAISE_INTERRUPT(level) \/ CLEAR_INTERRUPT(level)
      PROVE  Sound(cpu')
  BY <1>1 DEF RAISE_INTERRUPT, CLEAR_INTERRUPT, Outside, TypeOK, Machine, Sound
<1>2. CASE EngineInterrupt
  BY <1>2, RaiseSound DEF EngineInterrupt, Outside, TypeOK, ExcCodes, ExcCode_Int
<1>3. ASSUME NEW addr \in DisplayAddrs, print_inst(addr)
      PROVE  Sound(cpu')
  <2> DEFINE m == [cpu EXCEPT !.exc = FALSE]
  <2>1. m \in Machine /\ Sound(m) /\ addr \in Address
    BY AddressAssumption DEF TypeOK, Machine, Sound
  <2>2. cpu' = m \/ cpu' = BadAccess(m, ExcCode_IBE, addr)
    BY <1>3 DEF print_inst, Outside
  <2> HIDE DEF m
  <2>3. QED BY <2>1, <2>2, BadAccessSound DEF ExcCodes, ExcCode_IBE
<1>4. QED BY <1>1, <1>2, <1>3 DEF Environment

LEMMA AlwaysSound == Spec => []Sound(cpu)
<1>1. Init => Sound(cpu)
  BY DEF Init, Sound
<1>2. TypeOK /\ Sound(cpu) /\ [Next]_vars => Sound(cpu)'
  <2>1. CASE UNCHANGED vars
    BY <2>1 DEF vars, Sound
  <2>2. QED BY <2>1, RunSpimSound, EnvironmentSound DEF Next
<1>3. QED BY <1>1, <1>2, TypeCorrect, PTL DEF Spec

(* Between the raise of an exception and the entry of its handler no         *)
(* interrupt can be accepted: the switch, the only place that clears EXL, is *)
(* not reached while exception_occurred is set, whatever the program.       *)
THEOREM PendingBlocks == Spec => []PendingBlocksInterrupts
<1>1. Sound(cpu) => PendingBlocksInterrupts
  BY DEF Sound, PendingBlocksInterrupts
<1>2. QED BY <1>1, AlwaysSound, PTL

(* A tournament controller's exceptions never reach the handler's early      *)
(* return with the flag set: only interrupts are raised at all.             *)
THEOREM TournamentRaises == Spec => []TournamentOnlyInterrupts
<1>1. Sound(cpu) => TournamentOnlyInterrupts
  BY DEF Sound, TournamentOnlyInterrupts
<1>2. QED BY <1>1, AlwaysSound, PTL

-----------------------------------------------------------------------------
(* What exceptions do to EPC and to Cause's BD bit, for every program.     *)
(*                                                                         *)
(* Both results need to know what a nested run_spim can execute.  It is    *)
(* called with PC still at the jump, so it fetches the jump: nothing that  *)
(* raises ever runs while running_in_delay_slot is set.                    *)


Jumps == {"j", "jr", "eret", "branch"}

(* A nested run_spim executes a jump, with no exception pending, and the   *)
(* engine never sees running_in_delay_slot set.                            *)
NestedIsJump ==
    /\ cpu.slot => phase # "idle"
    /\ phase # "idle" => ~cpu.exc
    /\ phase = "fetch" => cpu.pc \in TextAddrs /\ text[cpu.pc].op \in Jumps

(* No bit of Cause makes Cause >> 2 exceed LAST_REAL_EXCEPT, and EPC is the *)
(* address the outermost exception interrupted.                            *)
Quiet(m) ==
    /\ m.ip = {}
    /\ ~m.bd
    /\ m.code <= LastRealExcept
    /\ m.resume # NoAddr => m.exl /\ m.epc = m.resume

(* No device raises a level and software writes no large code into Cause.  *)
NoCauseBits ==
    /\ Levels = {}
    /\ \A w \in CauseWrites : ~w.bd /\ w.code <= LastRealExcept

(* The machine n that code outside a delay slot may turn machine m into.   *)
Keeps(m, n) ==
    /\ n \in Machine
    /\ ~n.slot
    /\ n.bd = m.bd
    /\ Quiet(m) => Quiet(n)

RaisedCodes ==
    {ExcCode_Int, ExcCode_AdEL, ExcCode_AdES, ExcCode_IBE, ExcCode_DBE, ExcCode_Bp,
     ExcCode_RI, ExcCode_CpU, ExcCode_Ov, ExcCode_Tr, ExcCode_FPE}

LEMMA RaisedCodesSmall ==
    \A c \in RaisedCodes : c \in ExcCodes /\ c <= LastRealExcept
BY DEF RaisedCodes, ExcCodes, LastRealExcept, ExcCode_Int, ExcCode_AdEL,
       ExcCode_AdES, ExcCode_IBE, ExcCode_DBE, ExcCode_Bp, ExcCode_RI,
       ExcCode_CpU, ExcCode_Ov, ExcCode_Tr, ExcCode_FPE

LEMMA InstCodes ==
    ASSUME NEW i \in Inst
    PROVE  i.op \in {"trap", "illegal", "load", "store"} => i.code \in RaisedCodes
BY DEF Inst, RaisedCodes

LEMMA RaiseKeeps ==
    ASSUME NEW m \in Machine, ~m.slot, NEW c \in RaisedCodes
    PROVE  Keeps(m, RAISE_EXCEPTION(m, c))
<1>1. c \in ExcCodes /\ c <= LastRealExcept
  BY RaisedCodesSmall
<1>2. RAISE_EXCEPTION(m, c) \in Machine
  BY <1>1, RaiseType
<1>3. CASE ~Raises(m, c) \/ (c = ExcCode_Int /\ (~m.ie \/ m.exl))
  BY <1>2, <1>3 DEF Keeps, Quiet, RAISE_EXCEPTION, raise_exception, Machine
<1>4. CASE Raises(m, c) /\ ~(c = ExcCode_Int /\ (~m.ie \/ m.exl))
  <2> DEFINE n == RAISE_EXCEPTION(m, c)
  <2>1. /\ n.slot = m.slot /\ n.bd = m.bd /\ n.ip = m.ip /\ n.code = c /\ n.exl
        /\ n.epc = IF m.exl THEN m.epc ELSE FaultAddress(m)
        /\ n.resume = IF m.exl THEN m.resume ELSE FaultAddress(m)
    BY <1>4 DEF RAISE_EXCEPTION, raise_exception, Machine
  <2> HIDE DEF n
  <2>2. Quiet(m) => Quiet(n)
    BY <1>1, <2>1 DEF Quiet
  <2>3. QED BY <1>2, <2>1, <2>2 DEF Keeps, n
<1>5. QED BY <1>3, <1>4

LEMMA BadAccessKeeps ==
    ASSUME NEW m \in Machine, ~m.slot, NEW c \in RaisedCodes, NEW a \in Address
    PROVE  Keeps(m, BadAccess(m, c, a))
<1> DEFINE r == RAISE_EXCEPTION(m, c)
<1>1. Keeps(m, r)
  BY RaiseKeeps
<1> HIDE DEF r
<1>2. Keeps(m, [r EXCEPT !.bad = IF Raises(m, c) THEN a ELSE @])
  BY <1>1 DEF Keeps, Quiet, Machine
<1>3. QED BY <1>2 DEF BadAccess, r

LEMMA HandleKeeps ==
    ASSUME NEW m \in Machine, ~m.slot
    PROVE  Keeps(m, handle_exception(m))
<1>1. handle_exception(m) \in Machine
  BY HandleType
<1>2. QED BY <1>1 DEF handle_exception, Keeps, Quiet, Machine

LEMMA FinishedKeeps ==
    ASSUME NEW m \in Machine, ~m.slot
    PROVE  Keeps(m, Finished(m))
<1> DEFINE next == [m EXCEPT !.pc = Plus4(@)]
           last == IF CauseAboveReal(next)
                   THEN [next EXCEPT !.epc = Minus4(next.pc)]
                   ELSE next
<1>1. Keeps(m, next)
  BY AddressArithmetic DEF Keeps, Quiet, Machine
<1> HIDE DEF next
<1>2. Keeps(next, last)
  <2>1. CASE CauseAboveReal(next)
    <3>1. next \in Machine /\ next.pc \in Address /\ next.code \in Int
      BY <1>1 DEF Keeps, Machine, ExcCodes
    <3>2. ~Quiet(next)
      BY <2>1, <3>1 DEF CauseAboveReal, Quiet, LastRealExcept
    <3>3. [next EXCEPT !.epc = Minus4(next.pc)] \in Machine
      BY <3>1, AddressArithmetic DEF Machine
    <3>4. QED BY <1>1, <2>1, <3>2, <3>3 DEF Keeps, Machine
  <2>2. CASE ~CauseAboveReal(next)
    BY <1>1, <2>2 DEF Keeps
  <2>3. QED BY <2>1, <2>2
<1> HIDE DEF last
<1>3. Keeps(last, handle_exception(last))
  BY <1>2, HandleKeeps DEF Keeps
<1>4. Finished(m) = next \/ Finished(m) = handle_exception(last)
  BY DEF Finished, next, last
<1>5. QED BY <1>1, <1>2, <1>3, <1>4 DEF Keeps

(* Fetching, and the pending load that DO_DELAYED_UPDATE writes.            *)
LEMMA UpdatedKeeps ==
    ASSUME TypeOK, ~cpu.slot
    PROVE  Keeps(cpu, Fetched(cpu.pc)) /\ Keeps(cpu, Updated)
<1>1. cpu \in Machine /\ cpu.pc \in Address
  BY DEF TypeOK, Machine
<1>2. Keeps(cpu, Fetched(cpu.pc))
  <2>1. Keeps(cpu, cpu)
    BY <1>1 DEF Keeps
  <2>2. ExcCode_IBE \in RaisedCodes
    BY DEF RaisedCodes
  <2>3. QED BY <1>1, <2>1, <2>2, BadAccessKeeps DEF Fetched
<1>3. Updated \in Machine
  BY UpdatedType
<1>4. QED BY <1>2, <1>3 DEF Updated, Keeps, Quiet, Machine

LEMMA CompleteKeeps ==
    ASSUME NEW m \in Machine, Keeps(cpu, m), Complete(m)
    PROVE  Keeps(cpu, cpu')
<1>1. Keeps(m, Finished(m))
  BY FinishedKeeps DEF Keeps
<1>2. QED BY <1>1 DEF Complete, Keeps

(* At the engine's turn nothing is in a delay slot; a nested call is at a   *)
(* jump, and reaches no action but the four jumps.                         *)
LEMMA OnlyJumpsNested ==
    ASSUME TypeOK, NestedIsJump, NEW op, Executing(op)
    PROVE  /\ op \notin Jumps => phase = "idle" /\ ~cpu.slot
           /\ op \in Jumps =>
                 /\ cpu.pc \in TextAddrs /\ text[cpu.pc].op = op
                 /\ ~cpu.exc
                 /\ Fetched(cpu.pc) = cpu
<1>1. CASE cpu.pc \in TextAddrs
  BY <1>1 DEF NestedIsJump, Executing, Calling, CurrentInst, Fetched
<1>2. CASE cpu.pc \notin TextAddrs
  BY <1>2 DEF NestedIsJump, Executing, Calling, CurrentInst, Nop, Jumps
<1>3. QED BY <1>1, <1>2

(* What one step of run_spim does, for the three invariants at once.        *)
StepOK ==
    /\ NestedIsJump'
    /\ NoCauseBits /\ Quiet(cpu) => Quiet(cpu')

LEMMA IdleStep ==
    ASSUME TypeOK, NestedIsJump, phase = "idle", Keeps(cpu, cpu'),
           NEW value, Return(value)
    PROVE  StepOK
BY DEF StepOK, NestedIsJump, Keeps, Return

(* The jumps: m is the machine JUMP_INST starts from.                       *)
LEMMA JumpStep ==
    ASSUME TypeOK, NestedIsJump, NEW op \in Jumps, Executing(op),
           NEW m \in Machine, NEW target \in Address, JUMP_INST(m, target),
           m.pc = cpu.pc, m.bd = cpu.bd, ~m.exc, m.slot = cpu.slot,
           Quiet(cpu) => Quiet(m)
    PROVE  StepOK
<1>1. CASE DelayedBranches
  <2>1. cpu' = [m EXCEPT !.slot = TRUE] /\ phase' \in {"fetch", "overflow"}
        /\ text' = text
    BY <1>1 DEF JUMP_INST, Executing
  <2>2. cpu.pc \in TextAddrs /\ text[cpu.pc].op \in Jumps
    BY OnlyJumpsNested
  <2>3. /\ cpu'.bd = cpu.bd /\ ~cpu'.exc /\ cpu'.pc = cpu.pc
        /\ Quiet(m) => Quiet(cpu')
    BY <2>1 DEF Machine, Quiet
  <2>4. NestedIsJump'
    BY <2>1, <2>2, <2>3 DEF NestedIsJump
  <2>5. QED BY <2>3, <2>4 DEF StepOK
<1>2. CASE ~DelayedBranches
  <2> DEFINE n == [m EXCEPT !.pc = Minus4(target)]
  <2>1. n \in Machine /\ ~n.exc /\ n.bd = cpu.bd /\ n.slot = cpu.slot
        /\ (Quiet(cpu) => Quiet(n))
    BY AddressArithmetic DEF Machine, Quiet
  <2>2. cpu' = Finished(n) /\ Return(TRUE) /\ text' = text
    BY <1>2 DEF JUMP_INST, Complete, Executing
  <2> HIDE DEF n
  <2>3. Finished(n) = [n EXCEPT !.pc = Plus4(@)]
    BY <2>1 DEF Finished, Machine
  <2>4. /\ cpu'.bd = cpu.bd /\ ~cpu'.exc /\ cpu'.slot = cpu.slot
        /\ Quiet(n) => Quiet(cpu')
    BY <2>1, <2>2, <2>3 DEF Machine, Quiet
  <2>5. NestedIsJump'
    BY <2>2, <2>4 DEF NestedIsJump, Return, Executing, Calling
  <2>6. QED BY <2>1, <2>4, <2>5 DEF StepOK
<1>3. QED BY <1>1, <1>2

(* A case of the switch that ends in break with machine m, or that writes   *)
(* m and returns, outside delay slots.                                     *)
LEMMA CompleteStep ==
    ASSUME TypeOK, NestedIsJump, NEW op, op \notin Jumps, Executing(op),
           NEW m, Keeps(cpu, m),
           \/ Complete(m)
           \/ (cpu' = m \/ cpu' = Finished(m)) /\ \E value \in BOOLEAN : Return(value)
    PROVE  StepOK
<1>1. phase = "idle"
  BY OnlyJumpsNested
<1>2. m \in Machine /\ ~m.slot
  BY DEF Keeps
<1>3. Keeps(m, Finished(m))
  BY <1>2, FinishedKeeps
<1>4. Keeps(cpu, cpu')
  BY <1>2, <1>3 DEF Complete, Keeps
<1>5. QED BY <1>1, <1>4, IdleStep DEF Complete

LEMMA RunSpimStep ==
    ASSUME TypeOK, NestedIsJump, run_spim
    PROVE  StepOK
<1> DEFINE inst == CurrentInst
<1>0. /\ Updated \in Machine
      /\ Updated.R \in Address
      /\ Updated.epc \in Address
      /\ inst \in Inst
      /\ inst.op \in {"trap", "illegal", "load", "store"} => inst.code \in RaisedCodes
  BY UpdatedType, CurrentInstType, InstCodes, AddressAssumption DEF Machine
<1>q. ASSUME NEW op, op \notin Jumps, Executing(op)
      PROVE  Keeps(cpu, Updated) /\ ~Updated.slot /\ inst.op = op
  BY <1>q, OnlyJumpsNested, UpdatedKeeps DEF Keeps, Executing
<1>k. ASSUME NEW m, NEW n, Keeps(cpu, m), Keeps(m, n)
      PROVE  Keeps(cpu, n)
  BY <1>k DEF Keeps
<1>j. ASSUME NEW op \in Jumps, Executing(op)
      PROVE  /\ Updated.pc = cpu.pc /\ Updated.bd = cpu.bd /\ ~Updated.exc
             /\ Updated.slot = cpu.slot
             /\ Quiet(cpu) => Quiet(Updated)
             /\ inst.op = op
  <2>1. Fetched(cpu.pc) = cpu /\ ~cpu.exc
    BY <1>j, OnlyJumpsNested
  <2>2. QED BY <1>j, <2>1 DEF Updated, Quiet, TypeOK, Machine, Executing
<1>1. CASE TakeAtFetch
  <2>1. phase = "idle" /\ ~cpu.slot
    <3>1. CASE phase = "fetch"
      BY <1>1, <3>1 DEF NestedIsJump, TakeAtFetch, Fetched
    <3>2. QED BY <1>1, <3>1 DEF NestedIsJump, TakeAtFetch, Calling
  <2> DEFINE m == [Fetched(cpu.pc) EXCEPT !.exc = FALSE]
  <2>2. Keeps(cpu, m)
    BY <2>1, UpdatedKeeps DEF Keeps, Quiet, Machine
  <2>3. cpu' = handle_exception(m) /\ Return(TRUE)
    BY <1>1 DEF TakeAtFetch
  <2> HIDE DEF m
  <2>4. Keeps(cpu, cpu')
    BY <1>k, <2>2, <2>3, HandleKeeps DEF Keeps
  <2>5. QED BY <2>1, <2>3, <2>4, IdleStep
<1>2. CASE CannotExecute
  <2>1. phase = "idle" /\ ~cpu.slot
    <3>1. CASE phase = "fetch"
      BY <1>2, <3>1 DEF NestedIsJump, CannotExecute, CurrentInst, Jumps
    <3>2. QED BY <1>2, <3>1 DEF NestedIsJump, CannotExecute, Calling
  <2>2. QED BY <1>2, <2>1, UpdatedKeeps, IdleStep DEF CannotExecute
<1>3. CASE ExecNop
  BY <1>q, <1>3, CompleteStep DEF ExecNop, Jumps
<1>4. CASE ExecAdd
  <2>1. Executing("add") /\ "add" \notin Jumps
    BY <1>4 DEF ExecAdd, Jumps
  <2>2. PICK result \in Values, overflow \in BOOLEAN :
          LET m == IF overflow THEN RAISE_EXCEPTION(Updated, ExcCode_Ov) ELSE Updated
          IN  Complete(IF overflow /\ Raises(Updated, ExcCode_Ov)
                       THEN m ELSE [m EXCEPT !.R = result])
    BY <1>4 DEF ExecAdd
  <2> DEFINE r == RAISE_EXCEPTION(Updated, ExcCode_Ov)
             m == IF overflow THEN r ELSE Updated
             n == IF overflow /\ Raises(Updated, ExcCode_Ov) THEN m ELSE [m EXCEPT !.R = result]
  <2>3. Keeps(cpu, r)
    <3>1. Keeps(Updated, r)
      BY <1>0, <1>q, <2>1, RaiseKeeps DEF RaisedCodes
    <3>2. QED BY <1>k, <1>q, <2>1, <3>1
  <2>4. Complete(n)
    BY <2>2
  <2> HIDE DEF r
  <2>5. Keeps(cpu, m)
    BY <1>q, <2>1, <2>3
  <2> HIDE DEF m
  <2>6. Keeps(cpu, n)
    BY <2>5 DEF Keeps, Quiet, Machine
  <2> HIDE DEF n
  <2>7. QED BY <2>1, <2>4, <2>6, CompleteStep
<1>5. CASE ExecTrap
  <2>1. Executing("trap") /\ "trap" \notin Jumps
    BY <1>5 DEF ExecTrap, Jumps
  <2> DEFINE r == RAISE_EXCEPTION(Updated, inst.code)
  <2>2. Keeps(Updated, r)
    BY <1>0, <1>q, <2>1, RaiseKeeps
  <2>3. Complete(r) \/ Complete(Updated)
    BY <1>5 DEF ExecTrap
  <2> HIDE DEF r
  <2>4. QED BY <1>k, <1>q, <2>1, <2>2, <2>3, CompleteStep
<1>6. CASE ExecIllegal
  <2>1. Executing("illegal") /\ "illegal" \notin Jumps
    BY <1>6 DEF ExecIllegal, Jumps
  <2> DEFINE r == RAISE_EXCEPTION(Updated, inst.code)
  <2>2. Keeps(Updated, r)
    BY <1>0, <1>q, <2>1, RaiseKeeps
  <2>3. Complete(r)
    BY <1>6 DEF ExecIllegal
  <2> HIDE DEF r
  <2>4. QED BY <1>k, <1>q, <2>1, <2>2, <2>3, CompleteStep
<1>7. CASE ExecBreak
  <2>1. Executing("break") /\ "break" \notin Jumps
    BY <1>7 DEF ExecBreak, Jumps
  <2> DEFINE r == RAISE_EXCEPTION(Updated, ExcCode_Bp)
  <2>2. Keeps(Updated, r)
    BY <1>0, <1>q, <2>1, RaiseKeeps DEF RaisedCodes
  <2>3. Complete(r) \/ (cpu' = r /\ Return(TRUE))
    BY <1>7 DEF ExecBreak
  <2> HIDE DEF r
  <2>4. QED BY <1>k, <1>q, <2>1, <2>2, <2>3, CompleteStep
<1>8. CASE ExecSyscall
  <2>1. Executing("syscall") /\ "syscall" \notin Jumps
    BY <1>8 DEF ExecSyscall, Jumps
  <2>2. ASSUME NEW result \in Values, Complete([Updated EXCEPT !.R = result])
        PROVE  StepOK
    <3>1. Keeps(cpu, [Updated EXCEPT !.R = result])
      BY <1>q, <2>1 DEF Keeps, Quiet, Machine
    <3>2. QED BY <2>1, <2>2, <3>1, CompleteStep
  <2>3. \/ Complete(Updated)
        \/ cpu' = Updated /\ Return(FALSE)
        \/ \E result \in Values : Complete([Updated EXCEPT !.R = result])
    BY <1>8 DEF ExecSyscall
  <2>4. QED BY <1>q, <2>1, <2>2, <2>3, CompleteStep
<1>9. CASE ExecLoad
  <2>1. Executing("load") /\ "load" \notin Jumps
    BY <1>9 DEF ExecLoad, Jumps
  <2>2. PICK value \in Values, bad \in BOOLEAN :
          LET m == IF bad THEN BadAccess(Updated, CurrentInst.code, Updated.R)
                   ELSE Updated
              loaded == IF bad THEN 0 ELSE value
          IN  IF DelayedLoads
              THEN /\ cpu' = Finished(m)
                   /\ loads' = [ShiftedLoads EXCEPT ![1] = loaded]
                   /\ Return(TRUE)
              ELSE Complete([m EXCEPT !.R = loaded])
    BY <1>9 DEF ExecLoad
  <2> DEFINE r == BadAccess(Updated, CurrentInst.code, Updated.R)
             m == IF bad THEN r ELSE Updated
             loaded == IF bad THEN 0 ELSE value
             n == [m EXCEPT !.R = loaded]
  <2>3. Keeps(cpu, r)
    <3>1. Keeps(Updated, r)
      BY <1>0, <1>q, <2>1, BadAccessKeeps
    <3>2. QED BY <1>k, <1>q, <2>1, <3>1
  <2>4. loaded \in Values
    BY AddressAssumption
  <2>5. (cpu' = Finished(m) /\ Return(TRUE)) \/ Complete(n)
    BY <2>2
  <2> HIDE DEF r
  <2>6. Keeps(cpu, m)
    BY <1>q, <2>1, <2>3
  <2> HIDE DEF m, loaded
  <2>7. Keeps(cpu, n)
    BY <2>4, <2>6 DEF Keeps, Quiet, Machine
  <2> HIDE DEF n
  <2>8. QED BY <2>1, <2>5, <2>6, <2>7, CompleteStep
<1>10. CASE ExecStore
  <2>1. Executing("store") /\ "store" \notin Jumps
    BY <1>10 DEF ExecStore, Jumps
  <2> DEFINE r == BadAccess(Updated, inst.code, Updated.R)
  <2>2. Keeps(Updated, r)
    BY <1>0, <1>q, <2>1, BadAccessKeeps
  <2>3. Complete(r) \/ Complete(Updated)
    BY <1>10 DEF ExecStore
  <2> HIDE DEF r
  <2>4. QED BY <1>k, <1>q, <2>1, <2>2, <2>3, CompleteStep
<1>11. CASE ExecMTC0
  <2>1. Executing("mtc0") /\ "mtc0" \notin Jumps
    BY <1>11 DEF ExecMTC0, Jumps
  <2>2. phase = "idle" /\ Keeps(cpu, Updated)
    BY <1>q, <2>1, OnlyJumpsNested
  <2>3. PICK m \in Machine : /\ Complete(m) /\ ~m.slot
                             /\ NoCauseBits /\ Quiet(Updated) => Quiet(m)
    <3>1. ASSUME NEW w \in StatusWrites
          PROVE  LET m == [Updated EXCEPT !.ie = w.ie, !.exl = w.exl,
                              !.resume = IF w.exl /\ Updated.exl THEN @ ELSE NoAddr]
                 IN  m \in Machine /\ ~m.slot /\ (Quiet(Updated) => Quiet(m))
      <4>1. w.ie \in BOOLEAN /\ w.exl \in BOOLEAN
        BY ConfigAssumption
      <4>2. QED BY <1>0, <1>q, <2>1, <4>1 DEF Machine, Quiet
    <3>2. ASSUME NEW w \in CauseWrites
          PROVE  LET m == [Updated EXCEPT !.bd = w.bd, !.ip = w.ip, !.code = w.code]
                 IN  m \in Machine /\ ~m.slot
                     /\ (NoCauseBits /\ Quiet(Updated) => Quiet(m))
      <4>1. w.bd \in BOOLEAN /\ w.ip \in SUBSET Levels /\ w.code \in ExcCodes
        BY ConfigAssumption
      <4>2. QED BY <1>0, <1>q, <2>1, <4>1 DEF Machine, Quiet, NoCauseBits
    <3>3. LET m == [Updated EXCEPT !.epc = Updated.R, !.resume = NoAddr]
          IN  m \in Machine /\ ~m.slot /\ (Quiet(Updated) => Quiet(m))
      BY <1>0, <1>q, <2>1 DEF Machine, Quiet
    <3>4. LET m == [Updated EXCEPT !.ip = @ \ {TimerLevel}]
          IN  m \in Machine /\ ~m.slot /\ (Quiet(Updated) => Quiet(m))
      BY <1>0, <1>q, <2>1 DEF Machine, Quiet
    <3>5. QED BY <1>11, <3>1, <3>2, <3>3, <3>4 DEF ExecMTC0
  <2>4. Keeps(m, cpu') /\ Return(TRUE)
    BY <2>3, FinishedKeeps DEF Complete
  <2>5. NestedIsJump'
    BY <2>2, <2>4 DEF NestedIsJump, Return, Keeps
  <2>6. QED BY <1>11, <2>2, <2>3, <2>4, <2>5 DEF StepOK, Keeps
<1>12. CASE ExecJ
  <2>1. Executing("j") /\ JUMP_INST(Updated, inst.target) /\ "j" \in Jumps
    BY <1>12 DEF ExecJ, Jumps
  <2>2. inst.target \in Address
    BY <1>0, <1>j, <2>1, InstFields
  <2>3. QED BY <1>0, <1>j, <2>1, <2>2, JumpStep
<1>13. CASE ExecJR
  <2>1. Executing("jr") /\ JUMP_INST(Updated, Updated.R) /\ "jr" \in Jumps
    BY <1>13 DEF ExecJR, Jumps
  <2>2. QED BY <1>0, <1>j, <2>1, JumpStep
<1>14. CASE ExecERET
  <2> DEFINE m == [Updated EXCEPT !.exl = FALSE, !.resume = NoAddr]
  <2>1. Executing("eret") /\ JUMP_INST(m, Updated.epc) /\ "eret" \in Jumps
    BY <1>14 DEF ExecERET, Jumps
  <2>2. /\ m \in Machine /\ m.pc = cpu.pc /\ m.bd = cpu.bd /\ ~m.exc
        /\ m.slot = cpu.slot
        /\ Quiet(cpu) => Quiet(m)
    BY <1>0, <1>j, <2>1 DEF Machine, Quiet
  <2> HIDE DEF m
  <2>3. QED BY <1>0, <2>1, <2>2, JumpStep
<1>15. CASE ExecBranch
  <2>1. Executing("branch") /\ "branch" \in Jumps
    BY <1>15 DEF ExecBranch, Jumps
  <2>2. inst.target \in Address /\ Plus4(inst.target) \in Address
    BY <1>0, <1>j, <2>1, InstFields, AddressArithmetic
  <2>3. CASE Updated.R # 0
    <3>1. PICK target \in Address : JUMP_INST(Updated, target)
      BY <1>15, <2>2, <2>3 DEF ExecBranch
    <3>2. QED BY <1>0, <1>j, <2>1, <3>1, JumpStep
  <2>4. CASE Updated.R = 0
    <3> DEFINE m == [Updated EXCEPT !.pc = Plus4(@)]
    <3>1. /\ m \in Machine /\ ~m.exc /\ m.slot = cpu.slot /\ m.bd = cpu.bd
          /\ Quiet(cpu) => Quiet(m)
      BY <1>0, <1>j, <2>1, AddressArithmetic DEF Machine, Quiet
    <3>2. Complete(m) \/ Complete(Updated)
      BY <1>15, <2>4 DEF ExecBranch
    <3> HIDE DEF m
    <3>3. PICK n \in Machine : /\ ~n.exc /\ n.slot = cpu.slot /\ n.bd = cpu.bd
                               /\ Quiet(cpu) => Quiet(n)
                               /\ Complete(n)
      BY <1>0, <1>j, <2>1, <3>1, <3>2
    <3>4. cpu' = [n EXCEPT !.pc = Plus4(@)] /\ Return(TRUE)
      BY <3>3 DEF Complete, Finished, Machine
    <3>5. /\ cpu'.bd = cpu.bd /\ ~cpu'.exc /\ cpu'.slot = cpu.slot
          /\ Quiet(cpu) => Quiet(cpu')
      BY <3>3, <3>4 DEF Machine, Quiet
    <3>6. NestedIsJump'
      BY <2>1, <3>4, <3>5 DEF NestedIsJump, Return, Executing, Calling
    <3>7. QED BY <3>5, <3>6 DEF StepOK
  <2>5. QED BY <2>3, <2>4
<1>16. CASE LeaveDelaySlot
  <2> DEFINE m == [cpu EXCEPT !.slot = FALSE, !.pc = Minus4(frames[Len(frames)].target)]
  <2>1. frames[Len(frames)].target \in Address
    <3>1. frames[Len(frames)] \in Frame
      BY <1>16, PoppedType DEF LeaveDelaySlot, TypeOK
    <3>2. QED BY <3>1 DEF Frame
  <2>2. /\ m \in Machine /\ ~m.slot /\ ~m.exc /\ m.bd = cpu.bd
        /\ Quiet(cpu) => Quiet(m)
    BY <1>16, <2>1, AddressArithmetic
    DEF LeaveDelaySlot, NestedIsJump, TypeOK, Machine, Quiet
  <2>3. cpu' = Finished(m) /\ phase' \in {"idle", "unwind"}
    BY <1>16 DEF LeaveDelaySlot
  <2> HIDE DEF m
  <2>4. cpu' = [m EXCEPT !.pc = Plus4(@)]
    BY <2>2, <2>3 DEF Finished, Machine
  <2>5. /\ cpu'.bd = cpu.bd /\ ~cpu'.exc /\ ~cpu'.slot
        /\ Quiet(cpu) => Quiet(cpu')
    BY <2>2, <2>4 DEF Machine, Quiet
  <2>6. QED BY <2>3, <2>5 DEF StepOK, NestedIsJump
<1>17. QED
  BY <1>1, <1>2, <1>3, <1>4, <1>5, <1>6, <1>7, <1>8, <1>9, <1>10, <1>11,
     <1>12, <1>13, <1>14, <1>15, <1>16 DEF run_spim

(* Between two calls running_in_delay_slot is clear, so an interrupt does    *)
(* not set BD.                                                             *)
LEMMA EnvironmentStep ==
    ASSUME TypeOK, NestedIsJump, Environment
    PROVE  /\ NestedIsJump'
           /\ NoCauseBits /\ Quiet(cpu) => Quiet(cpu')
<1>1. phase = "idle" /\ phase' = "idle" /\ ~cpu.slot /\ cpu \in Machine
  BY DEF Environment, RAISE_INTERRUPT, CLEAR_INTERRUPT, EngineInterrupt,
         print_inst, Outside, NestedIsJump, TypeOK
<1>2. ASSUME Keeps(cpu, cpu')
      PROVE  /\ NestedIsJump'
             /\ NoCauseBits /\ Quiet(cpu) => Quiet(cpu')
  BY <1>1, <1>2 DEF Keeps, NestedIsJump
<1>3. ASSUME NEW level \in Levels,
             RAISE_INTERRUPT(level) \/ CLEAR_INTERRUPT(level)
      PROVE  /\ NestedIsJump'
             /\ NoCauseBits /\ Quiet(cpu) => Quiet(cpu')
  BY <1>1, <1>3
  DEF RAISE_INTERRUPT, CLEAR_INTERRUPT, Outside, NestedIsJump, NoCauseBits, Machine
<1>4. CASE EngineInterrupt
  <2>1. Keeps(cpu, RAISE_EXCEPTION(cpu, ExcCode_Int))
    BY <1>1, RaiseKeeps DEF RaisedCodes
  <2>2. QED BY <1>2, <1>4, <2>1 DEF EngineInterrupt, Outside
<1>5. ASSUME NEW addr \in DisplayAddrs, print_inst(addr)
      PROVE  Keeps(cpu, cpu')
  <2> DEFINE m == [cpu EXCEPT !.exc = FALSE]
             n == BadAccess(m, ExcCode_IBE, addr)
  <2>1. Keeps(cpu, m) /\ addr \in Address
    BY <1>1, AddressAssumption DEF Keeps, Quiet, Machine
  <2>2. cpu' = m \/ cpu' = n
    BY <1>5 DEF print_inst, Outside
  <2>3. Keeps(m, n)
    <3> HIDE DEF m
    <3>1. QED BY <2>1, BadAccessKeeps DEF RaisedCodes, Keeps
  <2> HIDE DEF m, n
  <2>4. QED BY <2>1, <2>2, <2>3 DEF Keeps
<1>6. QED BY <1>2, <1>3, <1>4, <1>5 DEF Environment

LEMMA NestedAlwaysJump == Spec => []NestedIsJump
<1>1. Init => NestedIsJump
  BY DEF Init, NestedIsJump
<1>2. TypeOK /\ NestedIsJump /\ [Next]_vars => NestedIsJump'
  <2>1. CASE UNCHANGED vars
    BY <2>1 DEF vars, NestedIsJump
  <2>2. QED BY <2>1, RunSpimStep, EnvironmentStep DEF Next, StepOK
<1>3. QED BY <1>1, <1>2, TypeCorrect, PTL DEF Spec

(* EPC names the instruction to return to through any nesting of exceptions, *)
(* on a machine whose Cause never has BD, an IP bit or code 31 on.  The      *)
(* assumption is needed: with one pending interrupt level the tail of       *)
(* run_spim overwrites EPC although EXL is set.                            *)
THEOREM ResumeAddressTheorem ==
    ASSUME NoCauseBits
    PROVE  Spec => []ResumeAddressKept
<1>1. Init => Quiet(cpu)
  BY DEF Init, Quiet, LastRealExcept
<1>2. TypeOK /\ NestedIsJump /\ Quiet(cpu) /\ [Next]_vars => Quiet(cpu)'
  <2>1. CASE UNCHANGED vars
    BY <2>1 DEF vars, Quiet
  <2>2. QED BY <2>1, RunSpimStep, EnvironmentStep DEF Next, StepOK
<1>3. Quiet(cpu) => ResumeAddressKept
  BY DEF Quiet, ResumeAddressKept
<1>4. QED
  BY <1>1, <1>2, <1>3, TypeCorrect, NestedAlwaysJump, PTL DEF Spec

(* A raised exception is dropped only by the debugger printing an           *)
(* instruction: every other step that clears exception_occurred is the next *)
(* call of run_spim entering the handler, in a tournament too.              *)
THEOREM DroppedTheorem == Spec => DroppedOnlyByPrinting
<1> DEFINE Delivered ==
             cpu.exc /\ ~cpu'.exc =>
                \/ cpu'.pc = ExceptionAddr
                \/ \E addr \in DisplayAddrs : print_inst(addr)
<1>1. TypeOK /\ Sound(cpu) /\ NestedIsJump /\ [Next]_vars => [Delivered]_vars
  <2> SUFFICES ASSUME TypeOK, Sound(cpu), NestedIsJump, Next, cpu.exc, ~cpu'.exc
               PROVE  \/ cpu'.pc = ExceptionAddr
                      \/ \E addr \in DisplayAddrs : print_inst(addr)
    OBVIOUS
  <2>1. CASE run_spim
    <3> DEFINE fetched == Fetched(cpu.pc)
    <3>1. phase = "idle" /\ cpu \in Machine /\ cpu.pc \in Address
      BY DEF NestedIsJump, TypeOK, Machine
    <3>2. fetched \in Machine /\ Sound(fetched) /\ fetched.exc
      <4>1. CASE cpu.pc \in TextAddrs
        BY <3>1, <4>1 DEF Fetched
      <4>2. CASE cpu.pc \notin TextAddrs
        <5>1. fetched = BadAccess(cpu, ExcCode_IBE, cpu.pc)
          BY <4>2 DEF Fetched
        <5>2. ExcCode_IBE \in ExcCodes
          BY DEF ExcCodes, ExcCode_IBE
        <5>3. BadAccess(cpu, ExcCode_IBE, cpu.pc).exc
          BY <3>1 DEF BadAccess, RAISE_EXCEPTION, raise_exception, Machine
        <5>4. QED BY <3>1, <5>1, <5>2, <5>3, BadAccessType, BadAccessSound
      <4>3. QED BY <4>1, <4>2
    <3> HIDE DEF fetched
    <3>3. TakeAtFetch
      BY <2>1, <3>1, <3>2
      DEF run_spim, CannotExecute, ExecNop, ExecAdd, ExecTrap, ExecIllegal,
          ExecBreak, ExecSyscall, ExecLoad, ExecStore, ExecMTC0, ExecJ, ExecJR,
          ExecERET, ExecBranch, LeaveDelaySlot, Executing, fetched
    <3>4. cpu' = handle_exception([fetched EXCEPT !.exc = FALSE])
      BY <3>3 DEF TakeAtFetch, fetched
    <3>5. cpu'.pc = ExceptionAddr
      BY <3>2, <3>4 DEF handle_exception, Sound, Machine
    <3>6. QED BY <3>5
  <2>2. CASE Environment
    <3>1. cpu \in Machine
      BY DEF TypeOK
    <3>2. RAISE_EXCEPTION(cpu, ExcCode_Int).exc
      BY <3>1 DEF RAISE_EXCEPTION, raise_exception, Machine
    <3>3. ASSUME NEW level \in Levels
          PROVE  ~RAISE_INTERRUPT(level) /\ ~CLEAR_INTERRUPT(level)
      BY <3>1 DEF RAISE_INTERRUPT, CLEAR_INTERRUPT, Outside, Machine
    <3>4. ~EngineInterrupt
      BY <3>2 DEF EngineInterrupt, Outside
    <3>5. QED BY <2>2, <3>3, <3>4 DEF Environment
  <2>3. QED BY <2>1, <2>2 DEF Next
<1>2. QED
  BY <1>1, TypeCorrect, AlwaysSound, NestedAlwaysJump, PTL
  DEF Spec, DroppedOnlyByPrinting

------------------------------------------------------------------------------
(* The user's view: the interpreter with its interrupts and its handler     *)
(* implements a machine that only runs the program.                         *)

LEMMA Wrap ==
    ASSUME NEW n \in Nat \ {0}, NEW a \in 0 .. n - 1
    PROVE  a % n = a /\ (a + n) % n = a /\ (a - n) % n = a
BY Z3

LEMMA StepBack ==
    ASSUME NEW a \in Address
    PROVE  Minus4(Plus4(a)) = a /\ Plus4(Minus4(a)) = a
<1> DEFINE n == AddrSpace
<1>1. n \in Nat \ {0} /\ n >= 4 /\ a \in 0 .. n - 1
  BY AddressAssumption DEF Address
<1> HIDE DEF n
<1>2. (((a + 4) % n) - 4) % n = a
  <2>1. CASE a + 4 < n
    BY <1>1, <2>1, Wrap
  <2>2. CASE a + 4 >= n
    <3>1. a + 4 - n \in 0 .. n - 1 /\ (a + 4 - n) + n = a + 4
      BY <1>1, <2>2
    <3>2. (a + 4) % n = a + 4 - n
      BY <1>1, <3>1, Wrap
    <3>3. (a + 4 - n) - 4 = a - n /\ (a - n) % n = a
      BY <1>1, Wrap
    <3>4. \A y : y = a + 4 - n => (y - 4) % n = a
      BY <1>1, <3>3
    <3>5. QED
      BY <3>2, <3>4
  <2>3. QED
    BY <1>1, <2>1, <2>2
<1>3. (((a - 4) % n) + 4) % n = a
  <2>1. CASE a >= 4
    <3>1. a - 4 \in 0 .. n - 1
      BY <1>1, <2>1
    <3>2. (a - 4) % n = a - 4
      BY <1>1, <3>1, Wrap
    <3>3. QED
      BY <1>1, <3>2, Wrap
  <2>2. CASE a < 4
    <3>1. a - 4 + n \in 0 .. n - 1 /\ (a - 4 + n) - n = a - 4
      BY <1>1, <2>2
    <3>2. (a - 4) % n = a - 4 + n
      BY <1>1, <3>1, Wrap
    <3>3. a - 4 + n + 4 = a + n /\ (a + n) % n = a
      BY <1>1, Wrap
    <3>4. QED
      BY <3>2, <3>3
  <2>3. QED
    BY <1>1, <2>1, <2>2
<1>4. QED
  BY <1>2, <1>3 DEF Plus4, Minus4, n

(* The machine between two calls, for a program with its user's and its     *)
(* handler's text: it runs the program, or a handler that will return to    *)
(* the program, or waits at the program's instruction for the handler.      *)
InUser(m, user) == ~m.exl /\ ~m.exc /\ m.resume = NoAddr /\ m.pc \in user
Interrupted(m, user) == m.exl /\ m.resume \in user /\ m.epc = m.resume
Handling(m, user, handler) == Interrupted(m, user) /\ ~m.exc /\ m.pc \in handler
Raised(m, user) == Interrupted(m, user) /\ m.exc /\ m.pc = m.resume /\ (m.fail => m.code = ExcCode_Int)
Placed(m, user, handler) ==
    /\ m \in Machine /\ ~m.slot /\ m.fail \in FailModes
    /\ InUser(m, user) \/ Handling(m, user, handler) \/ Raised(m, user)
InPlace(user, handler) ==
    /\ Conventional(text, user, handler) /\ PlainMachine
    /\ phase = "idle"
    /\ Placed(cpu, user, handler)

(* Where the program is.                                                   *)
ProgramCounter(m) == IF m.resume # NoAddr THEN m.resume ELSE m.pc

LEMMA UserAddresses ==
    ASSUME NEW p, NEW user, NEW handler, Conventional(p, user, handler), NEW a \in user \cup handler
    PROVE  /\ a \in Address /\ RoundDown(a) = a /\ Minus4(Plus4(a)) = a /\ Plus4(Minus4(a)) = a
           /\ a # NoAddr /\ Plus4(a) = User!After(a)
<1>1. a \in Address /\ a % 4 = 0
  BY AddressAssumption DEF Conventional
<1>2. RoundDown(a) = a
  BY <1>1 DEF RoundDown, Address
<1>3. Minus4(Plus4(a)) = a /\ Plus4(Minus4(a)) = a
  BY <1>1, StepBack
<1>4. QED
  BY <1>1, <1>2, <1>3, AddressAssumption DEF Plus4, User!After

(* An exception that user code raises: the machine waits at the instruction *)
(* that raised it.  In a tournament the code goes on, and done is set.      *)
LEMMA UserRaises ==
    ASSUME NEW m \in Machine, NEW user, ~m.slot, InUser(m, user), RoundDown(m.pc) = m.pc,
           NEW c \in ExcCodes, c # ExcCode_Int
    PROVE  LET r == RAISE_EXCEPTION(m, c)
           IN  /\ r \in Machine /\ ~r.slot /\ r.fail = m.fail /\ r.R = m.R /\ r.pc = m.pc
               /\ Raises(m, c) <=> ~m.fail
               /\ Raises(m, c) => Raised(r, user) /\ r.resume = m.pc /\ r.code = c
               /\ ~Raises(m, c) => InUser(r, user)
<1> DEFINE r == RAISE_EXCEPTION(m, c)
<1>1. r \in Machine
  BY RaiseType
<1>2. Raises(m, c) <=> ~m.fail
  BY DEF Raises
<1>3. CASE Raises(m, c)
  <2>1. FaultAddress(m) = m.pc
    BY DEF FaultAddress
  <2>2. r = [m EXCEPT !.exc = TRUE, !.epc = m.pc, !.resume = m.pc, !.bd = m.bd, !.code = c, !.exl = TRUE]
    BY <1>3, <2>1 DEF RAISE_EXCEPTION, raise_exception, InUser, Machine
  <2>3. QED
    BY <1>1, <1>2, <1>3, <2>2 DEF InUser, Raised, Interrupted, Machine
<1>4. CASE ~Raises(m, c)
  BY <1>1, <1>2, <1>4 DEF RAISE_EXCEPTION, InUser, Machine
<1>5. QED
  BY <1>3, <1>4

LEMMA UserFaults ==
    ASSUME NEW m \in Machine, NEW user, ~m.slot, InUser(m, user), RoundDown(m.pc) = m.pc,
           NEW c \in ExcCodes, c # ExcCode_Int, NEW a \in Address
    PROVE  LET r == BadAccess(m, c, a)
           IN  /\ r \in Machine /\ ~r.slot /\ r.fail = m.fail /\ r.R = m.R /\ r.pc = m.pc
               /\ Raises(m, c) <=> ~m.fail
               /\ Raises(m, c) => Raised(r, user) /\ r.resume = m.pc /\ r.code = c
               /\ ~Raises(m, c) => InUser(r, user)
<1> DEFINE r == RAISE_EXCEPTION(m, c)
           b == [r EXCEPT !.bad = IF Raises(m, c) THEN a ELSE @]
<1>1. /\ r \in Machine /\ ~r.slot /\ r.fail = m.fail /\ r.R = m.R /\ r.pc = m.pc
      /\ Raises(m, c) <=> ~m.fail
      /\ Raises(m, c) => Raised(r, user) /\ r.resume = m.pc /\ r.code = c
      /\ ~Raises(m, c) => InUser(r, user)
  BY UserRaises
<1> HIDE DEF r
<1>2. /\ b \in Machine /\ b.slot = r.slot /\ b.fail = r.fail /\ b.R = r.R /\ b.pc = r.pc
      /\ b.resume = r.resume /\ b.code = r.code /\ b.exl = r.exl /\ b.exc = r.exc /\ b.epc = r.epc
  BY <1>1 DEF Machine
<1>3. BadAccess(m, c, a) = b
  BY DEF BadAccess, r
<1> HIDE DEF b
<1>4. QED
  BY <1>1, <1>2, <1>3 DEF Raised, Interrupted, InUser

(* The tail of run_spim, when nothing was raised and when something was.    *)
LEMMA FinishedQuiet ==
    ASSUME NEW m \in Machine, ~m.exc
    PROVE  Finished(m) = [m EXCEPT !.pc = Plus4(@)]
<1>1. ~[m EXCEPT !.pc = Plus4(@)].exc
  BY DEF Machine
<1>2. QED
  BY <1>1 DEF Finished

LEMMA FinishedRaised ==
    ASSUME NEW m \in Machine, NEW user, Raised(m, user), ~m.fail, Minus4(Plus4(m.pc)) = m.pc
    PROVE  LET e == Finished(m)
           IN  /\ e \in Machine /\ e.slot = m.slot /\ e.fail = m.fail /\ e.R = m.R
               /\ e.pc = ExceptionAddr /\ ~e.exc /\ e.exl
               /\ e.resume = m.resume /\ e.epc = m.resume
<1> DEFINE next == [m EXCEPT !.pc = Plus4(@)]
           kept == [next EXCEPT !.epc = Minus4(next.pc)]
           e == Finished(m)
<1>1. next \in Machine /\ kept \in Machine /\ e \in Machine
  BY FinishedType, AddressArithmetic DEF Machine
<1>2. /\ next.slot = m.slot /\ next.fail = m.fail /\ next.R = m.R /\ next.exc /\ next.exl
      /\ next.resume = m.resume /\ next.epc = m.resume /\ next.pc = Plus4(m.pc)
  BY DEF Machine, Raised, Interrupted
<1>3. /\ kept.slot = m.slot /\ kept.fail = m.fail /\ kept.R = m.R /\ kept.exc /\ kept.exl
      /\ kept.resume = m.resume /\ kept.epc = m.resume
  BY <1>2 DEF Machine, Raised, Interrupted
<1>4. e = handle_exception(next) \/ e = handle_exception(kept)
  BY <1>2 DEF Finished
<1> HIDE DEF next, kept, e
<1>5. \A x \in {next, kept} : handle_exception(x) = [x EXCEPT !.exc = FALSE, !.pc = ExceptionAddr]
  BY <1>2, <1>3 DEF handle_exception
<1>6. \A x \in {next, kept} :
          /\ handle_exception(x).slot = x.slot /\ handle_exception(x).fail = x.fail
          /\ handle_exception(x).R = x.R /\ handle_exception(x).pc = ExceptionAddr
          /\ ~handle_exception(x).exc /\ handle_exception(x).exl = x.exl
          /\ handle_exception(x).resume = x.resume /\ handle_exception(x).epc = x.epc
  BY <1>1, <1>5 DEF Machine
<1>7. e \in Machine
  BY <1>1
<1>8. QED
  BY <1>2, <1>3, <1>4, <1>6, <1>7 DEF e

(* In place, the interpreter executes the instruction at PC with the        *)
(* machine as it is.                                                       *)
LEMMA ExecutingInPlace ==
    ASSUME TypeOK, NEW user, NEW handler, InPlace(user, handler), NEW op, Executing(op)
    PROVE  /\ Updated = cpu /\ ~cpu.exc /\ text' = text
           /\ cpu.pc \in TextAddrs /\ CurrentInst = text[cpu.pc] /\ text[cpu.pc].op = op
           /\ InUser(cpu, user) \/ Handling(cpu, user, handler)
<1>1. cpu \in Machine /\ ~Fetched(cpu.pc).exc /\ text' = text /\ CurrentInst.op = op
  BY DEF Executing, TypeOK
<1>2. cpu.pc \in TextAddrs
  <2>1. CASE InUser(cpu, user) /\ cpu.pc \notin TextAddrs
    <3>1. cpu.pc \in user /\ ~cpu.slot
      BY <2>1 DEF InUser, InPlace, Placed
    <3>2. RoundDown(cpu.pc) = cpu.pc /\ cpu.pc \in Address
      BY <3>1, UserAddresses DEF InPlace
    <3>3. Fetched(cpu.pc) = BadAccess(cpu, ExcCode_IBE, cpu.pc)
      BY <2>1 DEF Fetched
    <3>4. /\ Raises(cpu, ExcCode_IBE) <=> ~cpu.fail
          /\ Raises(cpu, ExcCode_IBE) => Raised(BadAccess(cpu, ExcCode_IBE, cpu.pc), user)
      BY <1>1, <2>1, <3>1, <3>2, UserFaults DEF ExcCodes, ExcCode_IBE, ExcCode_Int
    <3>5. cpu.fail
      BY <1>1, <3>3, <3>4 DEF Raised
    <3>6. cpu.fail = TRUE /\ TRUE \in FailModes
      BY <1>1, <3>5 DEF InPlace, Placed, Machine
    <3>7. QED
      BY <2>1, <3>1, <3>6 DEF InPlace, Conventional
  <2>2. CASE Raised(cpu, user) /\ cpu.pc \notin TextAddrs
    <3>1. cpu.exc /\ Fetched(cpu.pc).exc
      BY <1>1, <2>2 DEF Raised, Fetched, BadAccess, RAISE_EXCEPTION, raise_exception, Machine
    <3>2. QED
      BY <1>1, <3>1
  <2>3. CASE Handling(cpu, user, handler)
    BY <2>3 DEF Handling, InPlace, Conventional
  <2>4. QED
    BY <2>1, <2>2, <2>3 DEF InPlace, Placed
<1>3. Fetched(cpu.pc) = cpu /\ CurrentInst = text[cpu.pc]
  BY <1>2 DEF Fetched, CurrentInst
<1>4. Updated = cpu
  BY <1>1, <1>3 DEF Updated, InPlace, PlainMachine, Machine
<1>5. ~cpu.exc
  BY <1>1, <1>3
<1>6. QED
  BY <1>1, <1>2, <1>3, <1>4, <1>5 DEF InPlace, Placed, Raised

(* What completes, or raises, leaves the machine in place.                  *)
LEMMA InPlaceNext ==
    ASSUME NEW user, NEW handler, InPlace(user, handler), text' = text, Placed(cpu', user, handler), phase' = "idle"
    PROVE  InPlace(user, handler)'
BY DEF InPlace, Placed, InUser, Handling, Raised, Interrupted, PlainMachine, Conventional

LEMMA UserCompletes ==
    ASSUME NEW user, NEW handler, InPlace(user, handler), text' = text,
           NEW m \in Machine, ~m.slot, m.fail \in FailModes, ~m.exl, ~m.exc, m.resume = NoAddr,
           Complete(m), Plus4(m.pc) \in user
    PROVE  InPlace(user, handler)' /\ ProgramCounter(cpu') = Plus4(m.pc) /\ cpu'.R = m.R
<1> DEFINE e == [m EXCEPT !.pc = Plus4(@)]
<1>1. cpu' = e /\ phase' = "idle" /\ e \in Machine
  <2>1. cpu' = e
    BY FinishedQuiet DEF Complete
  <2>2. Finished(m) \in Machine /\ cpu' = Finished(m)
    BY FinishedType DEF Complete
  <2>3. phase' = "idle"
    BY DEF Complete, Return, InPlace
  <2>4. QED
    BY <2>1, <2>2, <2>3
<1>2. /\ e.pc = Plus4(m.pc) /\ e.slot = m.slot /\ e.fail = m.fail /\ e.R = m.R
      /\ e.exc = m.exc /\ e.exl = m.exl /\ e.resume = m.resume
  BY DEF Machine
<1> HIDE DEF e
<1>3. Placed(e, user, handler) /\ e.resume = NoAddr
  BY <1>1, <1>2 DEF Placed, InUser
<1>4. QED
  BY <1>1, <1>2, <1>3, InPlaceNext DEF ProgramCounter

LEMMA UserTraps ==
    ASSUME NEW user, NEW handler, InPlace(user, handler), text' = text,
           NEW m \in Machine, ~m.slot, m.fail \in FailModes, Raised(m, user), ~m.fail, Complete(m)
    PROVE  InPlace(user, handler)' /\ ProgramCounter(cpu') = m.resume /\ cpu'.R = m.R
<1> DEFINE e == Finished(m)
<1>1. cpu' = e /\ phase' = "idle" /\ m.resume \in user /\ m.pc = m.resume
  BY DEF Complete, Return, InPlace, Raised, Interrupted
<1>2. Minus4(Plus4(m.pc)) = m.pc /\ m.resume # NoAddr
  BY <1>1, UserAddresses DEF InPlace
<1>3. /\ e \in Machine /\ e.slot = m.slot /\ e.fail = m.fail /\ e.R = m.R
      /\ e.pc = ExceptionAddr /\ ~e.exc /\ e.exl /\ e.resume = m.resume /\ e.epc = m.resume
  BY <1>2, FinishedRaised
<1> HIDE DEF e
<1>4. Placed(e, user, handler)
  BY <1>1, <1>3 DEF Placed, Handling, Interrupted, InPlace, Conventional
<1>5. QED
  BY <1>1, <1>2, <1>3, <1>4, InPlaceNext DEF ProgramCounter

LEMMA HandlerCompletes ==
    ASSUME NEW user, NEW handler, InPlace(user, handler), text' = text,
           NEW m \in Machine, ~m.slot, m.fail \in FailModes, Interrupted(m, user), ~m.exc, Complete(m),
           Plus4(m.pc) \in handler
    PROVE  InPlace(user, handler)' /\ ProgramCounter(cpu') = m.resume /\ cpu'.R = m.R
<1> DEFINE e == [m EXCEPT !.pc = Plus4(@)]
<1>1. cpu' = e /\ phase' = "idle" /\ e \in Machine
  <2>1. cpu' = e
    BY FinishedQuiet DEF Complete
  <2>2. Finished(m) \in Machine /\ cpu' = Finished(m)
    BY FinishedType DEF Complete
  <2>3. phase' = "idle"
    BY DEF Complete, Return, InPlace
  <2>4. QED
    BY <2>1, <2>2, <2>3
<1>2. /\ e.pc = Plus4(m.pc) /\ e.slot = m.slot /\ e.fail = m.fail /\ e.R = m.R
      /\ e.exc = m.exc /\ e.exl = m.exl /\ e.resume = m.resume /\ e.epc = m.epc
  BY DEF Machine
<1> HIDE DEF e
<1>3. Placed(e, user, handler)
  BY <1>1, <1>2 DEF Placed, Handling, Interrupted
<1>4. m.resume # NoAddr
  BY UserAddresses DEF Interrupted, InPlace
<1>5. QED
  BY <1>1, <1>2, <1>3, <1>4, InPlaceNext DEF ProgramCounter

(* A step as the program sees it: one of its own, or none.                  *)
Simulates(user, handler) ==
    /\ InPlace(user, handler)'
    /\ User!Next \/ (text' = text /\ ProgramCounter(cpu') = ProgramCounter(cpu) /\ cpu'.R = cpu.R)

(* An instruction of the user's text that completes, jumps or raises.       *)
Runs(user, handler, op) ==
    InPlace(user, handler) /\ Executing(op) /\ InUser(cpu, user)

LEMMA Running ==
    ASSUME TypeOK, NEW user, NEW handler, NEW op, Runs(user, handler, op)
    PROVE  /\ Updated = cpu /\ cpu \in Machine /\ ~cpu.slot /\ cpu.fail \in FailModes /\ text' = text
           /\ cpu.pc \in TextAddrs /\ CurrentInst = text[cpu.pc] /\ CurrentInst \in Inst /\ CurrentInst.op = op
           /\ ProgramCounter(cpu) = cpu.pc /\ RoundDown(cpu.pc) = cpu.pc /\ Plus4(cpu.pc) = User!After(cpu.pc)
           /\ op \in UserOps /\ Follow(CurrentInst, cpu.pc) \subseteq user
           /\ \A ops : op \in ops => User!At(ops)
<1>1. InPlace(user, handler) /\ Executing(op) /\ InUser(cpu, user)
  BY DEF Runs
<1>2. /\ Updated = cpu /\ text' = text /\ cpu.pc \in TextAddrs
      /\ CurrentInst = text[cpu.pc] /\ text[cpu.pc].op = op
  BY <1>1, ExecutingInPlace
<1>3. cpu \in Machine /\ ~cpu.slot /\ cpu.fail \in FailModes /\ cpu.pc \in user
  BY <1>1 DEF InPlace, Placed, InUser
<1>4. ProgramCounter(cpu) = cpu.pc
  BY <1>1 DEF InUser, ProgramCounter
<1>5. RoundDown(cpu.pc) = cpu.pc /\ Plus4(cpu.pc) = User!After(cpu.pc)
  BY <1>1, <1>3, UserAddresses DEF InPlace
<1>6. op \in UserOps /\ Follow(CurrentInst, cpu.pc) \subseteq user
  BY <1>1, <1>2, <1>3 DEF InPlace, Conventional
<1>7. \A ops : op \in ops => User!At(ops)
  BY <1>2, <1>4 DEF User!At, ProgramCounter
<1>8. CurrentInst \in Inst
  BY CurrentInstType
<1>9. QED
  BY <1>1, <1>2, <1>3, <1>4, <1>5, <1>6, <1>7, <1>8

Plain == {"nop", "add", "syscall", "trap", "break", "mtc0", "load", "store"}

LEMMA Sequel ==
    ASSUME TypeOK, NEW user, NEW handler, NEW op \in Plain, Runs(user, handler, op)
    PROVE  Plus4(cpu.pc) \in user
<1>1. Follow(CurrentInst, cpu.pc) = {Plus4(cpu.pc)}
  BY Running DEF Follow, Plain
<1>2. QED
  BY <1>1, Running

(* What completes is a step of the program.                                 *)
LEMMA StepCompletes ==
    ASSUME TypeOK, NEW user, NEW handler, NEW op \in Plain, Runs(user, handler, op),
           NEW m \in Machine, ~m.slot, m.fail \in FailModes, InUser(m, user), m.pc = cpu.pc, Complete(m),
           (m.R = cpu.R /\ op \in {"nop", "mtc0", "trap", "break", "store"}) \/ op \in {"add", "load", "syscall"}
    PROVE  Simulates(user, handler)
<1>1. /\ ProgramCounter(cpu) = cpu.pc /\ text' = text /\ Plus4(cpu.pc) = User!After(cpu.pc)
      /\ \A ops : op \in ops => User!At(ops)
  BY Running
<1>2. InPlace(user, handler)' /\ ProgramCounter(cpu') = Plus4(cpu.pc) /\ cpu'.R = m.R
  BY <1>1, Sequel, UserCompletes DEF Runs, InUser
<1>3. CASE m.R = cpu.R /\ op \in {"nop", "mtc0", "trap", "break", "store"}
  <2>1. User!Sequential
    BY <1>1, <1>2, <1>3 DEF User!Sequential, ProgramCounter
  <2>2. QED
    BY <1>2, <2>1 DEF Simulates, User!Next
<1>4. CASE op \in {"add", "load", "syscall"}
  <2>1. cpu'.R \in Values
    BY <1>2 DEF Machine
  <2>2. User!WriteRegister
    BY <1>1, <1>2, <1>4, <2>1 DEF User!WriteRegister, ProgramCounter
  <2>3. QED
    BY <1>2, <2>2 DEF Simulates, User!Next
<1>5. QED
  BY <1>3, <1>4

(* What raises is a step of its own only for a load, which has cleared its  *)
(* destination.                                                            *)
LEMMA StepTraps ==
    ASSUME TypeOK, NEW user, NEW handler, NEW op, Runs(user, handler, op),
           NEW m \in Machine, ~m.slot, m.fail \in FailModes, Raised(m, user), ~m.fail, m.resume = cpu.pc, Complete(m),
           m.R = cpu.R \/ (m.R = 0 /\ op = "load")
    PROVE  Simulates(user, handler)
<1>1. /\ ProgramCounter(cpu) = cpu.pc /\ text' = text
      /\ \A ops : op \in ops => User!At(ops)
  BY Running
<1>2. InPlace(user, handler)' /\ ProgramCounter(cpu') = cpu.pc /\ cpu'.R = m.R
  BY <1>1, UserTraps DEF Runs
<1>3. CASE m.R = cpu.R
  BY <1>1, <1>2, <1>3 DEF Simulates
<1>4. CASE m.R = 0 /\ op = "load"
  <2>1. User!FaultingLoad
    BY <1>1, <1>2, <1>4 DEF User!FaultingLoad, ProgramCounter
  <2>2. QED
    BY <1>2, <2>1 DEF Simulates, User!Next
<1>5. QED
  BY <1>3, <1>4

LEMMA UserNop ==
    ASSUME TypeOK, NEW user, NEW handler, InPlace(user, handler), InUser(cpu, user), ExecNop
    PROVE  Simulates(user, handler)
<1>1. Runs(user, handler, "nop") /\ Complete(Updated)
  BY DEF ExecNop, Runs
<1>2. QED
  BY <1>1, Running, StepCompletes DEF Plain

LEMMA UserAdd ==
    ASSUME TypeOK, NEW user, NEW handler, InPlace(user, handler), InUser(cpu, user), ExecAdd
    PROVE  Simulates(user, handler)
<1>1. Runs(user, handler, "add")
  BY DEF ExecAdd, Runs
<1>2. /\ Updated = cpu /\ cpu \in Machine /\ ~cpu.slot /\ cpu.fail \in FailModes /\ RoundDown(cpu.pc) = cpu.pc
  BY <1>1, Running
<1> DEFINE r == RAISE_EXCEPTION(cpu, ExcCode_Ov)
<1>3. PICK v \in Values, overflow \in BOOLEAN :
          Complete(IF overflow /\ Raises(cpu, ExcCode_Ov) THEN r
                   ELSE [(IF overflow THEN r ELSE cpu) EXCEPT !.R = v])
  BY <1>2 DEF ExecAdd
<1>4. /\ r \in Machine /\ ~r.slot /\ r.fail = cpu.fail /\ r.R = cpu.R /\ r.pc = cpu.pc
      /\ Raises(cpu, ExcCode_Ov) <=> ~cpu.fail
      /\ Raises(cpu, ExcCode_Ov) => Raised(r, user) /\ r.resume = cpu.pc
      /\ ~Raises(cpu, ExcCode_Ov) => InUser(r, user)
  BY <1>2, UserRaises DEF ExcCodes, ExcCode_Ov, ExcCode_Int
<1> HIDE DEF r
<1>5. CASE overflow /\ Raises(cpu, ExcCode_Ov)
  BY <1>1, <1>2, <1>3, <1>4, <1>5, StepTraps
<1>6. CASE ~(overflow /\ Raises(cpu, ExcCode_Ov))
  <2>1. PICK n \in {r, cpu} : Complete([n EXCEPT !.R = v]) /\ InUser(n, user)
    BY <1>3, <1>4, <1>6
  <2> DEFINE m == [n EXCEPT !.R = v]
  <2>2. n \in Machine /\ ~n.slot /\ n.fail = cpu.fail /\ n.pc = cpu.pc
    BY <1>2, <1>4
  <2>3. m \in Machine /\ m.slot = n.slot /\ m.fail = n.fail /\ m.pc = n.pc /\ InUser(m, user)
    BY <2>1, <2>2 DEF Machine, InUser
  <2> HIDE DEF m
  <2>4. Complete(m)
    BY <2>1 DEF m
  <2>5. QED
    BY <1>1, <1>2, <2>2, <2>3, <2>4, StepCompletes DEF Plain
<1>7. QED
  BY <1>5, <1>6

(* An instruction that raises, or does nothing that the model follows.      *)
LEMMA UserMayRaise ==
    ASSUME TypeOK, NEW user, NEW handler, NEW op \in {"trap", "break", "store"}, Runs(user, handler, op),
           NEW c \in ExcCodes, c # ExcCode_Int, NEW r \in {RAISE_EXCEPTION(cpu, c), BadAccess(cpu, c, cpu.R)},
           Complete(r)
    PROVE  Simulates(user, handler)
<1>1. Updated = cpu /\ cpu \in Machine /\ ~cpu.slot /\ cpu.fail \in FailModes /\ RoundDown(cpu.pc) = cpu.pc
  BY Running
<1>2. cpu.R \in Address /\ InUser(cpu, user)
  BY <1>1, AddressAssumption DEF Machine, Runs
<1>3. /\ r \in Machine /\ ~r.slot /\ r.fail = cpu.fail /\ r.R = cpu.R /\ r.pc = cpu.pc
      /\ Raises(cpu, c) <=> ~cpu.fail
      /\ Raises(cpu, c) => Raised(r, user) /\ r.resume = cpu.pc
      /\ ~Raises(cpu, c) => InUser(r, user)
  <2>1. CASE r = RAISE_EXCEPTION(cpu, c)
    BY <1>1, <1>2, <2>1, UserRaises
  <2>2. CASE r = BadAccess(cpu, c, cpu.R)
    BY <1>1, <1>2, <2>2, UserFaults
  <2>3. QED
    BY <2>1, <2>2
<1>4. CASE Raises(cpu, c)
  BY <1>1, <1>3, <1>4, StepTraps
<1>5. CASE ~Raises(cpu, c)
  BY <1>1, <1>3, <1>5, StepCompletes DEF Plain
<1>6. QED
  BY <1>4, <1>5

LEMMA UserTrap ==
    ASSUME TypeOK, NEW user, NEW handler, InPlace(user, handler), InUser(cpu, user), ExecTrap
    PROVE  Simulates(user, handler)
<1>1. Runs(user, handler, "trap")
  BY DEF ExecTrap, Runs
<1>2. /\ Updated = cpu /\ cpu \in Machine /\ ~cpu.slot /\ cpu.fail \in FailModes
      /\ CurrentInst \in Inst /\ CurrentInst.op = "trap"
  BY <1>1, Running
<1>3. CurrentInst.code \in ExcCodes /\ CurrentInst.code # ExcCode_Int
  BY <1>2 DEF Inst, ExcCodes, ExcCode_Tr, ExcCode_FPE, ExcCode_Int
<1>4. Complete(cpu) \/ Complete(RAISE_EXCEPTION(cpu, CurrentInst.code))
  BY <1>2 DEF ExecTrap
<1>5. CASE Complete(cpu)
  BY <1>1, <1>2, <1>5, StepCompletes DEF Plain
<1>6. CASE Complete(RAISE_EXCEPTION(cpu, CurrentInst.code))
  BY <1>1, <1>3, <1>6, UserMayRaise
<1>7. QED
  BY <1>4, <1>5, <1>6

LEMMA UserStore ==
    ASSUME TypeOK, NEW user, NEW handler, InPlace(user, handler), InUser(cpu, user), ExecStore
    PROVE  Simulates(user, handler)
<1>1. Runs(user, handler, "store")
  BY DEF ExecStore, Runs
<1>2. /\ Updated = cpu /\ cpu \in Machine /\ ~cpu.slot /\ cpu.fail \in FailModes
      /\ CurrentInst \in Inst /\ CurrentInst.op = "store"
  BY <1>1, Running
<1>3. CurrentInst.code \in ExcCodes /\ CurrentInst.code # ExcCode_Int
  BY <1>2 DEF Inst, ExcCodes, ExcCode_AdES, ExcCode_DBE, ExcCode_Int
<1>4. Complete(cpu) \/ Complete(BadAccess(cpu, CurrentInst.code, cpu.R))
  BY <1>2 DEF ExecStore
<1>5. CASE Complete(cpu)
  BY <1>1, <1>2, <1>5, StepCompletes DEF Plain
<1>6. CASE Complete(BadAccess(cpu, CurrentInst.code, cpu.R))
  BY <1>1, <1>3, <1>6, UserMayRaise
<1>7. QED
  BY <1>4, <1>5, <1>6

LEMMA UserIllegal ==
    ASSUME TypeOK, NEW user, NEW handler, InPlace(user, handler), InUser(cpu, user), ExecIllegal
    PROVE  Simulates(user, handler)
<1>1. Runs(user, handler, "illegal")
  BY DEF ExecIllegal, Runs
<1>2. /\ Updated = cpu /\ cpu \in Machine /\ ~cpu.slot /\ cpu.fail \in FailModes
      /\ CurrentInst \in Inst /\ CurrentInst.op = "illegal" /\ RoundDown(cpu.pc) = cpu.pc
      /\ CurrentInst = text[cpu.pc] /\ cpu.pc \in user
  BY <1>1, Running DEF InUser
<1> DEFINE c == CurrentInst.code
           r == RAISE_EXCEPTION(cpu, c)
<1>3. c \in ExcCodes /\ c # ExcCode_Int
  BY <1>2 DEF Inst, ExcCodes, ExcCode_RI, ExcCode_CpU, ExcCode_Int
<1>4. Complete(r)
  BY <1>2 DEF ExecIllegal
<1>5. ~cpu.fail
  <2>1. cpu.fail \in BOOLEAN
    BY <1>2 DEF Machine
  <2>2. QED
    BY <1>2, <2>1 DEF InPlace, Conventional
<1> HIDE DEF c
<1>6. /\ r \in Machine /\ ~r.slot /\ r.fail = cpu.fail /\ r.R = cpu.R
      /\ Raised(r, user) /\ r.resume = cpu.pc
  BY <1>2, <1>3, <1>5, UserRaises
<1> HIDE DEF r
<1>7. QED
  BY <1>1, <1>2, <1>4, <1>5, <1>6, StepTraps

(* A breakpoint of the debugger leaves PC and the handler to the next call. *)
LEMMA UserBreak ==
    ASSUME TypeOK, NEW user, NEW handler, InPlace(user, handler), InUser(cpu, user), ExecBreak
    PROVE  Simulates(user, handler)
<1>1. Runs(user, handler, "break")
  BY DEF ExecBreak, Runs
<1>2. /\ Updated = cpu /\ cpu \in Machine /\ ~cpu.slot /\ cpu.fail \in FailModes
      /\ RoundDown(cpu.pc) = cpu.pc /\ ProgramCounter(cpu) = cpu.pc /\ text' = text /\ cpu.pc \in user
  BY <1>1, Running DEF InUser
<1> DEFINE r == RAISE_EXCEPTION(cpu, ExcCode_Bp)
<1>3. ExcCode_Bp \in ExcCodes /\ ExcCode_Bp # ExcCode_Int
  BY DEF ExcCodes, ExcCode_Bp, ExcCode_Int
<1>4. CASE Complete(r)
  BY <1>1, <1>3, <1>4, UserMayRaise
<1>5. CASE Raises(cpu, ExcCode_Bp) /\ cpu' = r /\ Return(TRUE)
  <2>1. /\ r \in Machine /\ ~r.slot /\ r.fail = cpu.fail /\ r.R = cpu.R
        /\ Raised(r, user) /\ r.resume = cpu.pc
    BY <1>2, <1>3, <1>5, UserRaises
  <2> HIDE DEF r
  <2>2. phase' = "idle"
    BY <1>5 DEF Return, InPlace
  <2>3. InPlace(user, handler)'
    BY <1>2, <1>5, <2>1, <2>2, InPlaceNext DEF Placed
  <2>4. r.resume # NoAddr
    BY <1>2, <2>1, UserAddresses DEF InPlace
  <2>5. QED
    BY <1>2, <1>5, <2>1, <2>3, <2>4 DEF Simulates, ProgramCounter
<1>6. QED
  BY <1>2, <1>4, <1>5 DEF ExecBreak

LEMMA UserSyscall ==
    ASSUME TypeOK, NEW user, NEW handler, InPlace(user, handler), InUser(cpu, user), ExecSyscall
    PROVE  Simulates(user, handler)
<1>1. Runs(user, handler, "syscall")
  BY DEF ExecSyscall, Runs
<1>2. Updated = cpu /\ cpu \in Machine /\ ~cpu.slot /\ cpu.fail \in FailModes /\ text' = text
  BY <1>1, Running
<1>3. \/ Complete(cpu)
      \/ \E v \in Values : Complete([cpu EXCEPT !.R = v])
      \/ cpu' = cpu /\ Return(FALSE)
  BY <1>2 DEF ExecSyscall
<1>4. CASE Complete(cpu)
  BY <1>1, <1>2, <1>4, StepCompletes DEF Plain
<1>5. ASSUME NEW v \in Values, Complete([cpu EXCEPT !.R = v]) PROVE Simulates(user, handler)
  <2> DEFINE m == [cpu EXCEPT !.R = v]
  <2>1. m \in Machine /\ m.slot = cpu.slot /\ m.fail = cpu.fail /\ m.pc = cpu.pc /\ InUser(m, user)
    BY <1>2 DEF Machine, InUser
  <2>2. Complete(m)
    BY <1>5
  <2> HIDE DEF m
  <2>3. QED
    BY <1>1, <1>2, <2>1, <2>2, StepCompletes DEF Plain
<1>6. CASE cpu' = cpu /\ Return(FALSE)
  <2>1. phase' = "idle"
    BY <1>6 DEF Return, InPlace
  <2>2. QED
    BY <1>2, <1>6, <2>1, InPlaceNext DEF Simulates, InPlace
<1>7. QED
  BY <1>3, <1>4, <1>5, <1>6

LEMMA UserLoad ==
    ASSUME TypeOK, NEW user, NEW handler, InPlace(user, handler), InUser(cpu, user), ExecLoad
    PROVE  Simulates(user, handler)
<1>1. Runs(user, handler, "load")
  BY DEF ExecLoad, Runs
<1>2. /\ Updated = cpu /\ cpu \in Machine /\ ~cpu.slot /\ cpu.fail \in FailModes /\ RoundDown(cpu.pc) = cpu.pc
      /\ CurrentInst \in Inst /\ CurrentInst.op = "load"
  BY <1>1, Running
<1> DEFINE c == CurrentInst.code
           r == BadAccess(cpu, c, cpu.R)
<1>3. c \in ExcCodes /\ c # ExcCode_Int /\ cpu.R \in Address
  BY <1>2, AddressAssumption DEF Inst, ExcCodes, ExcCode_AdEL, ExcCode_DBE, ExcCode_Int, Machine
<1>4. PICK v \in Values, bad \in BOOLEAN :
          Complete([(IF bad THEN r ELSE cpu) EXCEPT !.R = IF bad THEN 0 ELSE v])
  BY <1>2 DEF ExecLoad, InPlace, PlainMachine
<1> HIDE DEF c
<1>5. /\ r \in Machine /\ ~r.slot /\ r.fail = cpu.fail /\ r.pc = cpu.pc
      /\ Raises(cpu, c) <=> ~cpu.fail
      /\ Raises(cpu, c) => Raised(r, user) /\ r.resume = cpu.pc
      /\ ~Raises(cpu, c) => InUser(r, user)
  BY <1>2, <1>3, UserFaults
<1> HIDE DEF r
<1>6. CASE bad /\ Raises(cpu, c)
  <2> DEFINE m == [r EXCEPT !.R = 0]
  <2>1. Complete(m)
    BY <1>4, <1>6
  <2>2. m \in Machine /\ m.slot = r.slot /\ m.fail = r.fail /\ m.resume = r.resume /\ m.R = 0 /\ Raised(m, user)
    BY <1>5, <1>6, AddressAssumption DEF Machine, Raised, Interrupted
  <2> HIDE DEF m
  <2>3. QED
    BY <1>1, <1>2, <1>5, <1>6, <2>1, <2>2, StepTraps
<1>7. CASE ~(bad /\ Raises(cpu, c))
  <2>1. PICK n \in {r, cpu}, w \in Values : Complete([n EXCEPT !.R = w]) /\ InUser(n, user)
    BY <1>4, <1>5, <1>7, AddressAssumption
  <2> DEFINE m == [n EXCEPT !.R = w]
  <2>2. n \in Machine /\ ~n.slot /\ n.fail = cpu.fail /\ n.pc = cpu.pc
    BY <1>2, <1>5
  <2>3. m \in Machine /\ m.slot = n.slot /\ m.fail = n.fail /\ m.pc = n.pc /\ InUser(m, user)
    BY <2>1, <2>2 DEF Machine, InUser
  <2>4. Complete(m)
    BY <2>1
  <2> HIDE DEF m
  <2>5. QED
    BY <1>1, <1>2, <2>2, <2>3, <2>4, StepCompletes DEF Plain
<1>8. QED
  BY <1>6, <1>7

LEMMA UserMTC0 ==
    ASSUME TypeOK, NEW user, NEW handler, InPlace(user, handler), InUser(cpu, user), ExecMTC0
    PROVE  Simulates(user, handler)
<1>1. Runs(user, handler, "mtc0")
  BY DEF ExecMTC0, Runs
<1>2. Updated = cpu /\ cpu \in Machine /\ ~cpu.slot /\ cpu.fail \in FailModes
  BY <1>1, Running
<1>3. PICK m : /\ Complete(m)
               /\ \/ \E w \in StatusWrites :
                        m = [cpu EXCEPT !.ie = w.ie, !.exl = w.exl,
                                        !.resume = IF w.exl /\ cpu.exl THEN @ ELSE NoAddr]
                  \/ \E w \in CauseWrites : m = [cpu EXCEPT !.bd = w.bd, !.ip = w.ip, !.code = w.code]
                  \/ m = [cpu EXCEPT !.epc = cpu.R, !.resume = NoAddr]
                  \/ m = [cpu EXCEPT !.ip = @ \ {TimerLevel}]
  BY <1>2 DEF ExecMTC0
<1>4. /\ m \in Machine /\ m.slot = cpu.slot /\ m.fail = cpu.fail /\ m.pc = cpu.pc /\ m.R = cpu.R
      /\ InUser(m, user)
  <2>1. ASSUME NEW w \in StatusWrites,
               m = [cpu EXCEPT !.ie = w.ie, !.exl = w.exl, !.resume = IF w.exl /\ cpu.exl THEN @ ELSE NoAddr]
        PROVE  /\ m \in Machine /\ m.slot = cpu.slot /\ m.fail = cpu.fail /\ m.pc = cpu.pc /\ m.R = cpu.R
               /\ InUser(m, user)
    <3>1. w.ie \in BOOLEAN /\ w.exl \in BOOLEAN /\ ~w.exl
      BY ConfigAssumption DEF InPlace, PlainMachine
    <3>2. QED
      BY <1>2, <2>1, <3>1 DEF Machine, InUser
  <2>2. ASSUME NEW w \in CauseWrites, m = [cpu EXCEPT !.bd = w.bd, !.ip = w.ip, !.code = w.code]
        PROVE  /\ m \in Machine /\ m.slot = cpu.slot /\ m.fail = cpu.fail /\ m.pc = cpu.pc /\ m.R = cpu.R
               /\ InUser(m, user)
    <3>1. w.bd \in BOOLEAN /\ w.ip \in SUBSET Levels /\ w.code \in ExcCodes
      BY ConfigAssumption
    <3>2. QED
      BY <1>2, <2>2, <3>1 DEF Machine, InUser
  <2>3. CASE m = [cpu EXCEPT !.epc = cpu.R, !.resume = NoAddr]
    BY <1>2, <2>3, AddressAssumption DEF Machine, InUser
  <2>4. CASE m = [cpu EXCEPT !.ip = @ \ {TimerLevel}]
    BY <1>2, <2>4 DEF Machine, InUser
  <2>5. QED
    BY <1>3, <2>1, <2>2, <2>3, <2>4
<1>5. QED
  BY <1>1, <1>2, <1>3, <1>4, StepCompletes DEF Plain

(* Without delayed branches a jump is over in its own call.                 *)
LEMMA JumpLands ==
    ASSUME ~DelayedBranches, NEW m \in Machine, NEW t \in Address, JUMP_INST(m, t)
    PROVE  LET n == [m EXCEPT !.pc = Minus4(t)]
           IN  /\ Complete(n) /\ n \in Machine /\ Plus4(n.pc) = t /\ n.slot = m.slot /\ n.fail = m.fail /\ n.R = m.R
               /\ n.exl = m.exl /\ n.exc = m.exc /\ n.resume = m.resume /\ n.epc = m.epc
<1> DEFINE p == Minus4(t)
           n == [m EXCEPT !.pc = p]
<1>1. p \in Address /\ Plus4(p) = t
  BY AddressArithmetic, StepBack
<1>2. Complete(n)
  BY DEF JUMP_INST
<1> HIDE DEF p
<1>3. /\ n \in Machine /\ n.pc = p /\ n.slot = m.slot /\ n.fail = m.fail /\ n.R = m.R
      /\ n.exl = m.exl /\ n.exc = m.exc /\ n.resume = m.resume /\ n.epc = m.epc
  BY <1>1 DEF Machine
<1>4. QED
  BY <1>1, <1>2, <1>3 DEF p

LEMMA UserJ ==
    ASSUME TypeOK, NEW user, NEW handler, InPlace(user, handler), InUser(cpu, user), ExecJ
    PROVE  Simulates(user, handler)
<1>1. Runs(user, handler, "j")
  BY DEF ExecJ, Runs
<1>2. /\ Updated = cpu /\ cpu \in Machine /\ ~cpu.slot /\ cpu.fail \in FailModes /\ text' = text
      /\ CurrentInst = text[cpu.pc] /\ CurrentInst \in Inst /\ CurrentInst.op = "j" /\ ProgramCounter(cpu) = cpu.pc
      /\ Follow(CurrentInst, cpu.pc) \subseteq user /\ User!At({"j"})
  BY <1>1, Running
<1> DEFINE t == CurrentInst.target
           n == [cpu EXCEPT !.pc = Minus4(t)]
<1>3. t \in Address /\ t \in user /\ JUMP_INST(cpu, t)
  BY <1>2 DEF Inst, Follow, ExecJ
<1>4. t = text[cpu.pc].target
  BY <1>2
<1> HIDE DEF t
<1>5. /\ Complete(n) /\ n \in Machine /\ Plus4(n.pc) = t /\ n.slot = cpu.slot /\ n.fail = cpu.fail /\ n.R = cpu.R
      /\ n.exl = cpu.exl /\ n.exc = cpu.exc /\ n.resume = cpu.resume
  BY <1>2, <1>3, JumpLands DEF InPlace, PlainMachine
<1> HIDE DEF n
<1>6. InPlace(user, handler)' /\ ProgramCounter(cpu') = t /\ cpu'.R = cpu.R
  BY <1>2, <1>3, <1>5, UserCompletes DEF InUser
<1>7. User!Jump
  BY <1>2, <1>4, <1>6 DEF User!Jump, ProgramCounter
<1>8. QED
  BY <1>6, <1>7 DEF Simulates, User!Next

LEMMA UserBranch ==
    ASSUME TypeOK, NEW user, NEW handler, InPlace(user, handler), InUser(cpu, user), ExecBranch
    PROVE  Simulates(user, handler)
<1>1. Runs(user, handler, "branch")
  BY DEF ExecBranch, Runs
<1>2. /\ Updated = cpu /\ cpu \in Machine /\ ~cpu.slot /\ cpu.fail \in FailModes /\ text' = text
      /\ CurrentInst = text[cpu.pc] /\ CurrentInst \in Inst /\ CurrentInst.op = "branch" /\ ProgramCounter(cpu) = cpu.pc
      /\ Follow(CurrentInst, cpu.pc) \subseteq user /\ User!At({"branch"}) /\ Plus4(cpu.pc) = User!After(cpu.pc)
  BY <1>1, Running
<1> DEFINE t == CurrentInst.target
           nullify == CurrentInst.nullify
           over == Plus4(cpu.pc)
<1>3. /\ t \in Address /\ t \in user /\ over \in user /\ (nullify => Plus4(over) \in user)
      /\ t = text[cpu.pc].target /\ nullify = text[cpu.pc].nullify
  BY <1>2 DEF Inst, Follow
<1>4. \/ cpu.R # 0 /\ JUMP_INST(cpu, t)
      \/ cpu.R = 0 /\ nullify /\ Complete([cpu EXCEPT !.pc = Plus4(@)])
      \/ cpu.R = 0 /\ ~nullify /\ Complete(cpu)
  BY <1>2 DEF ExecBranch, InPlace, PlainMachine
<1>5. over = User!After(cpu.pc) /\ Plus4(over) = User!After(over)
  BY <1>2, <1>3, UserAddresses DEF InPlace
<1> HIDE DEF t, nullify, over
<1>6. ASSUME NEW a \in user, InPlace(user, handler)', ProgramCounter(cpu') = a, cpu'.R = cpu.R,
             a = IF cpu.R # 0 THEN t ELSE IF nullify THEN Plus4(over) ELSE over
      PROVE  Simulates(user, handler)
  <2>1. User!Branch
    BY <1>2, <1>3, <1>5, <1>6 DEF User!Branch, ProgramCounter
  <2>2. QED
    BY <1>6, <2>1 DEF Simulates, User!Next
<1>7. CASE cpu.R # 0 /\ JUMP_INST(cpu, t)
  <2> DEFINE n == [cpu EXCEPT !.pc = Minus4(t)]
  <2>1. /\ Complete(n) /\ n \in Machine /\ Plus4(n.pc) = t /\ n.slot = cpu.slot /\ n.fail = cpu.fail /\ n.R = cpu.R
        /\ n.exl = cpu.exl /\ n.exc = cpu.exc /\ n.resume = cpu.resume
    BY <1>2, <1>3, <1>7, JumpLands DEF InPlace, PlainMachine
  <2> HIDE DEF n
  <2>2. InPlace(user, handler)' /\ ProgramCounter(cpu') = t /\ cpu'.R = cpu.R
    BY <1>2, <1>3, <2>1, UserCompletes DEF InUser
  <2>3. QED
    BY <1>3, <1>6, <1>7, <2>2
<1>8. CASE cpu.R = 0 /\ nullify /\ Complete([cpu EXCEPT !.pc = Plus4(@)])
  <2> DEFINE n == [cpu EXCEPT !.pc = Plus4(@)]
  <2>1. /\ n \in Machine /\ n.pc = over /\ n.slot = cpu.slot /\ n.fail = cpu.fail /\ n.R = cpu.R
        /\ n.exl = cpu.exl /\ n.exc = cpu.exc /\ n.resume = cpu.resume
    BY <1>2, AddressArithmetic DEF Machine, over
  <2>2. Complete(n)
    BY <1>8
  <2> HIDE DEF n
  <2>3. InPlace(user, handler)' /\ ProgramCounter(cpu') = Plus4(over) /\ cpu'.R = cpu.R
    BY <1>2, <1>3, <1>8, <2>1, <2>2, UserCompletes DEF InUser
  <2>4. QED
    BY <1>3, <1>6, <1>8, <2>3
<1>9. CASE cpu.R = 0 /\ ~nullify /\ Complete(cpu)
  <2>1. InPlace(user, handler)' /\ ProgramCounter(cpu') = over /\ cpu'.R = cpu.R
    BY <1>2, <1>3, <1>9, UserCompletes DEF InUser, over
  <2>2. QED
    BY <1>3, <1>6, <1>9, <2>1
<1>10. QED
  BY <1>4, <1>7, <1>8, <1>9

(* An instruction of the handler.                                          *)
Serves(user, handler, op) ==
    InPlace(user, handler) /\ Executing(op) /\ Handling(cpu, user, handler)

LEMMA Serving ==
    ASSUME TypeOK, NEW user, NEW handler, NEW op, Serves(user, handler, op)
    PROVE  /\ Updated = cpu /\ cpu \in Machine /\ ~cpu.slot /\ cpu.fail \in FailModes /\ text' = text
           /\ CurrentInst \in Inst /\ CurrentInst.op = op
           /\ cpu.resume # NoAddr /\ ProgramCounter(cpu) = cpu.resume
           /\ op \in HandlerOps /\ Follow(CurrentInst, cpu.pc) \subseteq handler
           /\ op = "mtc0" => CurrentInst.rd \in {"cause", "compare"}
<1>1. InPlace(user, handler) /\ Executing(op) /\ Handling(cpu, user, handler)
  BY DEF Serves
<1>2. /\ Updated = cpu /\ text' = text
      /\ CurrentInst = text[cpu.pc] /\ text[cpu.pc].op = op
  BY <1>1, ExecutingInPlace
<1>3. cpu \in Machine /\ ~cpu.slot /\ cpu.fail \in FailModes /\ cpu.pc \in handler /\ cpu.resume \in user
  BY <1>1 DEF InPlace, Placed, Handling, Interrupted
<1>4. cpu.resume # NoAddr
  BY <1>1, <1>3, UserAddresses DEF InPlace
<1>5. /\ op \in HandlerOps /\ Follow(CurrentInst, cpu.pc) \subseteq handler
      /\ op = "mtc0" => CurrentInst.rd \in {"cause", "compare"}
  BY <1>1, <1>2, <1>3 DEF InPlace, Conventional
<1>6. CurrentInst \in Inst
  BY CurrentInstType
<1>7. QED
  BY <1>2, <1>3, <1>4, <1>5, <1>6 DEF ProgramCounter

(* The program sees nothing of it.                                         *)
LEMMA HandlerStep ==
    ASSUME TypeOK, NEW user, NEW handler, NEW op, Serves(user, handler, op),
           NEW m \in Machine, m.slot = cpu.slot, m.fail = cpu.fail, m.R = cpu.R, m.exl = cpu.exl, m.exc = cpu.exc,
           m.resume = cpu.resume, m.epc = cpu.epc, Complete(m), Plus4(m.pc) \in handler
    PROVE  Simulates(user, handler)
<1>1. ~cpu.slot /\ cpu.fail \in FailModes /\ text' = text /\ ProgramCounter(cpu) = cpu.resume
  BY Serving
<1>2. Interrupted(m, user) /\ ~m.exc /\ InPlace(user, handler)
  BY DEF Serves, Handling, Interrupted
<1>3. InPlace(user, handler)' /\ ProgramCounter(cpu') = m.resume /\ cpu'.R = m.R
  BY <1>1, <1>2, HandlerCompletes
<1>4. QED
  BY <1>1, <1>3 DEF Simulates

LEMMA HandlerNop ==
    ASSUME TypeOK, NEW user, NEW handler, InPlace(user, handler), Handling(cpu, user, handler), ExecNop
    PROVE  Simulates(user, handler)
<1>1. Serves(user, handler, "nop") /\ Complete(Updated)
  BY DEF ExecNop, Serves
<1>2. Updated = cpu /\ cpu \in Machine /\ Plus4(cpu.pc) \in handler
  BY <1>1, Serving DEF Follow
<1>3. QED
  BY <1>1, <1>2, HandlerStep

LEMMA HandlerMTC0 ==
    ASSUME TypeOK, NEW user, NEW handler, InPlace(user, handler), Handling(cpu, user, handler), ExecMTC0
    PROVE  Simulates(user, handler)
<1>1. Serves(user, handler, "mtc0")
  BY DEF ExecMTC0, Serves
<1>2. /\ Updated = cpu /\ cpu \in Machine /\ Plus4(cpu.pc) \in handler
      /\ CurrentInst.rd \in {"cause", "compare"}
  BY <1>1, Serving DEF Follow
<1>3. PICK m : /\ Complete(m)
               /\ \/ \E w \in CauseWrites : m = [cpu EXCEPT !.bd = w.bd, !.ip = w.ip, !.code = w.code]
                  \/ m = [cpu EXCEPT !.ip = @ \ {TimerLevel}]
  BY <1>2 DEF ExecMTC0
<1>4. /\ m \in Machine /\ m.slot = cpu.slot /\ m.fail = cpu.fail /\ m.pc = cpu.pc /\ m.R = cpu.R
      /\ m.exl = cpu.exl /\ m.exc = cpu.exc /\ m.resume = cpu.resume /\ m.epc = cpu.epc
  <2>1. ASSUME NEW w \in CauseWrites, m = [cpu EXCEPT !.bd = w.bd, !.ip = w.ip, !.code = w.code]
        PROVE  /\ m \in Machine /\ m.slot = cpu.slot /\ m.fail = cpu.fail /\ m.pc = cpu.pc /\ m.R = cpu.R
               /\ m.exl = cpu.exl /\ m.exc = cpu.exc /\ m.resume = cpu.resume /\ m.epc = cpu.epc
    <3>1. w.bd \in BOOLEAN /\ w.ip \in SUBSET Levels /\ w.code \in ExcCodes
      BY ConfigAssumption
    <3>2. QED
      BY <1>2, <2>1, <3>1 DEF Machine
  <2>2. CASE m = [cpu EXCEPT !.ip = @ \ {TimerLevel}]
    BY <1>2, <2>2 DEF Machine
  <2>3. QED
    BY <1>3, <2>1, <2>2
<1>5. QED
  BY <1>1, <1>2, <1>3, <1>4, HandlerStep

LEMMA HandlerJumps ==
    ASSUME TypeOK, NEW user, NEW handler, NEW op, Serves(user, handler, op),
           NEW t \in Address, t \in handler, JUMP_INST(cpu, t)
    PROVE  Simulates(user, handler)
<1> DEFINE n == [cpu EXCEPT !.pc = Minus4(t)]
<1>1. cpu \in Machine
  BY Serving
<1>2. /\ Complete(n) /\ n \in Machine /\ Plus4(n.pc) = t /\ n.slot = cpu.slot /\ n.fail = cpu.fail /\ n.R = cpu.R
      /\ n.exl = cpu.exl /\ n.exc = cpu.exc /\ n.resume = cpu.resume /\ n.epc = cpu.epc
  BY <1>1, JumpLands DEF Serves, InPlace, PlainMachine
<1> HIDE DEF n
<1>3. QED
  BY <1>2, HandlerStep

LEMMA HandlerJ ==
    ASSUME TypeOK, NEW user, NEW handler, InPlace(user, handler), Handling(cpu, user, handler), ExecJ
    PROVE  Simulates(user, handler)
<1>1. Serves(user, handler, "j")
  BY DEF ExecJ, Serves
<1>2. CurrentInst.target \in handler /\ CurrentInst.target \in Address /\ JUMP_INST(cpu, CurrentInst.target)
  BY <1>1, Serving DEF Follow, Inst, ExecJ
<1>3. QED
  BY <1>1, <1>2, HandlerJumps

LEMMA HandlerBranch ==
    ASSUME TypeOK, NEW user, NEW handler, InPlace(user, handler), Handling(cpu, user, handler), ExecBranch
    PROVE  Simulates(user, handler)
<1>1. Serves(user, handler, "branch")
  BY DEF ExecBranch, Serves
<1> DEFINE t == CurrentInst.target
           nullify == CurrentInst.nullify
           over == Plus4(cpu.pc)
<1>2. /\ Updated = cpu /\ cpu \in Machine
      /\ t \in handler /\ t \in Address /\ over \in handler /\ (nullify => Plus4(over) \in handler)
  BY <1>1, Serving DEF Follow, Inst
<1>3. \/ JUMP_INST(cpu, t)
      \/ nullify /\ Complete([cpu EXCEPT !.pc = Plus4(@)])
      \/ Complete(cpu)
  BY <1>2 DEF ExecBranch, InPlace, PlainMachine
<1> HIDE DEF t, nullify
<1>4. CASE JUMP_INST(cpu, t)
  BY <1>1, <1>2, <1>4, HandlerJumps
<1>5. CASE nullify /\ Complete([cpu EXCEPT !.pc = Plus4(@)])
  <2> DEFINE n == [cpu EXCEPT !.pc = Plus4(@)]
  <2>1. /\ n \in Machine /\ n.pc = over /\ n.slot = cpu.slot /\ n.fail = cpu.fail /\ n.R = cpu.R
        /\ n.exl = cpu.exl /\ n.exc = cpu.exc /\ n.resume = cpu.resume /\ n.epc = cpu.epc
    BY <1>2, AddressArithmetic DEF Machine
  <2>2. Complete(n)
    BY <1>5
  <2> HIDE DEF n, over
  <2>3. QED
    BY <1>1, <1>2, <1>5, <2>1, <2>2, HandlerStep
<1>6. CASE Complete(cpu)
  BY <1>1, <1>2, <1>6, HandlerStep
<1>7. QED
  BY <1>3, <1>4, <1>5, <1>6

(* ERET takes the program where it was interrupted: EPC is still there.     *)
LEMMA HandlerERET ==
    ASSUME TypeOK, NEW user, NEW handler, InPlace(user, handler), Handling(cpu, user, handler), ExecERET
    PROVE  Simulates(user, handler)
<1>1. Serves(user, handler, "eret")
  BY DEF ExecERET, Serves
<1>2. /\ Updated = cpu /\ cpu \in Machine /\ ~cpu.slot /\ cpu.fail \in FailModes /\ text' = text
      /\ ProgramCounter(cpu) = cpu.resume
  BY <1>1, Serving
<1> DEFINE m == [cpu EXCEPT !.exl = FALSE, !.resume = NoAddr]
           n == [m EXCEPT !.pc = Minus4(cpu.epc)]
<1>3. /\ cpu.epc \in Address /\ cpu.epc = cpu.resume /\ cpu.resume \in user /\ ~cpu.exc
      /\ m \in Machine /\ m.slot = cpu.slot /\ m.fail = cpu.fail /\ m.R = cpu.R
      /\ ~m.exl /\ m.exc = cpu.exc /\ m.resume = NoAddr
  BY <1>2 DEF Machine, Handling, Interrupted
<1>4. JUMP_INST(m, cpu.epc)
  BY <1>2 DEF ExecERET
<1> HIDE DEF m
<1>5. /\ Complete(n) /\ n \in Machine /\ Plus4(n.pc) = cpu.epc /\ n.slot = m.slot /\ n.fail = m.fail /\ n.R = m.R
      /\ n.exl = m.exl /\ n.exc = m.exc /\ n.resume = m.resume
  BY <1>3, <1>4, JumpLands DEF InPlace, PlainMachine
<1> HIDE DEF n
<1>6. InPlace(user, handler)' /\ ProgramCounter(cpu') = cpu.resume /\ cpu'.R = cpu.R
  BY <1>2, <1>3, <1>5, UserCompletes
<1>7. QED
  BY <1>2, <1>6 DEF Simulates

(* What the fetch takes: an exception that waited, or the fetch's own.      *)
LEMMA FetchedRaised ==
    ASSUME TypeOK, NEW user, NEW handler, InPlace(user, handler), Fetched(cpu.pc).exc
    PROVE  LET f == Fetched(cpu.pc)
           IN  /\ f \in Machine /\ f.slot = cpu.slot /\ f.fail = cpu.fail /\ f.R = cpu.R
               /\ Interrupted(f, user) /\ f.resume = ProgramCounter(cpu)
               /\ f.fail => f.code = ExcCode_Int
<1> DEFINE f == Fetched(cpu.pc)
           b == BadAccess(cpu, ExcCode_IBE, cpu.pc)
<1>1. cpu \in Machine /\ ~cpu.slot /\ cpu.fail \in FailModes /\ cpu.pc \in Address /\ cpu.fail \in BOOLEAN
  BY DEF InPlace, Placed, Machine
<1>2. ExcCode_IBE \in ExcCodes /\ ExcCode_IBE # ExcCode_Int
  BY DEF ExcCodes, ExcCode_IBE, ExcCode_Int
<1>3. CASE Handling(cpu, user, handler)
  <2>1. cpu.pc \in TextAddrs /\ ~cpu.exc
    BY <1>3 DEF Handling, InPlace, Conventional
  <2>2. QED
    BY <2>1 DEF Fetched
<1>4. CASE InUser(cpu, user)
  <2>1. cpu.pc \notin TextAddrs /\ f = b
    BY <1>4 DEF Fetched, InUser
  <2>2. RoundDown(cpu.pc) = cpu.pc
    BY <1>4, UserAddresses DEF InPlace, InUser
  <2>3. /\ b \in Machine /\ ~b.slot /\ b.fail = cpu.fail /\ b.R = cpu.R
        /\ Raises(cpu, ExcCode_IBE) => Raised(b, user) /\ b.resume = cpu.pc
        /\ ~Raises(cpu, ExcCode_IBE) => InUser(b, user)
    BY <1>1, <1>2, <1>4, <2>2, UserFaults
  <2>4. b.exc
    BY <2>1
  <2> HIDE DEF b, f
  <2>5. Raised(b, user) /\ b.resume = cpu.pc
    BY <2>3, <2>4 DEF InUser
  <2>6. ProgramCounter(cpu) = cpu.pc
    BY <1>4 DEF InUser, ProgramCounter
  <2>7. QED
    <3>1. b.slot = cpu.slot
      BY <1>1, <2>3 DEF Machine
    <3>2. QED
      BY <2>1, <2>3, <2>5, <2>6, <3>1 DEF Raised, f
<1>5. CASE Raised(cpu, user)
  <2>1. /\ cpu.exl /\ cpu.exc /\ cpu.resume \in user /\ cpu.epc = cpu.resume /\ cpu.pc = cpu.resume
        /\ cpu.fail => cpu.code = ExcCode_Int
    BY <1>5 DEF Raised, Interrupted
  <2>2. cpu.resume # NoAddr
    BY <2>1, UserAddresses DEF InPlace
  <2>3. ProgramCounter(cpu) = cpu.resume
    BY <2>2 DEF ProgramCounter
  <2>4. CASE cpu.pc \in TextAddrs
    BY <1>1, <2>1, <2>3, <2>4 DEF Fetched, Interrupted
  <2>5. CASE cpu.pc \notin TextAddrs
    <3>1. ~cpu.fail
      BY <1>1, <2>1, <2>5 DEF InPlace, Conventional
    <3>2. RAISE_EXCEPTION(cpu, ExcCode_IBE) =
              [cpu EXCEPT !.exc = TRUE, !.epc = cpu.epc, !.resume = cpu.resume, !.bd = cpu.bd,
                          !.code = ExcCode_IBE, !.exl = TRUE]
      BY <1>1, <1>2, <2>1, <3>1 DEF RAISE_EXCEPTION, Raises, raise_exception, Machine
    <3> DEFINE r == RAISE_EXCEPTION(cpu, ExcCode_IBE)
               q == [r EXCEPT !.bad = cpu.pc]
    <3>3. /\ r \in Machine /\ r.slot = cpu.slot /\ r.fail = cpu.fail /\ r.R = cpu.R
          /\ r.resume = cpu.resume /\ r.epc = cpu.epc /\ r.exl
      BY <1>1, <1>2, <3>2 DEF Machine
    <3>4. f = q
      BY <2>5, <3>1 DEF Fetched, BadAccess, Raises
    <3> HIDE DEF r, f
    <3>5. /\ q \in Machine /\ q.slot = r.slot /\ q.fail = r.fail /\ q.R = r.R
          /\ q.resume = r.resume /\ q.epc = r.epc /\ q.exl = r.exl
      BY <1>1, <3>3 DEF Machine
    <3> HIDE DEF q
    <3>6. QED
      BY <1>1, <2>1, <2>3, <3>1, <3>3, <3>4, <3>5 DEF Interrupted, f
  <2>6. QED
    BY <2>4, <2>5
<1>6. QED
  BY <1>3, <1>4, <1>5 DEF InPlace, Placed

LEMMA FetchEntersHandler ==
    ASSUME TypeOK, NEW user, NEW handler, InPlace(user, handler), TakeAtFetch
    PROVE  Simulates(user, handler)
<1> DEFINE f == Fetched(cpu.pc)
           h == [f EXCEPT !.exc = FALSE]
           e == [h EXCEPT !.exc = FALSE, !.pc = ExceptionAddr]
<1>1. /\ f \in Machine /\ f.slot = cpu.slot /\ f.fail = cpu.fail /\ f.R = cpu.R
      /\ Interrupted(f, user) /\ f.resume = ProgramCounter(cpu)
      /\ f.fail => f.code = ExcCode_Int
  BY FetchedRaised DEF TakeAtFetch
<1>2. cpu' = handle_exception(h) /\ text' = text /\ phase' = "idle"
  BY DEF TakeAtFetch, Return, InPlace
<1> HIDE DEF f
<1>3. h \in Machine /\ h.fail = f.fail /\ h.code = f.code
  BY <1>1 DEF Machine
<1>4. cpu' = e
  BY <1>1, <1>2, <1>3 DEF handle_exception
<1>5. /\ e \in Machine /\ e.slot = f.slot /\ e.fail = f.fail /\ e.R = f.R /\ ~e.exc /\ e.pc = ExceptionAddr
      /\ e.exl = f.exl /\ e.resume = f.resume /\ e.epc = f.epc
  BY <1>1, AddressAssumption DEF Machine
<1> HIDE DEF e, h
<1>6. Placed(e, user, handler)
  BY <1>1, <1>5 DEF InPlace, Placed, Handling, Interrupted, Conventional
<1>7. e.resume # NoAddr
  BY <1>1, <1>5, UserAddresses DEF Interrupted, InPlace
<1>8. QED
  BY <1>1, <1>2, <1>4, <1>5, <1>6, <1>7, InPlaceNext DEF Simulates, ProgramCounter

(* Nothing moves, and what is raised is not lost.                          *)
LEMMA StaysPut ==
    ASSUME NEW user, NEW handler, InPlace(user, handler), text' = text, phase' = "idle",
           cpu' \in Machine, cpu'.slot = cpu.slot, cpu'.fail = cpu.fail, cpu'.R = cpu.R, cpu'.pc = cpu.pc,
           cpu'.exc = cpu.exc, cpu'.exl = cpu.exl, cpu'.resume = cpu.resume, cpu'.epc = cpu.epc, cpu'.code = cpu.code
    PROVE  Simulates(user, handler)
<1>1. Placed(cpu', user, handler)
  BY DEF InPlace, Placed, InUser, Handling, Raised, Interrupted
<1>2. InPlace(user, handler)'
  BY <1>1, InPlaceNext
<1>3. QED
  BY <1>2 DEF Simulates, ProgramCounter

LEMMA ProgramStops ==
    ASSUME TypeOK, NEW user, NEW handler, InPlace(user, handler), CannotExecute
    PROVE  Simulates(user, handler)
<1>1. Executing("none") \/ Executing("undefined")
  BY DEF CannotExecute, Executing
<1>2. cpu.pc \in TextAddrs
  BY <1>1, ExecutingInPlace
<1>3. cpu' = cpu /\ text' = text /\ phase' = "idle"
  BY <1>2 DEF CannotExecute, Fetched, Return, InPlace
<1>4. QED
  BY <1>3, StaysPut DEF InPlace, Placed

LEMMA InterruptRequested ==
    ASSUME TypeOK, NEW user, NEW handler, InPlace(user, handler), NEW level \in Levels,
           RAISE_INTERRUPT(level) \/ CLEAR_INTERRUPT(level)
    PROVE  Simulates(user, handler)
<1>1. PICK ip \in SUBSET Levels : cpu' = [cpu EXCEPT !.ip = ip] /\ text' = text /\ phase' = "idle"
  BY DEF TypeOK, Machine, RAISE_INTERRUPT, CLEAR_INTERRUPT, Outside
<1>2. /\ cpu' \in Machine /\ cpu'.slot = cpu.slot /\ cpu'.fail = cpu.fail /\ cpu'.R = cpu.R /\ cpu'.pc = cpu.pc
      /\ cpu'.exc = cpu.exc /\ cpu'.exl = cpu.exl /\ cpu'.resume = cpu.resume /\ cpu'.epc = cpu.epc
      /\ cpu'.code = cpu.code
  BY <1>1 DEF TypeOK, Machine
<1>3. QED
  BY <1>1, <1>2, StaysPut

(* An interrupt that is accepted waits at the program's next instruction.   *)
LEMMA InterruptTaken ==
    ASSUME TypeOK, NEW user, NEW handler, InPlace(user, handler), EngineInterrupt
    PROVE  Simulates(user, handler)
<1> DEFINE r == [cpu EXCEPT !.exc = TRUE, !.epc = cpu.pc, !.resume = cpu.pc, !.bd = cpu.bd,
                            !.code = ExcCode_Int, !.exl = TRUE]
<1>1. cpu' = raise_exception(cpu, ExcCode_Int) /\ text' = text /\ phase' = "idle" /\ cpu \in Machine /\ ~cpu.slot
  BY DEF EngineInterrupt, Outside, InPlace, Placed, RAISE_EXCEPTION, Raises
<1>2. CASE ~cpu.ie \/ cpu.exl
  <2>1. cpu' = cpu
    BY <1>1, <1>2 DEF raise_exception
  <2>2. QED
    BY <1>1, <2>1, StaysPut
<1>3. CASE cpu.ie /\ ~cpu.exl
  <2>1. InUser(cpu, user)
    BY <1>3 DEF InPlace, Placed, Handling, Raised, Interrupted
  <2>2. RoundDown(cpu.pc) = cpu.pc /\ cpu.pc # NoAddr /\ cpu.pc \in user /\ cpu.pc \in Address
    BY <2>1, UserAddresses DEF InPlace, InUser
  <2>3. cpu' = r
    BY <1>1, <1>3, <2>2 DEF raise_exception, FaultAddress, Machine
  <2>4. /\ r \in Machine /\ r.slot = cpu.slot /\ r.fail = cpu.fail /\ r.R = cpu.R /\ r.pc = cpu.pc
        /\ r.exc /\ r.exl /\ r.epc = cpu.pc /\ r.resume = cpu.pc /\ r.code = ExcCode_Int
    <3>1. ExcCode_Int \in ExcCodes
      BY DEF ExcCodes, ExcCode_Int
    <3>2. r \in Machine
      BY <1>1, <2>2, <3>1 DEF Machine
    <3>3. QED
      BY <1>1, <3>2 DEF Machine
  <2> HIDE DEF r
  <2>5. Placed(r, user, handler)
    BY <2>2, <2>4 DEF InPlace, Placed, Raised, Interrupted
  <2>6. ProgramCounter(cpu) = cpu.pc /\ ProgramCounter(r) = cpu.pc
    BY <2>1, <2>2, <2>4 DEF InUser, ProgramCounter
  <2>7. QED
    BY <1>1, <2>3, <2>4, <2>5, <2>6, InPlaceNext DEF Simulates
<1>4. QED
  BY <1>2, <1>3 DEF TypeOK, Machine

LEMMA UserInstruction ==
    ASSUME TypeOK, NEW user, NEW handler, InPlace(user, handler), run_spim, InUser(cpu, user)
    PROVE  Simulates(user, handler)
<1>1. phase = "idle"
  BY DEF InPlace
<1>2. ~ExecJR /\ ~ExecERET
  <2>1. Runs(user, handler, "jr") \/ Runs(user, handler, "eret") => FALSE
    BY Running DEF UserOps
  <2>2. QED
    BY <2>1 DEF ExecJR, ExecERET, Runs
<1>3. ~LeaveDelaySlot
  BY <1>1 DEF LeaveDelaySlot
<1>4. QED
  BY <1>2, <1>3, FetchEntersHandler, ProgramStops, UserNop, UserAdd, UserTrap, UserIllegal, UserBreak, UserSyscall,
     UserLoad, UserStore, UserMTC0, UserJ, UserBranch DEF run_spim

LEMMA HandlerInstruction ==
    ASSUME TypeOK, NEW user, NEW handler, InPlace(user, handler), run_spim, Handling(cpu, user, handler)
    PROVE  Simulates(user, handler)
<1>1. phase = "idle"
  BY DEF InPlace
<1>2. \A op \in {"add", "trap", "illegal", "break", "syscall", "load", "store", "jr"} : ~Executing(op)
  <2>1. \A op \in {"add", "trap", "illegal", "break", "syscall", "load", "store", "jr"} : ~Serves(user, handler, op)
    BY Serving DEF HandlerOps
  <2>2. QED
    BY <2>1 DEF Serves
<1>3. ~LeaveDelaySlot
  BY <1>1 DEF LeaveDelaySlot
<1>4. ~(ExecAdd \/ ExecTrap \/ ExecIllegal \/ ExecBreak \/ ExecSyscall \/ ExecLoad \/ ExecStore \/ ExecJR)
  BY <1>2 DEF ExecAdd, ExecTrap, ExecIllegal, ExecBreak, ExecSyscall, ExecLoad, ExecStore, ExecJR
<1>5. QED
  BY <1>3, <1>4, FetchEntersHandler, ProgramStops, HandlerNop, HandlerMTC0, HandlerJ, HandlerERET, HandlerBranch
     DEF run_spim

(* Every step of the machine is a step of the program, or none.             *)
LEMMA EveryStepSimulates ==
    ASSUME TypeOK, NEW user, NEW handler, InPlace(user, handler), [Next]_vars
    PROVE  Simulates(user, handler)
<1>1. CASE run_spim
  <2>1. CASE InUser(cpu, user)
    BY <1>1, <2>1, UserInstruction
  <2>2. CASE Handling(cpu, user, handler)
    BY <1>1, <2>2, HandlerInstruction
  <2>3. CASE Raised(cpu, user)
    <3>1. \A op : ~Executing(op)
      BY <2>3, ExecutingInPlace DEF Raised
    <3>2. ~LeaveDelaySlot
      BY DEF LeaveDelaySlot, InPlace
    <3>3. ~(ExecNop \/ ExecAdd \/ ExecTrap \/ ExecIllegal \/ ExecBreak \/ ExecSyscall \/ ExecLoad \/ ExecStore
            \/ ExecMTC0 \/ ExecJ \/ ExecJR \/ ExecERET \/ ExecBranch)
      BY <3>1 DEF ExecNop, ExecAdd, ExecTrap, ExecIllegal, ExecBreak, ExecSyscall, ExecLoad, ExecStore,
                  ExecMTC0, ExecJ, ExecJR, ExecERET, ExecBranch
    <3>4. QED
      BY <1>1, <3>2, <3>3, FetchEntersHandler, ProgramStops DEF run_spim
  <2>4. QED
    BY <2>1, <2>2, <2>3 DEF InPlace, Placed
<1>2. CASE Environment
  <2>1. DisplayAddrs = {}
    BY DEF InPlace, PlainMachine
  <2>2. QED
    BY <1>2, <2>1, InterruptRequested, InterruptTaken DEF Environment
<1>3. CASE UNCHANGED vars
  <2>1. cpu' = cpu /\ text' = text /\ phase' = "idle"
    BY <1>3 DEF vars, InPlace
  <2>2. QED
    BY <2>1, StaysPut DEF TypeOK
<1>4. QED
  BY <1>1, <1>2, <1>3 DEF Next

LEMMA StartsInPlace ==
    ASSUME PlainMachine, Init, NEW user, NEW handler, Conventional(text, user, handler)
    PROVE  InPlace(user, handler) /\ User!Init
<1>1. PICK fail \in FailModes :
       cpu = [pc |-> TextBot, R |-> 0, ie |-> FALSE, exl |-> FALSE, ip |-> {},
              bd |-> FALSE, code |-> 0, epc |-> 0, bad |-> 0, exc |-> FALSE,
              done |-> FALSE, slot |-> FALSE, fail |-> fail, resume |-> NoAddr]
  BY DEF Init
<1>2. cpu \in Machine
  BY <1>1, AddressAssumption, ConfigAssumption DEF Machine, Address, ExcCodes
<1>3. /\ cpu.pc = TextBot /\ cpu.R = 0 /\ ~cpu.exl /\ ~cpu.exc /\ ~cpu.slot /\ cpu.resume = NoAddr
      /\ cpu.fail \in FailModes
  BY <1>1
<1>4. TextBot \in user
  BY DEF Conventional
<1>5. InPlace(user, handler)
  BY <1>2, <1>3, <1>4 DEF InPlace, Placed, InUser, Init
<1>6. User!Init
  BY <1>3 DEF User!Init, Init
<1>7. QED
  BY <1>5, <1>6

(* Interrupts, exceptions and handlers that only acknowledge them are       *)
(* invisible to the program, wherever an interrupt is taken: CpuControl     *)
(* implements UserProgram for every program that keeps the conventions.     *)
THEOREM UserProgramTheorem ==
    ASSUME PlainMachine, \A p \in Programs : \E user, handler : Conventional(p, user, handler)
    PROVE  Spec => ImplementsUserProgram
<1> DEFINE Kept == \E user, handler : InPlace(user, handler)
<1>1. Init => Kept /\ User!Init
  <2>1. SUFFICES ASSUME Init PROVE Kept /\ User!Init
    OBVIOUS
  <2>2. PICK user, handler : Conventional(text, user, handler)
    BY <2>1 DEF Init
  <2>3. QED
    BY <2>1, <2>2, StartsInPlace
<1>2. TypeOK /\ Kept /\ [Next]_vars => Kept' /\ [User!Next]_(User!uvars)
  <2>1. SUFFICES ASSUME TypeOK, Kept, [Next]_vars PROVE Kept' /\ [User!Next]_(User!uvars)
    OBVIOUS
  <2>2. PICK user, handler : InPlace(user, handler)
    BY <2>1
  <2>3. Simulates(user, handler)
    BY <2>1, <2>2, EveryStepSimulates
  <2>4. Kept'
    BY <2>3 DEF Simulates
  <2>5. User!Next \/ UNCHANGED User!uvars
    BY <2>3 DEF Simulates, User!uvars, ProgramCounter
  <2>6. QED
    BY <2>4, <2>5
<1>3. QED
  BY <1>1, <1>2, TypeCorrect, PTL DEF Spec, ImplementsUserProgram, User!Spec
===============================================================================
