---------------------------- MODULE ConditionCodes ----------------------------
(***************************************************************************)
(* The condition codes of the floating-point coprocessor: the compares and  *)
(* set_fpu_cc, the control registers CFC1 and CTC1 copy, and the tests that *)
(* branches and conditional moves make.  A control register is the set of   *)
(* the numbers of its bits; FCCR and FCSR hold every code, each in a place  *)
(* of its own.                                                             *)
(***************************************************************************)
EXTENDS Integers

CONSTANTS Codes,       \* the condition codes a program names
          Conditions,  \* the conditions it compares for, each the relations that meet it
          Images       \* the values it puts in a register for CTC1

ASSUME CodesAssumption == Codes \subseteq 0 .. 7

VARIABLES FCCR, FCSR, FIR,
          word,     \* the general register that CFC1 and CTC1 name
          fpu,      \* should_fail_on_exception; the last test or exception
          history   \* .zero: what code 0 was set to last; .saved: FCSR and FCCR when
                    \* word was read from FCSR; .loose: since FCSR was last written
                    \* whole, FCCR was written, or a code above 1 compared into

fvars == <<FCCR, FCSR, FIR, word, fpu, history>>

RegisterBits == 0 .. 31
NotSaved == [fcsr |-> {}, fccr |-> {32}]
FIR_MASK == {11, 12, 15}
FCCR_MASK == 0 .. 7
FCSR_MASK == {23} \cup 25 .. 31

(* Mutants: every code one bit lower in FCSR; code 0 forgotten when FCCR     *)
(* follows FCSR; unimplemented bits kept in FCSR.                          *)
CodeBelow(cc) == 23 + cc
ToFccrButZero(bits) == {b - 24 : b \in bits \cap 25 .. 31}
Unmasked(bits) == bits

(* FD of a compare: the assembler shifts the code by two, and run_spim does *)
(* not shift it back.                                                      *)
FD(code) == 4 * code

(* 1 << n of a 32-bit word, as the machine shifts.                         *)
BitPlace(n) == n % 32
FcsrBit(cc) == 24 + cc
Written(register, bit, result) == IF result THEN register \cup {bit} ELSE register \ {bit}

set_fpu_cc(result, cc) ==
    /\ FCCR' = Written(FCCR, BitPlace(cc), result)
    /\ FCSR' = Written(FCSR, BitPlace(IF cc = 0 THEN 23 ELSE FcsrBit(cc)), result)

RAISE_EXCEPTION == fpu.fails = FALSE
Raised == [fpu EXCEPT !.last = "FPE"]
Passed == [fpu EXCEPT !.last = "none"]

(* A compare of two operands in the relation given, with the condition of   *)
(* the instruction; with a NaN it also sets the code when it does not raise.*)
Compare(condition, invalid, relation, code) ==
    IF relation = "unordered" /\ invalid /\ RAISE_EXCEPTION
    THEN fpu' = Raised /\ UNCHANGED <<FCCR, FCSR, FIR, word, history>>
    ELSE /\ set_fpu_cc(relation \in condition, FD(code))
         /\ history' = [history EXCEPT !.zero = IF code = 0 THEN relation \in condition ELSE @,
                                      !.loose = @ \/ code >= 2]
         /\ fpu' = Passed
         /\ UNCHANGED <<FIR, word>>

(* BC1F, BC1T, MOVF and MOVT test the bit of the code itself.               *)
Test(code, tf) ==
    /\ fpu' = [fpu EXCEPT !.last = IF (code \in FCCR) = tf THEN "taken" ELSE "not"]
    /\ UNCHANGED <<FCCR, FCSR, FIR, word, history>>

Restorable == [fcsr |-> FCSR, fccr |-> FCCR]
CFC1(register) ==
    /\ word' = register
    /\ history' = [history EXCEPT !.saved = IF history.loose \/ register # FCSR THEN NotSaved ELSE Restorable]
    /\ fpu' = Passed
    /\ UNCHANGED <<FCCR, FCSR, FIR>>

ToFcsr(bits) == {24 + b : b \in bits \cap 1 .. 7} \cup (IF 0 \in bits THEN {23} ELSE {})
ToFccr(bits) == {b - 24 : b \in bits \cap 25 .. 31} \cup (IF 23 \in bits THEN {0} ELSE {})

(* ~0xfe400000: what stays of FCSR has bit 23 and not bit 22.               *)
KeptOfFcsr == RegisterBits \ ({22} \cup 25 .. 31)
Masked(bits) == bits \cap FCSR_MASK

CTC1_FIR == FIR' = FIR_MASK /\ fpu' = Passed /\ UNCHANGED <<FCCR, FCSR, word, history>>

CTC1_FCCR ==
    /\ FCSR' = (FCSR \cap KeptOfFcsr) \cup ToFcsr(word)
    /\ FCCR' = word \cap FCCR_MASK
    /\ history' = [history EXCEPT !.zero = 0 \in word, !.loose = TRUE]
    /\ fpu' = Passed
    /\ UNCHANGED <<FIR, word>>

CTC1_FCSR ==
    /\ FCCR' = ToFccr(word)
    /\ FCSR' = Masked(word)
    /\ history' = [history EXCEPT !.zero = 23 \in word, !.loose = FALSE]
    /\ fpu' = IF word \subseteq FCSR_MASK \/ ~RAISE_EXCEPTION THEN Passed ELSE Raised
    /\ UNCHANGED <<FIR, word>>

(* Any other instruction of the program computes the register.             *)
Li(image) ==
    /\ word' = image
    /\ history' = [history EXCEPT !.saved = NotSaved]
    /\ fpu' = Passed
    /\ UNCHANGED <<FCCR, FCSR, FIR>>

Relations == {"unordered", "equal", "less", "greater"}

CodesInit ==
    /\ FCCR = {} /\ FCSR = {} /\ FIR = FIR_MASK /\ word \in Images
    /\ fpu \in [fails : BOOLEAN, last : {"none"}]
    /\ history = [zero |-> FALSE, loose |-> FALSE, saved |-> NotSaved]

CodesNext ==
    \/ \E condition \in Conditions, invalid \in BOOLEAN, relation \in Relations, code \in Codes :
          Compare(condition, invalid, relation, code)
    \/ \E code \in Codes, tf \in BOOLEAN : Test(code, tf)
    \/ CFC1(FCCR) \/ CFC1(FCSR) \/ CFC1(FIR)
    \/ CTC1_FIR \/ CTC1_FCCR \/ CTC1_FCSR
    \/ \E image \in Images : Li(image)

CodesSpec == CodesInit /\ [][CodesNext]_fvars

-----------------------------------------------------------------------------
Linked(code) == code \in FCCR <=> (IF code = 0 THEN 23 ELSE 24 + code) \in FCSR

(* Codes 1 to 7 are the same in FCCR and FCSR, whoever wrote either; of     *)
(* code 0 FCSR may keep a one that CTC1 cleared in FCCR, never the reverse. *)
CodesLinked == (\A code \in 1 .. 7 : Linked(code)) /\ (0 \in FCCR => 23 \in FCSR)

(* Code 0, which an instruction means that names none, is what the last     *)
(* compare into it or copy to a control register made it: no compare into  *)
(* another code, wherever its bit falls, changes what branches see.        *)
CodeZeroKept == 0 \in FCCR <=> history.zero

(* A handler may save FCSR with CFC1, use the coprocessor and restore FCSR  *)
(* with CTC1: no exception is raised and every code comes back, in both    *)
(* registers, unless a code above 1 or FCCR itself was written before.     *)
SavedStatusRestored ==
    [][CTC1_FCSR /\ history.saved # NotSaved =>
          FCSR' = history.saved.fcsr /\ FCCR' = history.saved.fccr /\ fpu'.last # "FPE"]_fvars
=============================================================================
