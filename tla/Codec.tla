-------------------------------- MODULE Codec --------------------------------
(***************************************************************************)
(* The instructions the assembler builds, the words inst_encode makes of    *)
(* them and the instructions inst_decode makes of words.  Text memory holds *)
(* instruction objects: a program that copies code loads ENCODING, and its  *)
(* store decodes the word again.                                           *)
(*                                                                         *)
(* An instruction has the operand fields of a word: an immediate is in rd,  *)
(* sa and fn, a jump target in all five, shamt and FD are sa, FS is rd, FT  *)
(* is rt and COND is rs, as the accessors have it.                         *)
(***************************************************************************)
EXTENDS InstructionTable, Powers, Sequences

CONSTANTS Numbers,      \* the registers and shift amounts operands name
          CodesNamed,   \* the condition codes they name
          Distances     \* from a branch to its label, in bytes

(* The instructions are four bytes apart, and a condition code has three    *)
(* bits.                                                                   *)
ASSUME OperandsAssumption ==
    /\ Distances \subseteq Int /\ \A d \in Distances : d % 4 = 0
    /\ Numbers \subseteq Int
    /\ CodesNamed \subseteq 0 .. 7

VARIABLES made,   \* the instruction the assembler stored
          dist,   \* the distance it was resolved with, if it is a branch
          slots,  \* config.delayed_branches
          slot    \* the text slot it, or the copy of it, is in

cvars == <<made, dist, slots, slot>>

Operands == {"rs", "rt", "rd", "sa", "fn"}
ImmFields == {"rd", "sa", "fn"}

(* The operands each format has, in an instruction and in its word.         *)
Slots == [BC |-> {"rt"} \cup ImmFields, B1 |-> {"rs"} \cup ImmFields, I1s |-> {"rs"} \cup ImmFields,
          I1t |-> {"rs", "rt"} \cup ImmFields, I2 |-> {"rs", "rt"} \cup ImmFields,
          B2 |-> {"rs", "rt"} \cup ImmFields, I2a |-> {"rs", "rt"} \cup ImmFields,
          FP_I2a |-> {"rs", "rt"} \cup ImmFields, R1s |-> {"rs"}, R1d |-> {"rd"}, R2td |-> {"rt", "rd"},
          R2st |-> {"rs", "rt"}, R2ds |-> {"rs", "rd"}, R2sh |-> {"rt", "rd", "sa"}, R3 |-> {"rs", "rt", "rd"},
          R3sh |-> {"rs", "rt", "rd"}, MOVC |-> {"rs", "rt", "rd"}, FP_R2ds |-> {"rd", "sa"},
          FP_R2ts |-> {"rt", "rd"}, FP_R3 |-> {"rt", "rd", "sa"}, FP_CMP |-> {"rt", "rd", "sa", "fn"},
          FP_MOVC |-> {"rt", "rd", "sa"}, J |-> Operands, NOARG |-> {}]
BranchTypes == {"BC", "B1", "B2"}
FloatForms == {"FP_R2ds", "FP_R3", "FP_CMP", "FP_MOVC"}

Shown == [Slots EXCEPT !.I1t = @ \ {"rs"}, !.FP_CMP = {"rs", "rt", "rd", "sa"}]

-----------------------------------------------------------------------------
(* Mutants: two members missing from the list of branches, a branch's       *)
(* condition left out of the key, the sign lost from a branch's field.     *)
BranchesForgotten(op) == op \in {row[1] : row \in {r \in Rows : r[2] \in BranchTypes}} \ {"bgezall", "bltzl"}
KeyWithoutCondition(w) ==
    [f \in DOMAIN w |-> IF f \in {"op", "rs"} \/ (f = "fn" /\ w.op \in {0, 16, 17, 28}) THEN w[f] ELSE 0]
FieldWithoutSign(d, delayed) == (d \div 4) % 32768

opcode_is_branch(op) ==
    op \in {"bc1f", "bc1fl", "bc1t", "bc1tl", "bc2f", "bc2fl", "bc2t", "bc2tl", "beq", "beql", "bgez", "bgezal",
            "bgezall", "bgezl", "bgtz", "bgtzl", "blez", "blezl", "bltz", "bltzal", "bltzall", "bltzl", "bne", "bnel"}
opcode_is_nullified_branch(op) ==
    op \in {"bc1fl", "bc1tl", "bc2fl", "bc2tl", "beql", "bgezall", "bgezl", "bgtzl", "blezl", "bltzall", "bltzl", "bnel"}
opcode_is_true_branch(op) == op \in {"bc1t", "bc1tl", "bc2t", "bc2tl"}
opcode_is_jump(op) == op \in {"j", "jal"}
opcode_is_load_store(op) ==
    op \in {"lb", "lbu", "lh", "lhu", "ll", "ldc1", "ldc2", "lw", "lwc1", "lwc2", "lwl", "lwr",
            "sb", "sc", "sh", "sdc1", "sdc2", "sw", "swc1", "swc2", "swl", "swr"}

(* The macro sets the upper half when bit 15 is set and does nothing else.  *)
SIGN_EX(x) == IF (x % 65536) \div 32768 = 1 THEN (x % 65536) - 65536 ELSE x

(* What a resolved branch is given, one less when the instruction in its    *)
(* delay slot is executed first, and where it then leads from its PC.       *)
BranchField(d, delayed) == ((SIGN_EX(d) \div 4) - (IF delayed THEN 1 ELSE 0)) % 65536
SET_IMM(field) == [rd |-> field \div 2048, sa |-> (field \div 64) % 32, fn |-> field % 64]
IOFFSET(i) ==
    LET field == i.rd * 2048 + i.sa * 64 + i.fn IN IF field >= 32768 THEN field - 65536 ELSE field
IDISP(i) == SIGN_EX(4 * IOFFSET(i))

cc_to_rt(cc, nd, tf) == 4 * cc + 2 * nd + tf
Flag(b) == IF b THEN 1 ELSE 0

(* The condition of a compare, as r_cond_type_inst chooses it: COND_UN 1,   *)
(* COND_EQ 2, COND_LT 4, COND_IN 8.                                        *)
CompareConditions ==
    {<<"f", 0>>, <<"un", 1>>, <<"eq", 2>>, <<"ueq", 1 + 2>>, <<"olt", 4>>, <<"ult", 1 + 4>>, <<"ole", 2 + 4>>,
     <<"ule", 1 + 2 + 4>>, <<"sf", 8>>, <<"ngle", 1 + 8>>, <<"seq", 2 + 8>>, <<"ngl", 1 + 2 + 8>>,
     <<"lt", 4 + 8>>, <<"nge", 1 + 4 + 8>>, <<"le", 2 + 4 + 8>>, <<"ngt", 1 + 2 + 4 + 8>>}
CondOf(op) == (CHOOSE c \in CompareConditions : op \in {"c." \o c[1] \o ".s", "c." \o c[1] \o ".d"})[2]

OnCode == {"movf", "movt", "movf.s", "movt.s", "movf.d", "movt.d"}

(* The values the grammar's actions give to one operand of an instruction.  *)
Given(op, f) ==
    LET type == Type[op]
    IN  CASE type = "BC" /\ f = "rt" ->
                {cc_to_rt(cc, Flag(opcode_is_nullified_branch(op)), Flag(opcode_is_true_branch(op))) : cc \in CodesNamed}
          [] op \in OnCode /\ f = "rt" -> {cc_to_rt(cc, 0, 0) : cc \in CodesNamed}
          [] type = "FP_CMP" /\ f = "sa" -> {4 * cc : cc \in CodesNamed}
          [] type = "FP_CMP" /\ f = "rs" -> {CondOf(op)}
          [] op = "break" /\ f = "rd" -> {0, 1}
          [] f = "fn" /\ type # "FP_CMP" /\ f \in Slots[type] -> Numbers \cup {63}
          [] OTHER -> IF f \in Slots[type] /\ f # "fn" THEN Numbers ELSE {0}

Instruction(op, d, delayed) ==
    LET all == [opcode : {op}, rs : Given(op, "rs"), rt : Given(op, "rt"), rd : Given(op, "rd"),
                sa : Given(op, "sa"), fn : Given(op, "fn")]
        field == SET_IMM(BranchField(d, delayed))
    IN  IF Type[op] \in BranchTypes
        THEN {[i EXCEPT !.rd = field.rd, !.sa = field.sa, !.fn = field.fn] : i \in all} ELSE all

-----------------------------------------------------------------------------
(* x | y of two fields, which have six bits at most.                        *)
OrField(x, y) ==
    LET common == [n \in 0 .. 5 |-> BitOf(x, n) * BitOf(y, n) * Pow2[n]]
    IN  x + y - (common[0] + common[1] + common[2] + common[3] + common[4] + common[5])

(* Each operand is or-ed into the word of the operation; a condition code   *)
(* goes where RT has it, without the two bits below, and COND into fn.      *)
inst_encode(i) ==
    LET type == Type[i.opcode]
        operand(f) == CASE f = "rt" /\ type \in {"BC", "FP_MOVC"} -> i.rt - (i.rt % 4)
                   [] f = "fn" /\ type = "FP_CMP" -> i.rs
                   [] OTHER -> i[f]
    IN  [f \in DOMAIN Template[i.opcode] |->
            IF f \in Slots[type] THEN OrField(Template[i.opcode][f], operand(f)) ELSE Template[i.opcode][f]]

Only(fields, w) == [f \in DOMAIN w |-> IF f \in fields THEN w[f] ELSE 0]

(* The part of a word that is looked up.                                   *)
Key(w) ==
    CASE w.op \in {0, 28} -> Only({"op", "fn"}, w)
      [] w.op = 1 -> Only({"op", "rt"}, w)
      [] w.op = 16 -> [Only({"op", "rs", "fn"}, w) EXCEPT !.fn = @ % 32]
      [] w.op = 17 /\ w.rs \div 8 = 1 -> [Only({"op", "rs", "rt"}, w) EXCEPT !.rt = @ % 2]
      [] w.op = 17 /\ w.rs \div 8 # 1 -> Only({"op", "rs", "fn"}, w)
      [] w.op \in {18, 19} -> Only({"op", "rs"}, w)
      [] OTHER -> Only({"op"}, w)

Invalid == [opcode |-> "invalid", rs |-> 0, rt |-> 0, rd |-> 0, sa |-> 0, fn |-> 0]
Operated(op, fields) == [f \in DOMAIN Invalid |-> IF f = "opcode" THEN op ELSE fields[f]]

(* The formats of the coprocessor's arithmetic come back with FS in RS and  *)
(* FD in RD, and COND over RS; a target loses bit 24.                      *)
Decoded(op, w) ==
    LET type == Type[op]
        kept == Operated(op, Only(IF type = "BC" THEN {"rs"} \cup Slots[type] ELSE Slots[type], w))
    IN  CASE type \in FloatForms ->
                [Invalid EXCEPT !.opcode = op, !.rs = IF type = "FP_CMP" THEN w.fn % 16 ELSE w.rd,
                                !.rt = IF type = "FP_R2ds" THEN 0 ELSE w.rt, !.rd = w.sa]
          [] type = "J" -> [kept EXCEPT !.rs = @ - 8 * ((@ \div 8) % 2)]
          [] OTHER -> kept

(* The lookup may find any row of an actual opcode that several share.      *)
inst_decode(w) ==
    LET found == {op \in DOMAIN Template : Type[op] # "FP_R4" /\ Template[op] = Key(w)}
    IN  IF found = {} THEN {Invalid} ELSE {Decoded(op, w) : op \in found}

Copied == slot.copied

(* A word load of the slot, and a word store of what it gave.               *)
CopyCode ==
    /\ ~Copied
    /\ \E i \in inst_decode(slot.encoding) : slot' = [copied |-> TRUE, inst |-> i, encoding |-> slot.encoding]
    /\ UNCHANGED <<made, dist, slots>>

(* ssnop is assembled as an sll of $0.                                      *)
CodecInit ==
    /\ \E row \in {r \in Assembled : r[1] # "ssnop"} :
       \E d \in IF row[2] \in BranchTypes THEN Distances ELSE {0},
          delayed \in IF row[2] \in BranchTypes THEN BOOLEAN ELSE {FALSE} :
          /\ dist = d /\ slots = delayed
          /\ made \in Instruction(row[1], d, delayed)
    /\ slot = [copied |-> FALSE, inst |-> made, encoding |-> inst_encode(made)]

CodecNext == CopyCode

CodecSpec == CodecInit /\ [][CodecNext]_cvars

-----------------------------------------------------------------------------
(* What a copy may not keep: the operands of the coprocessor's arithmetic,  *)
(* which come back in other places; the condition of movt, whose word is   *)
(* looked up without the bit that tells it from movf; the code of break;   *)
(* all of cop2; bit 24 of a jump's target.                                 *)
LostInCopy(i) ==
    \/ Type[i.opcode] \in FloatForms \/ i.opcode \in {"movt", "break", "cop2"}
    \/ Type[i.opcode] = "J" /\ (i.rs \div 8) % 2 = 1

(* One case of run_spim executes all branches on a condition of one         *)
(* coprocessor, and tells them apart by ND and TF.                         *)
OneCase == {{"bc1f", "bc1fl", "bc1t", "bc1tl"}, {"bc2f", "bc2fl", "bc2t", "bc2tl"}}
SameOperation(a, b) == a = b \/ \E case \in OneCase : {a, b} \subseteq case

(* A program that copies code runs the same instructions: what is read from *)
(* text and stored back does the same to the same operands.                *)
CopyKeepsMeaning ==
    slot.copied /\ ~LostInCopy(made) =>
        /\ SameOperation(slot.inst.opcode, made.opcode)
        /\ \A f \in Shown[Type[made.opcode]] : slot.inst[f] = made[f]

(* Labels are resolved by the kind of instruction, which hand-written lists *)
(* say; the word has the field their format says.  The lists agree with the *)
(* formats, and with the bits of the words.                                *)
ClassesMatchFormats ==
    LET type == Type[made.opcode]
    IN  /\ opcode_is_branch(made.opcode) <=> type \in BranchTypes
        /\ opcode_is_jump(made.opcode) <=> type = "J" /\ made.opcode # "cop2"
        /\ opcode_is_load_store(made.opcode) <=> type \in {"I2a", "FP_I2a"}
        /\ opcode_is_nullified_branch(made.opcode) => opcode_is_branch(made.opcode)
        /\ opcode_is_branch(made.opcode) /\ type # "BC" =>
               (opcode_is_nullified_branch(made.opcode) <=>
                   IF type = "B1" /\ Template[made.opcode].op = 1
                   THEN Template[made.opcode].rt % 4 >= 2 ELSE Template[made.opcode].op >= 16)
        /\ type = "BC" => Template[made.opcode].rt = made.rt % 4

(* A branch within 32 KB of its label leads there, before and after a copy, *)
(* with and without a delay slot, from the first to the last byte of that   *)
(* range.                                                                  *)
BranchReachesLabel ==
    Type[made.opcode] \in BranchTypes /\ -32768 <= dist /\ dist <= 32767 =>
        IDISP(slot.inst) + (IF slots THEN 4 ELSE 0) = dist
=============================================================================
