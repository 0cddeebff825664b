-------------------------------- MODULE Pseudo --------------------------------
(***************************************************************************)
(* The pseudo instructions that the assembler writes out as several: unary  *)
(* ones, rotations, subtractions and other operations with an immediate of  *)
(* a whole word, and the branches on an order, and what they do when the    *)
(* machine executes them, without delayed branches: with them a branch that *)
(* is taken is executed again and again (JUMP_INST of CpuControl).  Register *)
(* 0 is zero and register 1, $at, is the assembler's own.  A word has the   *)
(* width of MachineWord, an immediate field half of it.                    *)
(***************************************************************************)
EXTENDS MachineWord, Sequences

CONSTANTS Dests, Sources1, Sources2   \* the registers a program names, $at not among them

AT == 1

ASSUME RegistersAssumption ==
    Dests \cup Sources1 \cup Sources2 \subseteq Nat \ {AT} /\ 0 \notin Dests

VARIABLES
    pseudo,   \* the pseudo instruction the program has
    first,    \* the registers before it
    now,      \* the registers
    at,       \* the instruction to execute next
    outcome   \* what the sequence did, if it is through

pvars == <<pseudo, first, now, at, outcome>>

(* Mutant: any half word taken to fit a field that is sign-extended.        *)
FitsAnyField(op, value) == value < B \/ Unsigned(value + B \div 2) < B

R3(op, d, a, b) == [op |-> op, d |-> d, a |-> a, b |-> b, imm |-> 0, to |-> 0]
R2Imm(op, d, a, value) == [op |-> op, d |-> d, a |-> a, b |-> 0, imm |-> value, to |-> 0]

(* A branch to the label of the pseudo instruction has .to = 0, one to the  *)
(* n-th instruction from itself n.                                         *)
Branch(op, a, b, to) == [op |-> op, d |-> 0, a |-> a, b |-> b, imm |-> 0, to |-> to]

RegForm == [addi |-> "add", addiu |-> "addu", slti |-> "slt", sltiu |-> "sltu",
            andi |-> "and", ori |-> "or", xori |-> "xor"]
SignExtending == {"addi", "addiu", "slti", "sltiu"}
Fits(op, value) == IF op \in SignExtending THEN Unsigned(value + B \div 2) < B ELSE value < B

(* A word is made of its upper half, its lower half, or both through $at.   *)
produce_immediate(rt, value) ==
    IF value % B = 0 THEN <<R2Imm("lui", rt, 0, value \div B)>>
    ELSE IF value < B THEN <<R2Imm("ori", rt, 0, value)>>
    ELSE <<R2Imm("lui", AT, 0, value \div B), R2Imm("ori", rt, AT, value % B)>>

(* A value that does not fit goes to the register itself if nothing is      *)
(* added to it, else to $at.                                               *)
i_type_inst(op, rt, rs, value) ==
    IF Fits(op, value) THEN <<R2Imm(op, rt, rs, value % B)>>
    ELSE IF op \in {"ori", "addi", "addiu"} /\ rs = 0 THEN produce_immediate(rt, value)
    ELSE produce_immediate(AT, value) \o <<R3(RegForm[op], rt, rs, AT)>>

Unary(op, d, s) ==
    CASE op = "abs" -> (IF d # s THEN <<R3("addu", d, 0, s)>> ELSE <<>>)
                           \o <<Branch("bgez", s, 0, 2), R3("sub", d, 0, s)>>
      [] op = "neg" -> <<R3("sub", d, 0, s)>>
      [] op = "negu" -> <<R3("subu", d, 0, s)>>
      [] op = "not" -> <<R3("nor", d, s, 0)>>
      [] op = "move" -> <<R3("addu", d, 0, s)>>

(* sllv and srlv shift their second operand by the first.                   *)
Rotation(op, d, s, t) ==
    LET back == IF op = "ror" THEN "sllv" ELSE "srlv"
        forth == IF op = "ror" THEN "srlv" ELSE "sllv"
    IN  <<R3("subu", AT, 0, t), R3(back, AT, AT, s), R3(forth, d, t, s), R3("or", d, d, AT)>>

Opposite(dist) == Bits - dist
RotationImm(op, d, s, dist) ==
    LET back == IF op = "ror" THEN "sll" ELSE "srl"
        forth == IF op = "ror" THEN "srl" ELSE "sll"
    IN  <<R2Imm(back, AT, s, Opposite(dist)), R2Imm(forth, d, s, dist), R3("or", d, d, AT)>>

(* The operations whose immediate form is an instruction, those whose       *)
(* immediate goes to $at, and subtraction, which adds the opposite.         *)
op_to_imm_op == [add |-> "addi", addu |-> "addiu", slt |-> "slti", sltu |-> "sltiu",
                 and |-> "andi", or |-> "ori", xor |-> "xori"]
BinaryImm(op, d, s, value) ==
    CASE op \in DOMAIN op_to_imm_op -> i_type_inst(op_to_imm_op[op], d, s, value)
      [] op = "nor" -> IF value = 0 THEN <<R3(op, d, s, 0)>>
                       ELSE i_type_inst("ori", AT, 0, value) \o <<R3(op, d, s, AT)>>
      [] op \in {"sub", "subu"} -> i_type_inst(IF op = "sub" THEN "addi" ELSE "addiu", d, s, Unsigned(-value))
      [] op = "li" -> i_type_inst("ori", d, 0, value)

(* The branches on an order compare into $at.                               *)
Compared(op) == IF op \in {"bgt", "bge", "blt", "ble"} THEN "slt" ELSE "sltu"
Ordered(op, s, t) ==
    CASE op \in {"bgt", "bgtu"} -> <<R3(Compared(op), AT, t, s), Branch("bne", 0, AT, 0)>>
      [] op \in {"bge", "bgeu"} -> <<R3(Compared(op), AT, s, t), Branch("beq", 0, AT, 0)>>
      [] op \in {"blt", "bltu"} -> <<R3(Compared(op), AT, s, t), Branch("bne", 0, AT, 0)>>
      [] op \in {"ble", "bleu"} -> <<R3(Compared(op), AT, t, s), Branch("beq", 0, AT, 0)>>

LessImm(op) == op_to_imm_op[Compared(op)]
OrderedImm(op, s, value) ==
    CASE op = "bgt" -> i_type_inst("slti", AT, s, Unsigned(value + 1)) \o <<Branch("beq", 0, AT, 0)>>
      [] op = "ble" -> i_type_inst("slti", AT, s, Unsigned(value + 1)) \o <<Branch("bne", 0, AT, 0)>>
      [] op = "bgtu" -> i_type_inst("ori", AT, 0, value)
             \o <<Branch("beq", s, AT, 3), R3("sltu", AT, s, AT), Branch("beq", 0, AT, 0)>>
      [] op = "bleu" -> i_type_inst("ori", AT, 0, value)
             \o <<Branch("beq", s, AT, 0), R3("sltu", AT, s, AT), Branch("bne", 0, AT, 0)>>
      [] op \in {"bge", "bgeu"} -> i_type_inst(LessImm(op), AT, s, value) \o <<Branch("beq", 0, AT, 0)>>
      [] op \in {"blt", "bltu"} -> i_type_inst(LessImm(op), AT, s, value) \o <<Branch("bne", 0, AT, 0)>>
EqualImm(op, s, value) ==
    IF value = 0 THEN <<Branch(op, s, 0, 0)>> ELSE i_type_inst("ori", AT, 0, value) \o <<Branch(op, s, AT, 0)>>

UnaryOps == {"abs", "neg", "negu", "not", "move"}
RotateOps == {"ror", "rol"}
BinaryOps == DOMAIN op_to_imm_op \cup {"nor", "sub", "subu", "li"}
OrderOps == {"bgt", "bge", "blt", "ble", "bgtu", "bgeu", "bltu", "bleu"}
EqualOps == {"beq", "bne"}

(* The pseudo instructions: with a register at the end, or an immediate.    *)
NoValue == -1
Forms ==
    [op : UnaryOps, d : Dests, s : Sources1, t : {0}, value : {NoValue}]
        \cup [op : RotateOps, d : Dests, s : Sources1, t : Sources2, value : {NoValue}]
        \cup [op : RotateOps, d : Dests, s : Sources1, t : {0}, value : 0 .. Bits - 1]
        \cup [op : BinaryOps, d : Dests, s : Sources1, t : {0}, value : Reg]
        \cup [op : OrderOps, d : {0}, s : Sources1, t : Sources2, value : {NoValue}]
        \cup [op : OrderOps \cup EqualOps, d : {0}, s : Sources1, t : {0}, value : Reg]

Expansion(p) ==
    CASE p.op \in UnaryOps -> Unary(p.op, p.d, p.s)
      [] p.op \in RotateOps -> IF p.value = NoValue THEN Rotation(p.op, p.d, p.s, p.t)
                               ELSE RotationImm(p.op, p.d, p.s, p.value)
      [] p.op \in BinaryOps -> BinaryImm(p.op, p.d, p.s, p.value)
      [] p.op \in OrderOps -> IF p.value = NoValue THEN Ordered(p.op, p.s, p.t) ELSE OrderedImm(p.op, p.s, p.value)
      [] p.op \in EqualOps -> EqualImm(p.op, p.s, p.value)

-----------------------------------------------------------------------------
OneIf(b) == IF b THEN 1 ELSE 0

(* x & y, by the bits that are set in both, and x | y and x ^ y from it.    *)
CommonBits(x, y) ==
    LET sum[n \in Nat] == IF n = 0 THEN 0 ELSE sum[n - 1] + BitOf(x, n - 1) * BitOf(y, n - 1) * Pow2[n - 1]
    IN  sum
BitAnd(x, y) == CommonBits(x, y)[Bits]
BitOr(x, y) == x + y - BitAnd(x, y)
BitXor(x, y) == x + y - 2 * BitAnd(x, y)

(* What an instruction that is no branch writes, and whether it raises Ov.  *)
Operand(i, r) ==
    IF i.op \notin DOMAIN RegForm THEN r[i.b] ELSE IF i.op \in SignExtending THEN SignExtended(i.imm) ELSE i.imm
Operation(i) == IF i.op \in DOMAIN RegForm THEN RegForm[i.op] ELSE i.op
Value(i, r) ==
    LET x == r[i.a]
        y == Operand(i, r)
        op == Operation(i)
    IN  CASE op \in {"add", "addu"} -> Unsigned(x + y)
          [] op \in {"sub", "subu"} -> Unsigned(x - y)
          [] op = "and" -> BitAnd(x, y)
          [] op = "or" -> BitOr(x, y)
          [] op = "xor" -> BitXor(x, y)
          [] op = "nor" -> W - 1 - BitOr(x, y)
          [] op = "slt" -> OneIf(Signed(x) < Signed(y))
          [] op = "sltu" -> OneIf(x < y)
          [] op = "sllv" -> LeftShift(y, x % Bits)
          [] op = "srlv" -> RightShift(y, x % Bits)
          [] op = "sll" -> LeftShift(x, i.imm % Bits)
          [] op = "srl" -> RightShift(x, i.imm % Bits)
          [] op = "lui" -> i.imm * B
Overflows(i, r) ==
    LET same == SIGN_BIT(r[i.a]) = SIGN_BIT(Operand(i, r))
    IN  /\ Operation(i) \in {"add", "sub"} /\ (same <=> Operation(i) = "add")
        /\ SIGN_BIT(Value(i, r)) # SIGN_BIT(r[i.a])

Taken(i, r) ==
    CASE i.op = "beq" -> r[i.a] = r[i.b]
      [] i.op = "bne" -> r[i.a] # r[i.b]
      [] i.op = "bgez" -> ~SIGN_BIT(r[i.a])

Code == Expansion(pseudo)
IsBranch(i) == i.op \in {"beq", "bne", "bgez"}
Through(next) == IF next > Len(Code) THEN "done" ELSE "running"
Executed(i, r) == IF Overflows(i, r) THEN r ELSE [r EXCEPT ![i.d] = Value(i, r)]

Compute ==
    LET i == Code[at]
    IN  /\ outcome = "running" /\ ~IsBranch(i)
        /\ now' = Executed(i, now)
        /\ at' = at + 1
        /\ outcome' = IF Overflows(i, now) THEN "overflow" ELSE Through(at + 1)
        /\ UNCHANGED <<pseudo, first>>

Jump ==
    LET i == Code[at]
        taken == Taken(i, now)
        next == at + IF taken THEN i.to ELSE 1
    IN  /\ outcome = "running" /\ IsBranch(i)
        /\ at' = next
        /\ outcome' = IF taken /\ i.to = 0 THEN "taken" ELSE Through(next)
        /\ UNCHANGED <<pseudo, first, now>>

Registers == {0, AT} \cup Dests \cup Sources1 \cup Sources2
Stale == W - 2   \* what a register holds that the instruction does not read

PseudoInit ==
    /\ pseudo \in Forms
    /\ \E x, y \in Reg :
          /\ pseudo.t = 0 => y = 0
          /\ first = [n \in Registers |-> IF n = 0 THEN 0 ELSE IF n = pseudo.s THEN x
                                          ELSE IF n = pseudo.t THEN y ELSE Stale]
    /\ now = first /\ at = 1 /\ outcome = "running"

PseudoNext == Compute \/ Jump

PseudoSpec == PseudoInit /\ [][PseudoNext]_pvars

-----------------------------------------------------------------------------
X == first[pseudo.s]
Y == IF pseudo.value = NoValue THEN first[pseudo.t] ELSE pseudo.value
Immediate == pseudo.value # NoValue

(* The signed numbers that the arithmetic stands for.                       *)
InRange(n) == -(W \div 2) <= n /\ n < W \div 2
Meant ==
    CASE pseudo.op = "abs" -> IF Signed(X) < 0 THEN -Signed(X) ELSE Signed(X)
      [] pseudo.op \in {"neg", "negu"} -> -Signed(X)
      [] pseudo.op = "move" -> Signed(X)
      [] pseudo.op = "not" -> -Signed(X) - 1
      [] pseudo.op \in {"add", "addu"} -> Signed(X) + Signed(Y)
      [] pseudo.op \in {"sub", "subu"} -> Signed(X) - Signed(Y)
      [] pseudo.op = "li" -> Signed(Y)
      [] pseudo.op = "slt" -> IF Signed(X) < Signed(Y) THEN 1 ELSE 0
      [] pseudo.op = "sltu" -> IF X < Y THEN 1 ELSE 0
Trapping == pseudo.op \in {"abs", "neg", "add", "sub"} /\ ~InRange(Meant)

(* The bits of the others.                                                 *)
WantedBit(i) ==
    LET x == BitOf(X, i)
        y == BitOf(Y, i)
    IN  CASE pseudo.op = "and" -> x * y
          [] pseudo.op = "or" -> (x + y + x * y) % 2
          [] pseudo.op = "xor" -> (x + y) % 2
          [] pseudo.op = "nor" -> (1 - x) * (1 - y)
          [] pseudo.op = "ror" -> BitOf(X, (i + Y) % Bits)
          [] pseudo.op = "rol" -> BitOf(X, (i - Y) % Bits)
BitOps == {"and", "or", "xor", "nor", "ror", "rol"}

Holds ==
    CASE pseudo.op = "bgt" -> Signed(X) > Signed(Y)
      [] pseudo.op = "bge" -> Signed(X) >= Signed(Y)
      [] pseudo.op = "blt" -> Signed(X) < Signed(Y)
      [] pseudo.op = "ble" -> Signed(X) <= Signed(Y)
      [] pseudo.op = "bgtu" -> X > Y
      [] pseudo.op = "bgeu" -> X >= Y
      [] pseudo.op = "bltu" -> X < Y
      [] pseudo.op = "bleu" -> X <= Y
      [] pseudo.op = "beq" -> X = Y
      [] pseudo.op = "bne" -> X # Y

(* One more than the greatest wraps, in bgt and ble, and so does the        *)
(* opposite of the least, in sub.                                          *)
Wraps ==
    \/ pseudo.op \in {"bgt", "ble"} /\ Immediate /\ Y = W \div 2 - 1
    \/ pseudo.op = "sub" /\ Y = W \div 2

(* A pseudo instruction does what its name says, whichever registers and    *)
(* immediate it names, $0 and the destination among the sources: it leaves  *)
(* the exact result, traps exactly when there is none, branches exactly     *)
(* when the order holds, and changes no other register but $at.  Of the     *)
(* immediates that wrap only the last is claimed: what bgt, ble and sub do  *)
(* with them is not what their names say.                                  *)
PseudoMeansItsName ==
    outcome # "running" =>
        /\ \A n \in Registers \ {AT, pseudo.d} : now[n] = first[n]
        /\ ~Wraps =>
               /\ pseudo.op \in OrderOps \cup EqualOps => outcome = IF Holds THEN "taken" ELSE "done"
               /\ pseudo.op \in BitOps => /\ outcome = "done"
                                          /\ \A i \in 0 .. Bits - 1 : BitOf(now[pseudo.d], i) = WantedBit(i)
               /\ pseudo.op \in (UnaryOps \cup BinaryOps) \ BitOps =>
                      /\ outcome = IF Trapping THEN "overflow" ELSE "done"
                      /\ outcome = "done" => now[pseudo.d] = Unsigned(Meant)
=============================================================================
