---------------------------- MODULE WordOperations ----------------------------
(***************************************************************************)
(* The shifts, comparisons and traps of run_spim.  A register is read as    *)
(* signed or unsigned by the type the code gives it, and an immediate is a  *)
(* signed half word before anything else.  The immediate and the shift      *)
(* amount of an instruction are taken from rt and rs, which have every      *)
(* value.                                                                  *)
(***************************************************************************)
EXTENDS Operands

VARIABLE result    \* the last instruction, and what it wrote or whether it trapped

wvars == <<rs, rt, result>>

Imm == rt % B
Shamt == rs % Bits

Sets(op, value) == result' = <<op, value>> /\ UNCHANGED <<rs, rt>>
Truth(b) == IF b THEN 1 ELSE 0

Sll == Sets("sll", LeftShift(rt, Shamt))
Srl == Sets("srl", RightShift(rt, Shamt))
Sra == Sets("sra", SignedShift(rt, Shamt))

Slt == Sets("slt", Truth(Signed(rs) < Signed(rt)))
Sltu == Sets("sltu", Truth(rs < rt))
Slti == Sets("slti", Truth(Signed(rs) < Signed(SignExtended(Imm))))
Sltiu == Sets("sltiu", Truth(rs < SignExtended(Imm)))

(* A trap instruction raises ExcCode_Tr when its condition holds.           *)
Traps(op, condition) == Sets(op, Truth(condition))
Teq == Traps("teq", rs = rt) \/ Traps("teqi", rs = SignExtended(Imm))
Tne == Traps("tne", rs # rt) \/ Traps("tnei", rs # SignExtended(Imm))
Tge == Traps("tge", Signed(rs) >= Signed(rt)) \/ Traps("tgei", Signed(rs) >= Signed(SignExtended(Imm)))
Tgeu == Traps("tgeu", rs >= rt) \/ Traps("tgeiu", rs >= SignExtended(Imm))
Tlt == Traps("tlt", Signed(rs) < Signed(rt)) \/ Traps("tlti", Signed(rs) < Signed(SignExtended(Imm)))
Tltu == Traps("tltu", rs < rt) \/ Traps("tltiu", rs < SignExtended(Imm))

WordInit == rs \in Reg /\ rt \in Reg /\ result = <<"none", 0>>

WordNext ==
    /\ result[1] = "none"
    /\ \/ Sll \/ Srl \/ Sra
       \/ Slt \/ Sltu \/ Slti \/ Sltiu
       \/ Teq \/ Tne \/ Tge \/ Tgeu \/ Tlt \/ Tltu

WordSpec == WordInit /\ [][WordNext]_wvars

-----------------------------------------------------------------------------
Places == 0 .. Bits - 1

(* A shift moves every bit by the amount, fills with zeros or with copies   *)
(* of the sign, and takes the amount modulo the number of bits.             *)
ShiftsMoveBits ==
    \A i \in Places :
        LET fill == IF result[1] = "sra" THEN BitOf(rt, Bits - 1) ELSE 0
            from == IF result[1] = "sll" THEN i - Shamt ELSE i + Shamt
        IN  result[1] \in {"sll", "srl", "sra"} =>
                BitOf(result[2], i) = IF from \in Places THEN BitOf(rt, from) ELSE fill

(* The bits of the second operand: an immediate repeats its top bit.        *)
SecondBit(i) ==
    IF result[1] \in {"slt", "sltu", "teq", "tne", "tge", "tgeu", "tlt", "tltu"} THEN BitOf(rt, i)
    ELSE BitOf(rt, IF i < HalfBits THEN i ELSE HalfBits - 1)

(* The first operand is the lesser one when the highest bit in which they   *)
(* differ says so: a sign bit that is set makes it less, any other greater. *)
Less(signed) ==
    \E i \in Places :
        /\ BitOf(rs, i) # SecondBit(i)
        /\ \A j \in i + 1 .. Bits - 1 : BitOf(rs, j) = SecondBit(j)
        /\ BitOf(rs, i) = IF signed /\ i = Bits - 1 THEN 1 ELSE 0
Same == \A i \in Places : BitOf(rs, i) = SecondBit(i)

(* Set-on-less-than and the traps agree with the order of the words' bits,  *)
(* signed and unsigned, with registers and with immediates.                *)
TestsOrderWords ==
    /\ result[1] \in {"slt", "slti", "tlt", "tlti"} => (result[2] = 1 <=> Less(TRUE))
    /\ result[1] \in {"sltu", "sltiu", "tltu", "tltiu"} => (result[2] = 1 <=> Less(FALSE))
    /\ result[1] \in {"tge", "tgei"} => (result[2] = 1 <=> ~Less(TRUE))
    /\ result[1] \in {"tgeu", "tgeiu"} => (result[2] = 1 <=> ~Less(FALSE))
    /\ result[1] \in {"teq", "teqi"} => (result[2] = 1 <=> Same)
    /\ result[1] \in {"tne", "tnei"} => (result[2] = 1 <=> ~Same)
=============================================================================
