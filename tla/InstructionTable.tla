--------------------------- MODULE InstructionTable ---------------------------
(***************************************************************************)
(* The machine instructions of op.h: a name, the format of the operands and *)
(* the upper and lower half of the word with every operand zero.  The       *)
(* pseudo instructions, which have no word, are left out.                  *)
(***************************************************************************)
EXTENDS Integers

RowsAToC == {
    <<"abs.d", "FP_R2ds", \h4620, \h0005>>, <<"abs.s", "FP_R2ds", \h4600, \h0005>>,
    <<"add", "R3", \h0000, \h0020>>, <<"add.d", "FP_R3", \h4620, \h0000>>, <<"add.s", "FP_R3", \h4600, \h0000>>,
    <<"addi", "I2", \h2000, \h0000>>, <<"addiu", "I2", \h2400, \h0000>>, <<"addu", "R3", \h0000, \h0021>>,
    <<"and", "R3", \h0000, \h0024>>, <<"andi", "I2", \h3000, \h0000>>, <<"bc1f", "BC", \h4500, \h0000>>,
    <<"bc1fl", "BC", \h4502, \h0000>>, <<"bc1t", "BC", \h4501, \h0000>>, <<"bc1tl", "BC", \h4503, \h0000>>,
    <<"bc2f", "BC", \h4900, \h0000>>, <<"bc2fl", "BC", \h4902, \h0000>>, <<"bc2t", "BC", \h4901, \h0000>>,
    <<"bc2tl", "BC", \h4903, \h0000>>, <<"beq", "B2", \h1000, \h0000>>, <<"beql", "B2", \h5000, \h0000>>,
    <<"bgez", "B1", \h0401, \h0000>>, <<"bgezal", "B1", \h0411, \h0000>>, <<"bgezall", "B1", \h0413, \h0000>>,
    <<"bgezl", "B1", \h0403, \h0000>>, <<"bgtz", "B1", \h1C00, \h0000>>, <<"bgtzl", "B1", \h5C00, \h0000>>,
    <<"blez", "B1", \h1800, \h0000>>, <<"blezl", "B1", \h5800, \h0000>>, <<"bltz", "B1", \h0400, \h0000>>,
    <<"bltzal", "B1", \h0410, \h0000>>, <<"bltzall", "B1", \h0412, \h0000>>, <<"bltzl", "B1", \h0402, \h0000>>,
    <<"bne", "B2", \h1400, \h0000>>, <<"bnel", "B2", \h5400, \h0000>>, <<"break", "NOARG", \h0000, \h000D>>,
    <<"c.eq.d", "FP_CMP", \h4620, \h0032>>, <<"c.eq.s", "FP_CMP", \h4600, \h0032>>,
    <<"c.f.d", "FP_CMP", \h4620, \h0030>>, <<"c.f.s", "FP_CMP", \h4600, \h0030>>,
    <<"c.le.d", "FP_CMP", \h4620, \h003E>>, <<"c.le.s", "FP_CMP", \h4600, \h003E>>,
    <<"c.lt.d", "FP_CMP", \h4620, \h003C>>, <<"c.lt.s", "FP_CMP", \h4600, \h003C>>,
    <<"c.nge.d", "FP_CMP", \h4620, \h003D>>, <<"c.nge.s", "FP_CMP", \h4600, \h003D>>,
    <<"c.ngl.d", "FP_CMP", \h4620, \h003B>>, <<"c.ngl.s", "FP_CMP", \h4600, \h003B>>,
    <<"c.ngle.d", "FP_CMP", \h4620, \h0039>>, <<"c.ngle.s", "FP_CMP", \h4600, \h0039>>,
    <<"c.ngt.d", "FP_CMP", \h4620, \h003F>>, <<"c.ngt.s", "FP_CMP", \h4600, \h003F>>,
    <<"c.ole.d", "FP_CMP", \h4620, \h0036>>, <<"c.ole.s", "FP_CMP", \h4600, \h0036>>,
    <<"c.olt.d", "FP_CMP", \h4620, \h0034>>, <<"c.olt.s", "FP_CMP", \h4600, \h0034>>,
    <<"c.seq.d", "FP_CMP", \h4620, \h003A>>, <<"c.seq.s", "FP_CMP", \h4600, \h003A>>,
    <<"c.sf.d", "FP_CMP", \h4620, \h0038>>, <<"c.sf.s", "FP_CMP", \h4600, \h0038>>,
    <<"c.ueq.d", "FP_CMP", \h4620, \h0033>>, <<"c.ueq.s", "FP_CMP", \h4600, \h0033>>,
    <<"c.ule.d", "FP_CMP", \h4620, \h0037>>, <<"c.ule.s", "FP_CMP", \h4600, \h0037>>,
    <<"c.ult.d", "FP_CMP", \h4620, \h0035>>, <<"c.ult.s", "FP_CMP", \h4600, \h0035>>,
    <<"c.un.d", "FP_CMP", \h4620, \h0031>>, <<"c.un.s", "FP_CMP", \h4600, \h0031>>,
    <<"cache", "I2", \hBC00, \h0000>>, <<"ceil.w.d", "FP_R2ds", \h4620, \h000E>>,
    <<"ceil.w.s", "FP_R2ds", \h4600, \h000E>>, <<"cfc0", "FP_R2ts", \h4040, \h0000>>,
    <<"cfc1", "FP_R2ts", \h4440, \h0000>>, <<"cfc2", "FP_R2ts", \h4840, \h0000>>,
    <<"clo", "R3", \h7000, \h0021>>, <<"clz", "R3", \h7000, \h0020>>, <<"cop2", "J", \h4A00, \h0000>>,
    <<"ctc0", "FP_R2ts", \h40C0, \h0000>>, <<"ctc1", "FP_R2ts", \h44C0, \h0000>>,
    <<"ctc2", "FP_R2ts", \h48C0, \h0000>>, <<"cvt.d.s", "FP_R2ds", \h4600, \h0021>>,
    <<"cvt.d.w", "FP_R2ds", \h4620, \h0021>>, <<"cvt.s.d", "FP_R2ds", \h4620, \h0020>>}

RowsCToM == {
    <<"cvt.s.w", "FP_R2ds", \h4680, \h0020>>, <<"cvt.w.d", "FP_R2ds", \h4620, \h0024>>,
    <<"cvt.w.s", "FP_R2ds", \h4600, \h0024>>, <<"div", "R2st", \h0000, \h001A>>,
    <<"div.d", "FP_R3", \h4620, \h0003>>, <<"div.s", "FP_R3", \h4600, \h0003>>,
    <<"divu", "R2st", \h0000, \h001B>>, <<"eret", "NOARG", \h4200, \h0018>>,
    <<"floor.w.d", "FP_R2ds", \h4620, \h000F>>, <<"floor.w.s", "FP_R2ds", \h4600, \h000F>>,
    <<"j", "J", \h0800, \h0000>>, <<"jal", "J", \h0C00, \h0000>>, <<"jalr", "R2ds", \h0000, \h0009>>,
    <<"jr", "R1s", \h0000, \h0008>>, <<"lb", "I2a", \h8000, \h0000>>, <<"lbu", "I2a", \h9000, \h0000>>,
    <<"ldc1", "FP_I2a", \hD400, \h0000>>, <<"ldc2", "I2a", \hD800, \h0000>>, <<"lh", "I2a", \h8400, \h0000>>,
    <<"lhu", "I2a", \h9400, \h0000>>, <<"ll", "I2a", \hC000, \h0000>>, <<"lui", "I1t", \h3C00, \h0000>>,
    <<"lw", "I2a", \h8C00, \h0000>>, <<"lwc1", "FP_I2a", \hC400, \h0000>>, <<"lwc2", "I2a", \hC800, \h0000>>,
    <<"lwl", "I2a", \h8800, \h0000>>, <<"lwr", "I2a", \h9800, \h0000>>, <<"madd", "R2st", \h7000, \h0000>>,
    <<"maddu", "R2st", \h7000, \h0001>>, <<"mfc0", "R2td", \h4000, \h0000>>,
    <<"mfc1", "FP_R2ts", \h4400, \h0000>>, <<"mfc2", "R2td", \h4800, \h0000>>,
    <<"mfhi", "R1d", \h0000, \h0010>>, <<"mflo", "R1d", \h0000, \h0012>>,
    <<"mov.d", "FP_R2ds", \h4620, \h0006>>, <<"mov.s", "FP_R2ds", \h4600, \h0006>>,
    <<"movf", "MOVC", \h0000, \h0001>>, <<"movf.d", "FP_MOVC", \h4620, \h0011>>,
    <<"movf.s", "FP_MOVC", \h4600, \h0011>>, <<"movn", "R3", \h0000, \h000B>>,
    <<"movn.d", "FP_MOVC", \h4620, \h0013>>, <<"movn.s", "FP_MOVC", \h4600, \h0013>>,
    <<"movt", "MOVC", \h0001, \h0001>>, <<"movt.d", "FP_MOVC", \h4621, \h0011>>,
    <<"movt.s", "FP_MOVC", \h4601, \h0011>>, <<"movz", "R3", \h0000, \h000A>>,
    <<"movz.d", "FP_MOVC", \h4620, \h0012>>, <<"movz.s", "FP_MOVC", \h4600, \h0012>>,
    <<"msub", "R2st", \h7000, \h0004>>, <<"msubu", "R2st", \h7000, \h0005>>, <<"mtc0", "R2td", \h4080, \h0000>>,
    <<"mtc1", "FP_R2ts", \h4480, \h0000>>, <<"mtc2", "R2td", \h4880, \h0000>>,
    <<"mthi", "R1s", \h0000, \h0011>>, <<"mtlo", "R1s", \h0000, \h0013>>, <<"mul", "R3", \h7000, \h0002>>,
    <<"mul.d", "FP_R3", \h4620, \h0002>>, <<"mul.s", "FP_R3", \h4600, \h0002>>,
    <<"mult", "R2st", \h0000, \h0018>>, <<"multu", "R2st", \h0000, \h0019>>,
    <<"neg.d", "FP_R2ds", \h4620, \h0007>>, <<"neg.s", "FP_R2ds", \h4600, \h0007>>}

RowsMToX == {
    <<"nor", "R3", \h0000, \h0027>>, <<"or", "R3", \h0000, \h0025>>, <<"ori", "I2", \h3400, \h0000>>,
    <<"pref", "I2", \hCC00, \h0000>>, <<"rfe", "NOARG", \h4200, \h0010>>,
    <<"round.w.d", "FP_R2ds", \h4620, \h000C>>, <<"round.w.s", "FP_R2ds", \h4600, \h000C>>,
    <<"sb", "I2a", \hA000, \h0000>>, <<"sc", "I2a", \hE000, \h0000>>, <<"sdc1", "FP_I2a", \hF400, \h0000>>,
    <<"sdc2", "I2a", \hF800, \h0000>>, <<"sh", "I2a", \hA400, \h0000>>, <<"sll", "R2sh", \h0000, \h0000>>,
    <<"sllv", "R3sh", \h0000, \h0004>>, <<"slt", "R3", \h0000, \h002A>>, <<"slti", "I2", \h2800, \h0000>>,
    <<"sltiu", "I2", \h2C00, \h0000>>, <<"sltu", "R3", \h0000, \h002B>>,
    <<"sqrt.d", "FP_R2ds", \h4620, \h0004>>, <<"sqrt.s", "FP_R2ds", \h4600, \h0004>>,
    <<"sra", "R2sh", \h0000, \h0003>>, <<"srav", "R3sh", \h0000, \h0007>>, <<"srl", "R2sh", \h0000, \h0002>>,
    <<"srlv", "R3sh", \h0000, \h0006>>, <<"ssnop", "R2sh", \h0000, \h0040>>, <<"sub", "R3", \h0000, \h0022>>,
    <<"sub.d", "FP_R3", \h4620, \h0001>>, <<"sub.s", "FP_R3", \h4600, \h0001>>,
    <<"subu", "R3", \h0000, \h0023>>, <<"sw", "I2a", \hAC00, \h0000>>, <<"swc1", "FP_I2a", \hE400, \h0000>>,
    <<"swc2", "I2a", \hE800, \h0000>>, <<"swl", "I2a", \hA800, \h0000>>, <<"swr", "I2a", \hB800, \h0000>>,
    <<"sync", "NOARG", \h0000, \h000F>>, <<"syscall", "NOARG", \h0000, \h000C>>,
    <<"teq", "R2st", \h0000, \h0034>>, <<"teqi", "I1s", \h040C, \h0000>>, <<"tge", "R2st", \h0000, \h0030>>,
    <<"tgei", "I1s", \h0408, \h0000>>, <<"tgeiu", "I1s", \h0409, \h0000>>, <<"tgeu", "R2st", \h0000, \h0031>>,
    <<"tlbp", "NOARG", \h4200, \h0008>>, <<"tlbr", "NOARG", \h4200, \h0001>>,
    <<"tlbwi", "NOARG", \h4200, \h0002>>, <<"tlbwr", "NOARG", \h4200, \h0006>>,
    <<"tlt", "R2st", \h0000, \h0032>>, <<"tlti", "I1s", \h040A, \h0000>>, <<"tltiu", "I1s", \h040B, \h0000>>,
    <<"tltu", "R2st", \h0000, \h0033>>, <<"tne", "R2st", \h0000, \h0036>>, <<"tnei", "I1s", \h040E, \h0000>>,
    <<"trunc.w.d", "FP_R2ds", \h4620, \h000D>>, <<"trunc.w.s", "FP_R2ds", \h4600, \h000D>>,
    <<"xor", "R3", \h0000, \h0026>>, <<"xori", "I2", \h3800, \h0000>>}

(* What op.h marks as MIPS32 Rev 2: the assembler refuses these, but a word  *)
(* may be decoded as one of them.                                          *)
Rev2Rows == {
    <<"abs.ps", "FP_R2ds", \h4660, \h0005>>, <<"add.ps", "FP_R3", \h4660, \h0000>>,
    <<"alnv.ps", "FP_R4", \h4C00, \h001E>>, <<"c.eq.ps", "FP_CMP", \h4660, \h0032>>,
    <<"c.f.ps", "FP_CMP", \h4660, \h0030>>, <<"c.le.ps", "FP_CMP", \h4660, \h003E>>,
    <<"c.lt.ps", "FP_CMP", \h4660, \h003C>>, <<"c.nge.ps", "FP_CMP", \h4660, \h003D>>,
    <<"c.ngl.ps", "FP_CMP", \h4660, \h003B>>, <<"c.ngle.ps", "FP_CMP", \h4660, \h0039>>,
    <<"c.ngt.ps", "FP_CMP", \h4660, \h003F>>, <<"c.ole.ps", "FP_CMP", \h4660, \h0036>>,
    <<"c.olt.ps", "FP_CMP", \h4660, \h0034>>, <<"c.seq.ps", "FP_CMP", \h4660, \h003A>>,
    <<"c.sf.ps", "FP_CMP", \h4660, \h0038>>, <<"c.ueq.ps", "FP_CMP", \h4660, \h0033>>,
    <<"c.ule.ps", "FP_CMP", \h4660, \h0037>>, <<"c.ult.ps", "FP_CMP", \h4660, \h0035>>,
    <<"c.un.ps", "FP_CMP", \h4660, \h0031>>, <<"ceil.l.d", "FP_R2ds", \h4620, \h000A>>,
    <<"ceil.l.s", "FP_R2ds", \h4600, \h000A>>, <<"cvt.d.l", "FP_R2ds", \h46B0, \h0021>>,
    <<"cvt.l.d", "FP_R2ds", \h4620, \h0025>>, <<"cvt.l.s", "FP_R2ds", \h4600, \h0025>>,
    <<"cvt.ps.s", "FP_R2ds", \h4600, \h0026>>, <<"cvt.s.l", "FP_R2ds", \h46B0, \h0020>>,
    <<"cvt.s.pl", "FP_R2ds", \h46C0, \h0024>>, <<"cvt.s.pu", "FP_R2ds", \h46C0, \h0020>>,
    <<"deret", "NOARG", \h4200, \h001F>>, <<"di", "I1t", \h4160, \h6000>>, <<"ehb", "NOARG", \h0000, \h00C0>>,
    <<"ei", "I1t", \h4160, \h6020>>, <<"ext", "FP_R2ds", \h7C00, \h0000>>,
    <<"floor.l.d", "FP_R2ds", \h4620, \h000B>>, <<"floor.l.s", "FP_R2ds", \h4600, \h000B>>,
    <<"ins", "FP_R2ds", \h7C00, \h0004>>, <<"jalr.hb", "R2ds", \h0000, \h0409>>,
    <<"jr.hb", "R1s", \h0000, \h0408>>, <<"ldxc1", "FP_R3", \h4C00, \h0001>>,
    <<"luxc1", "FP_R3", \h4C00, \h0005>>, <<"lwxc1", "FP_R3", \h4C00, \h0000>>,
    <<"madd.d", "FP_R4", \h4C00, \h0001>>, <<"madd.ps", "FP_R4", \h4C00, \h0006>>,
    <<"madd.s", "FP_R4", \h4C00, \h0000>>, <<"mfhc1", "FP_R2ts", \h4460, \h0000>>,
    <<"mfhc2", "R2td", \h4860, \h0000>>, <<"mov.ps", "FP_R2ds", \h46C0, \h0006>>,
    <<"movf.ps", "FP_MOVC", \h46C0, \h0011>>, <<"movn.ps", "FP_MOVC", \h46C0, \h0013>>,
    <<"movt.ps", "FP_MOVC", \h46C1, \h0011>>, <<"movz.ps", "FP_MOVC", \h46C0, \h0012>>,
    <<"msub.d", "FP_R4", \h4C00, \h0021>>, <<"msub.ps", "FP_R4", \h4C00, \h0026>>,
    <<"msub.s", "FP_R4", \h4C00, \h0020>>, <<"mthc1", "FP_R2ts", \h44E0, \h0000>>,
    <<"mthc2", "R2td", \h48E0, \h0000>>, <<"mul.ps", "FP_R3", \h46C0, \h0002>>,
    <<"neg.ps", "FP_R2ds", \h46C0, \h0007>>, <<"nmadd.d", "FP_R4", \h4C00, \h0031>>,
    <<"nmadd.ps", "FP_R4", \h4C00, \h0036>>, <<"nmadd.s", "FP_R4", \h4C00, \h0030>>,
    <<"nmsub.d", "FP_R4", \h4C00, \h0039>>, <<"nmsub.ps", "FP_R4", \h4C00, \h003E>>,
    <<"nmsub.s", "FP_R4", \h4C00, \h0038>>, <<"pll.ps", "FP_R3", \h46C0, \h002C>>,
    <<"plu.ps", "FP_R3", \h46C0, \h002D>>, <<"prefx", "R2st", \h4600, \h000F>>,
    <<"pul.ps", "FP_R3", \h46C0, \h002E>>, <<"puu.ps", "FP_R3", \h46C0, \h002F>>,
    <<"rdhwr", "R3", \h7C00, \h003B>>, <<"rdpgpr", "R2td", \h4140, \h0000>>,
    <<"recip.d", "FP_R2ds", \h4620, \h0015>>, <<"recip.s", "FP_R2ds", \h4600, \h0015>>,
    <<"rotr", "R2sh", \h0020, \h0002>>, <<"rotrv", "R2sh", \h0020, \h0003>>,
    <<"round.l.d", "FP_R2ds", \h4620, \h0008>>, <<"round.l.s", "FP_R2ds", \h4600, \h0008>>,
    <<"rsqrt.d", "FP_R2ds", \h4620, \h0016>>, <<"rsqrt.s", "FP_R2ds", \h4600, \h0016>>,
    <<"sdbbp", "NOARG", \h7000, \h003F>>, <<"sdxc1", "FP_R3", \h4600, \h0009>>,
    <<"seb", "R2td", \h7C00, \h0420>>, <<"seh", "R2td", \h7C00, \h0620>>, <<"sub.ps", "FP_R3", \h4660, \h0001>>,
    <<"suxc1", "FP_R3", \h4600, \h000D>>, <<"swxc1", "FP_R3", \h4600, \h0008>>,
    <<"synci", "I2", \h0414, \h0000>>, <<"trunc.l.d", "FP_R2ds", \h4620, \h0009>>,
    <<"trunc.l.s", "FP_R2ds", \h4600, \h0009>>, <<"wrpgpr", "R2td", \h41C0, \h0000>>,
    <<"wsbh", "R2td", \h7C00, \h00A0>>}

Assembled == RowsAToC \cup RowsCToM \cup RowsMToX
Rows == Assembled \cup Rev2Rows

(* The fields of a word, of five bits but for op and fn, which have six.    *)
FieldsOf(hi, lo) ==
    [op |-> hi \div 1024, rs |-> (hi \div 32) % 32, rt |-> hi % 32,
     rd |-> lo \div 2048, sa |-> (lo \div 64) % 32, fn |-> lo % 64]
Template == [name \in {row[1] : row \in Rows} |->
                LET row == CHOOSE r \in Rows : r[1] = name IN FieldsOf(row[3], row[4])]
Type == [name \in {row[1] : row \in Rows} |-> (CHOOSE r \in Rows : r[1] = name)[2]]
=============================================================================
