------------------------------- MODULE Symbols -------------------------------
(***************************************************************************)
(* The symbol table of the assembler: labels looked up before they are      *)
(* defined, the list of uses each keeps, the patching of those uses when    *)
(* the label is recorded, the $gp area, and the flush of the local labels   *)
(* at the end of a file.  What is assembled is kept as instructions with    *)
(* the fields that resolving fills in.                                     *)
(*                                                                         *)
(* The machine is not bare.  Instructions go to the text segment, words to  *)
(* the data segment, which a file fills upwards; no address fits 16 bits.   *)
(***************************************************************************)
EXTENDS Integers, SequencesExt, Functions

CONSTANTS
    Names,
    TextBase,          \* address of the first instruction
    DataBase,          \* where the data of the first file starts
    DataPoints,        \* the addresses .data may name
    GpBase, GpTop,     \* the $gp area
    ExternSizes, LcommSizes, CommSizes,
    Offsets,           \* what address expressions add to a label
    GpNamesReused,     \* may a name of the $gp area be defined a second time?
    DelayedBranches,   \* config.delayed_branches
    MaxText, MaxWords, MaxFiles, DataTop,   \* bounds of the programs assembled
    NoSym

SMALL_DATA_SEG_MAX_SIZE == 8
Half == 65536

ASSUME AddressAssumption ==
    /\ {TextBase, DataBase, DataTop, GpBase, GpTop} \cup DataPoints \subseteq {a \in Nat : (a % 4) = 0 /\ a >= Half}
    /\ ExternSizes \cup LcommSizes \cup CommSizes \subseteq Nat \ {0}
    /\ GpBase < GpTop /\ Offsets \subseteq Int
    /\ \A off \in Offsets : off >= 0 /\ GpTop + off < GpBase + Half   \* one instruction off $gp
    /\ GpNamesReused \in BOOLEAN /\ DelayedBranches \in BOOLEAN
    /\ MaxText \in Nat /\ MaxWords \in Nat /\ MaxFiles \in Nat \ {0}
    /\ NoSym \notin [name : Names, file : 1 .. MaxFiles]

VARIABLES
    complete_table,  \* from the label nodes that are alive to their fields
    local_labels,    \* references to nodes, the last recorded first
    text, data,      \* instructions in order; word address -> word
    text_dir, next_data_pc, next_gp_item_addr,
    file,            \* the number of the file being assembled
    crashed          \* a destroyed label was read

vars == <<complete_table, local_labels, text, data, text_dir, next_data_pc,
          next_gp_item_addr, file, crashed>>

(* A node is the label object a name got in the file that first looked it   *)
(* up: pointers to it stay in instructions after the map erases it.        *)
Node == [name : Names, file : 1 .. MaxFiles]
Use == [inst : BOOLEAN, at : Nat]   \* inst: an index of text, else an address
NewLabel == [addr |-> 0, global |-> FALSE, gp |-> FALSE, uses |-> <<>>]
Defined(k, table) == table[k].addr # 0

(* An instruction: its expression (sym, off, bits), the register its        *)
(* address starts from, the field resolving sets, and the label and offset  *)
(* the source line wrote, which only the properties read.                  *)
Inst(op, sym, off, bits, base, of, plus) ==
    [op |-> op, sym |-> sym, off |-> off, bits |-> bits, base |-> base, field |-> 0,
     of |-> of, plus |-> plus]

AddrOf(i) == TextBase + 4 * (i - 1)
current_text_pc == AddrOf(Len(text) + 1)
current_pc == IF text_dir THEN current_text_pc ELSE next_data_pc
gp_midpoint == GpBase + 32 * 1024

Running == ~crashed /\ UNCHANGED crashed

Init ==
    /\ complete_table = <<>> /\ local_labels = <<>>
    /\ text = <<>> /\ data = <<>>
    /\ text_dir = TRUE /\ next_data_pc = DataBase /\ next_gp_item_addr = GpBase
    /\ file = 1 /\ crashed = FALSE

----------------------------------------------------------------------------
(* Mutant: every file has a label of its own.                              *)
NodePerFile(n) == [name |-> n, file |-> file]

(* lookup_label: the node of a name, created when there is none.           *)
NodeOf(n) ==
    IF \E k \in DOMAIN complete_table : k.name = n
    THEN CHOOSE k \in DOMAIN complete_table : k.name = n
    ELSE [name |-> n, file |-> file]
lookup_label(n) ==
    [k \in DOMAIN complete_table \cup {NodeOf(n)} |->
        IF k \in DOMAIN complete_table THEN complete_table[k] ELSE NewLabel]

Negative(v) == (v % Half) >= (Half \div 2)
Signed16(v) == IF Negative(v) THEN (v % Half) - Half ELSE v % Half

eval_imm_expr(r, table) ==
    LET value == r.off + (IF r.sym = NoSym THEN 0 ELSE table[r.sym].addr)
    IN  CASE r.bits > 0 -> (value \div Half) % Half
          [] r.bits < 0 -> value % Half
          [] OTHER -> value

(* LW sign-extends its offset: when that is negative, the LUI before it, or *)
(* before the ADDU of an index register, is to load one more, unless it is  *)
(* resolved already.                                                       *)
Unresolved(code, i, sym) == i >= 1 /\ code[i].op = "lui" /\ code[i].sym = sym /\ code[i].field = 0
Compensated(code, i) ==
    LET sym == code[i].sym
        lui == IF Unresolved(code, i - 1, sym) THEN i - 1 ELSE i - 2
    IN  IF Unresolved(code, lui, sym) THEN [code EXCEPT ![lui].off = @ + Half] ELSE code

(* The field of a branch counts words from the instruction, which may have  *)
(* moved since its expression was built; with delayed branches, from the    *)
(* delay slot.                                                             *)
Rebased(r, pc) == IF r.op = "branch" THEN [r EXCEPT !.off = -pc] ELSE r
BranchField(value) == ((Signed16(value) \div 4) % Half) - (IF DelayedBranches THEN 1 ELSE 0)
JumpField(value) == (value % (4096 * Half)) \div 4

resolve_a_label_sub(code, i, table) ==
    LET r == Rebased(code[i], AddrOf(i))
        value == eval_imm_expr(r, table)
        others == IF r.op = "load" /\ Negative(value) THEN Compensated(code, i) ELSE code
        field == CASE r.op = "branch" -> Signed16(BranchField(value))
                   [] r.op = "jump" -> JumpField(value)
                   [] OTHER -> Signed16(value)
    IN  [others EXCEPT ![i] = [r EXCEPT !.field = field]]

(* Mutant: from the first recorded to the last.                            *)
OldestFirst(uses) == Reverse(uses)

(* resolve_label_uses patches the uses from the last recorded to the first: *)
(* data words get the address.                                             *)
InOrder(uses) == uses
Patch(image, u, k, table) ==
    IF u.inst
    THEN [image EXCEPT !.text = resolve_a_label_sub(image.text, u.at, table)]
    ELSE [image EXCEPT !.data[u.at].word = table[k].addr]
AfterUses(uses, k, table) ==
    LET image[n \in Nat] == IF n = 0 THEN [text |-> text, data |-> data]
                            ELSE Patch(image[n - 1], uses[n], k, table)
    IN  image
resolve_label_uses(k, table) ==
    LET uses == InOrder(table[k].uses)
    IN  AfterUses(uses, k, table)[Len(uses)]

----------------------------------------------------------------------------
(* Mutant: a second definition is taken.                                   *)
RedefinitionAccepted(l) == FALSE

(* record_label(n, a): a second definition is an error and changes nothing; *)
(* a label of the $gp area keeps its address.                              *)
SecondDefinition(l) == ~l.gp /\ l.addr # 0

(* Mutants: the uses are dropped unpatched; an error is listed all the same. *)
RecordedUnpatched(n, a) ==
    LET k == NodeOf(n)
        l == lookup_label(n)[k]
    IN  IF SecondDefinition(l)
        THEN [table |-> lookup_label(n), text |-> text, data |-> data, locals |-> local_labels]
        ELSE [table |-> [lookup_label(n) EXCEPT ![k].addr = IF l.gp THEN @ ELSE a], text |-> text,
              data |-> data, locals |-> IF l.global THEN local_labels ELSE <<k>> \o local_labels]
RecordedTwice(n, a) ==
    LET k == NodeOf(n)
        l == lookup_label(n)[k]
        table == [lookup_label(n) EXCEPT ![k].addr = IF SecondDefinition(l) \/ l.gp THEN @ ELSE a]
        image == resolve_label_uses(k, table)
    IN  [table |-> [table EXCEPT ![k].uses = <<>>], text |-> image.text, data |-> image.data,
         locals |-> IF l.global THEN local_labels ELSE <<k>> \o local_labels]

record_label(n, a) ==
    LET k == NodeOf(n)
        l == lookup_label(n)[k]
        table == [lookup_label(n) EXCEPT ![k].addr = IF l.gp THEN @ ELSE a]
        image == resolve_label_uses(k, table)
    IN  IF SecondDefinition(l)
        THEN [table |-> lookup_label(n), text |-> text, data |-> data, locals |-> local_labels]
        ELSE [table |-> [table EXCEPT ![k].uses = <<>>], text |-> image.text, data |-> image.data,
              locals |-> IF l.global THEN local_labels ELSE <<k>> \o local_labels]

Records(r) ==
    /\ complete_table' = r.table /\ local_labels' = r.locals
    /\ text' = r.text /\ data' = r.data

OnlyOnce(n) == GpNamesReused \/ ~lookup_label(n)[NodeOf(n)].gp
NotYet(n) == GpNamesReused \/ ~Defined(NodeOf(n), lookup_label(n))

(* .label NAME, or NAME: at the current location.                          *)
Label(n) ==
    /\ OnlyOnce(n)
    /\ Records(record_label(n, current_pc))
    /\ UNCHANGED <<text_dir, next_data_pc, next_gp_item_addr, file>> /\ Running

FitsGpArea(size) == size <= SMALL_DATA_SEG_MAX_SIZE /\ next_gp_item_addr + size < GpTop

(* .lcomm NAME SIZE: a small item goes to the $gp area.                    *)
LcommSmall(n, size) ==
    /\ FitsGpArea(size) /\ NotYet(n)
    /\ LET r == record_label(n, next_gp_item_addr)
       IN  Records([r EXCEPT !.table[NodeOf(n)].gp = TRUE])
    /\ next_gp_item_addr' = next_gp_item_addr + size
    /\ UNCHANGED <<text_dir, next_data_pc, file>> /\ Running

LcommLarge(n, size) ==
    /\ ~FitsGpArea(size) /\ OnlyOnce(n) /\ next_data_pc + size <= DataTop
    /\ Records(record_label(n, next_data_pc))
    /\ next_data_pc' = next_data_pc + size
    /\ UNCHANGED <<text_dir, next_gp_item_addr, file>> /\ Running

lcomm_directive(n, size) == LcommSmall(n, size) \/ LcommLarge(n, size)

(* .comm NAME SIZE: data addresses are word-aligned already.               *)
Comm(n, size) ==
    /\ next_data_pc + size <= DataTop
    /\ IF Defined(NodeOf(n), lookup_label(n))
       THEN complete_table' = lookup_label(n) /\ UNCHANGED <<local_labels, text, data>>
       ELSE Records(record_label(n, next_data_pc))
    /\ next_data_pc' = next_data_pc + size
    /\ UNCHANGED <<text_dir, next_gp_item_addr, file>> /\ Running

make_label_global(n) == [lookup_label(n) EXCEPT ![NodeOf(n)].global = TRUE]

(* .globl NAME                                                             *)
Globl(n) ==
    /\ complete_table' = make_label_global(n)
    /\ UNCHANGED <<local_labels, text, data, text_dir, next_data_pc, next_gp_item_addr, file>> /\ Running

(* .extern NAME SIZE: a small item gets an address, but its uses wait.      *)
extern_directive(n, size) ==
    /\ LET k == NodeOf(n)
           table == make_label_global(n)
       IN  IF ~table[k].gp /\ FitsGpArea(size)
           THEN /\ NotYet(n)
                /\ complete_table' = [table EXCEPT ![k].gp = TRUE, ![k].addr = next_gp_item_addr]
                /\ next_gp_item_addr' = next_gp_item_addr + size
           ELSE complete_table' = table /\ UNCHANGED next_gp_item_addr
    /\ UNCHANGED <<local_labels, text, data, text_dir, next_data_pc, file>> /\ Running

----------------------------------------------------------------------------
(* record_inst_uses_symbol and record_data_uses_symbol                     *)
Uses(table, k, u) == [table EXCEPT ![k].uses = <<u>> \o @]

(* i_type_inst and j_type_inst for instructions of one word each: one whose *)
(* label has no address is remembered in it, any other resolved, in order.  *)
Assemble(image, r) ==
    LET code == Append(image.text, r)
    IN  IF r.sym # NoSym /\ ~Defined(r.sym, image.table)
        THEN [text |-> code, table |-> Uses(image.table, r.sym, [inst |-> TRUE, at |-> Len(code)])]
        ELSE [text |-> resolve_a_label_sub(code, Len(code), image.table), table |-> image.table]

Start(n) == [text |-> text, table |-> lookup_label(n)]
Emit(image) ==
    /\ text_dir /\ Len(image.text) <= MaxText
    /\ text' = image.text /\ complete_table' = image.table
    /\ UNCHANGED <<local_labels, data, text_dir, next_data_pc, next_gp_item_addr, file>> /\ Running
One(n, r) == Assemble(Start(n), r)
Two(n, r, s) == Assemble(One(n, r), s)
Three(n, r, s, t) == Assemble(Two(n, r, s), t)

Other == Inst("other", NoSym, 0, 0, "zero", NoSym, 0)

(* j NAME                                                                  *)
Jump(n) == Emit(One(n, Inst("jump", NodeOf(n), 0, 0, "zero", NodeOf(n), 0)))

(* beq ..., NAME; a pseudo instruction puts a comparison before it, after   *)
(* the expression was built.                                               *)
Branch(n, moved) ==
    LET i == Inst("branch", NodeOf(n), -current_text_pc, -1, "zero", NodeOf(n), 0)
    IN  Emit(IF moved THEN Two(n, Other, i) ELSE One(n, i))

(* make_addr_expr(off, NAME, 0) is an offset from $gp for a label of the    *)
(* $gp area.                                                               *)
GpRelative(n) == lookup_label(n)[NodeOf(n)].gp
GpOffset(n, off) == off + lookup_label(n)[NodeOf(n)].addr - gp_midpoint

(* lw rt, NAME + off, indexed: (rs).  i_type_inst_full_word loads the upper *)
(* half into $at first: one more when the lower half is negative, which is  *)
(* left to Compensated while the address is unknown.                       *)
Lui(sym, off, bits) == Inst("lui", sym, off, bits, "zero", NoSym, 0)
High(value) == ((value \div Half) % Half) + (IF Negative(value) THEN 1 ELSE 0)
LoadKnown(k, off) ==
    LET value == off + lookup_label(k.name)[k].addr
    IN  <<Lui(NoSym, High(value), 0), Inst("load", NoSym, value % Half, -1, "at", k, off)>>
LoadUnknown(k, off) == <<Lui(k, off, 1), Inst("load", k, off, -1, "at", k, off)>>
FullWord(k, off) ==
    IF Defined(k, lookup_label(k.name)) THEN LoadKnown(k, off) ELSE LoadUnknown(k, off)

Load(n, off, indexed) ==
    LET pair == FullWord(NodeOf(n), off)
    IN  IF GpRelative(n) /\ ~indexed
        THEN Emit(One(n, Inst("load", NoSym, GpOffset(n, off), 0, "gp", NodeOf(n), off)))
        ELSE Emit(IF indexed THEN Three(n, pair[1], Other, pair[2]) ELSE Two(n, pair[1], pair[2]))

(* la rt, NAME + off: addi from $gp, else lui and ori, or lui alone when the *)
(* address is known and has no lower half.                                 *)
Ori(sym, off, k, plus) == Inst("ori", sym, off, -1, "at", k, plus)
UpperOnly(k, off) == Inst("lui", k, off, 1, "zero", k, off)
produce_immediate(n, off) ==
    LET k == NodeOf(n)
        l == lookup_label(n)[k]
    IN  IF l.addr # 0 /\ (off + l.addr) % Half = 0 THEN One(n, UpperOnly(k, off))
        ELSE Two(n, Lui(k, off, 1), Ori(k, off, k, off))
LoadAddress(n, off) ==
    Emit(IF GpRelative(n) THEN One(n, Inst("addi", NoSym, GpOffset(n, off), 0, "gp", NodeOf(n), off))
         ELSE produce_immediate(n, off))

(* .word NAME: 0 stands for an address that is not known yet.              *)
Word(n) ==
    LET k == NodeOf(n)
        table == lookup_label(n)
    IN  /\ ~text_dir /\ Cardinality(DOMAIN data) < MaxWords
        /\ data' = [a \in DOMAIN data \cup {next_data_pc} |->
                       IF a \in DOMAIN data THEN data[a] ELSE [word |-> table[k].addr, of |-> k]]
        /\ complete_table' = IF Defined(k, table) THEN table
                             ELSE Uses(table, k, [inst |-> FALSE, at |-> next_data_pc])
        /\ next_data_pc' = next_data_pc + 4
        /\ UNCHANGED <<local_labels, text, text_dir, next_gp_item_addr, file>> /\ Running

Text ==
    /\ ~text_dir /\ text_dir' = TRUE
    /\ UNCHANGED <<complete_table, local_labels, text, data, next_data_pc, next_gp_item_addr, file>> /\ Running

(* .data, and .data ADDRESS                                                *)
Data(a) ==
    /\ text_dir' = FALSE
    /\ a >= next_data_pc /\ next_data_pc' = a
    /\ UNCHANGED <<complete_table, local_labels, text, data, next_gp_item_addr, file>> /\ Running

(* The end of a file.  flush_local_labels erases the labels on its list; a  *)
(* reference listed twice is read after its label was destroyed, which may  *)
(* crash or find the old name and erase nothing more.                      *)
ListedTwice == ~IsInjective(local_labels)
flush_local_labels ==
    /\ ~crashed
    /\ file < MaxFiles /\ file' = file + 1
    /\ complete_table' = Restrict(complete_table, DOMAIN complete_table \ Range(local_labels))
    /\ local_labels' = <<>>
    /\ text_dir' = TRUE
    /\ crashed' \in {FALSE, ListedTwice}
    /\ UNCHANGED <<text, data, next_data_pc, next_gp_item_addr>>

Next ==
    \/ \E n \in Names : Label(n) \/ Globl(n) \/ Word(n) \/ Jump(n)
    \/ \E n \in Names, size \in LcommSizes : lcomm_directive(n, size)
    \/ \E n \in Names, size \in CommSizes : Comm(n, size)
    \/ \E n \in Names, size \in ExternSizes : extern_directive(n, size)
    \/ \E n \in Names, moved \in BOOLEAN : Branch(n, moved)
    \/ \E n \in Names, off \in Offsets, indexed \in BOOLEAN : Load(n, off, indexed)
    \/ \E n \in Names, off \in Offsets : LoadAddress(n, off)
    \/ Text
    \/ \E a \in DataPoints \cup {next_data_pc} : Data(a)
    \/ flush_local_labels

Spec == Init /\ [][Next]_vars

----------------------------------------------------------------------------
Fields(op) == IF op = "jump" THEN 0 .. 1024 * Half ELSE -(Half \div 2) .. (Half \div 2) - 1

(* Every table entry, list and field is well formed, and one name has at    *)
(* most one node.                                                          *)
TypeOK ==
    /\ DOMAIN complete_table \subseteq Node
    /\ \A k \in DOMAIN complete_table :
          /\ complete_table[k].addr \in Nat /\ complete_table[k].uses \in Seq(Use)
          /\ \A j \in DOMAIN complete_table : j.name = k.name => j = k
    /\ local_labels \in Seq(Node)
    /\ \A i \in DOMAIN text :
          /\ text[i].sym \in Node \cup {NoSym}
          /\ text[i].field \in Fields(text[i].op)
    /\ DOMAIN data \subseteq DataBase .. next_data_pc - 4 /\ \A a \in DOMAIN data : data[a].word \in Nat
    /\ text_dir \in BOOLEAN /\ next_data_pc \in Nat /\ next_gp_item_addr \in GpBase .. GpTop
    /\ file \in 1 .. MaxFiles /\ crashed \in BOOLEAN

(* Where instruction i leads when it runs: the address a load or store      *)
(* adds up, the address an la puts in its register, the target of a branch  *)
(* or jump.  The LUI of a pair is next before it, or before what adds the   *)
(* index.                                                                  *)
LuiOf(code, i) == IF code[i - 1].op = "lui" THEN i - 1 ELSE i - 2
Upper(code, i) == code[LuiOf(code, i)].field * Half
Target(code, i) ==
    LET r == code[i]
    IN  CASE r.op = "branch" -> AddrOf(i) + 4 * (r.field + (IF DelayedBranches THEN 1 ELSE 0))
          [] r.op = "jump" -> 4 * r.field
          [] r.op = "lui" -> r.field * Half
          [] r.base = "gp" -> gp_midpoint + r.field
          [] r.base = "at" /\ r.op = "load" -> Upper(code, i) + r.field
          [] OTHER -> Upper(code, i) + (r.field % Half)

(* Branches reach 32K either way, jumps the 256M they are in, both words.   *)
InRange(code, i, a) ==
    CASE code[i].op = "branch" -> a % 4 = 0 /\ a - AddrOf(i) \in -(Half \div 2) .. (Half \div 2) - 1
      [] code[i].op = "jump" -> a % 4 = 0 /\ a < 4096 * Half
      [] OTHER -> TRUE

(* Addresses have 32 bits.                                                 *)
SameAddress(a, b) == a % Half = b % Half /\ (a \div Half) % Half = (b \div Half) % Half
Leads(code, i, a) == InRange(code, i, a) => SameAddress(Target(code, i), a)

Settled(k) == k \in DOMAIN complete_table /\ Defined(k, complete_table) /\ complete_table[k].uses = <<>>

(* Whatever the order of uses and definitions, with and without an index    *)
(* register, moved or not, from $gp or not: an instruction that named a     *)
(* label leads to the label, and a word that named it holds its address,    *)
(* once the label is defined and has no waiting uses.                      *)
ReferencesReachLabels ==
    /\ \A i \in DOMAIN text :
          LET k == text[i].of
          IN  k # NoSym /\ Settled(k) => Leads(text, i, complete_table[k].addr + text[i].plus)
    /\ \A a \in DOMAIN data : Settled(data[a].of) => data[a].word = complete_table[data[a].of].addr

(* Only a label that .extern gave an address in the $gp area has an address *)
(* and uses that still wait for it.                                        *)
DefinedLabelsAreResolved ==
    \A k \in DOMAIN complete_table :
        LET l == complete_table[k]
        IN  l.addr # 0 /\ l.uses # <<>> => l.gp /\ l.global

(* Flushing reads each label on the list once, and only labels alive.      *)
LocalsListedOnce == ~ListedTwice /\ Range(local_labels) \subseteq DOMAIN complete_table

(* A label keeps its address as long as it lives.                          *)
AddressesNeverMove ==
    [][\A k \in DOMAIN complete_table \cap DOMAIN complete_table' :
          Defined(k, complete_table) => complete_table'[k].addr = complete_table[k].addr]_vars

(* A label that is not global is defined only in the file that named it     *)
(* first: another file cannot see it.                                      *)
LocalsStayInTheirFile ==
    [][\A k \in DOMAIN complete_table \cap DOMAIN complete_table' :
          ~Defined(k, complete_table) /\ Defined(k, complete_table') /\ ~complete_table'[k].global
             => k.file = file]_vars

=============================================================================
