---------------------------- MODULE SymbolsProofs ----------------------------
(***************************************************************************)
(* The symbol table, for every program, layout and bound.                   *)
(*  - Only .extern leaves uses waiting at a label with an address, and,     *)
(*    when no name of the $gp area is defined a second time, no label       *)
(*    moves.                                                               *)
(*  - Everything assembled is well formed, which needs that the uses a      *)
(*    label keeps point at what named it: resolving one may then neither    *)
(*    miss its instruction nor lengthen the program.                       *)
(*  - The list of local labels holds each once, and only labels alive.      *)
(*  - Every reference waits at its label or leads to its address.  Resolving *)
(*    walks over the uses of a label, the last recorded first, so that a    *)
(*    load compensates its LUI before the LUI is patched.                   *)
(***************************************************************************)
EXTENDS Symbols, NumberFacts, SequenceTheorems, TLAPS

IsLabel(l) == l = [addr |-> l.addr, global |-> l.global, gp |-> l.gp, uses |-> l.uses]
IsTable(t) == t = [k \in DOMAIN t |-> t[k]] /\ \A k \in DOMAIN t : IsLabel(t[k])

(* What a label owes its uses: they are patched when it gets its address,   *)
(* unless .extern gave it.                                                 *)
Resolved(l) == l.addr # 0 /\ l.uses # <<>> => l.gp /\ l.global
Sound(t) == IsTable(t) /\ \A k \in DOMAIN t : Resolved(t[k])

(* The labels of t that are in u have kept their address.                  *)
Stays(t, u) == \A k \in DOMAIN t \cap DOMAIN u : t[k].addr # 0 => u[k].addr = t[k].addr

LEMMA FieldSet ==
    ASSUME NEW l, IsLabel(l), NEW v
    PROVE  /\ [l EXCEPT !.addr = v] = [addr |-> v, global |-> l.global, gp |-> l.gp, uses |-> l.uses]
           /\ [l EXCEPT !.global = v] = [addr |-> l.addr, global |-> v, gp |-> l.gp, uses |-> l.uses]
           /\ [l EXCEPT !.gp = v] = [addr |-> l.addr, global |-> l.global, gp |-> v, uses |-> l.uses]
           /\ [l EXCEPT !.uses = v] = [addr |-> l.addr, global |-> l.global, gp |-> l.gp, uses |-> v]
<1>1. l = [addr |-> l.addr, global |-> l.global, gp |-> l.gp, uses |-> l.uses]
  BY DEF IsLabel
<1>2. [l EXCEPT !.addr = v] = [addr |-> v, global |-> l.global, gp |-> l.gp, uses |-> l.uses]
  BY <1>1
<1>3. [l EXCEPT !.global = v] = [addr |-> l.addr, global |-> v, gp |-> l.gp, uses |-> l.uses]
  BY <1>1
<1>4. [l EXCEPT !.gp = v] = [addr |-> l.addr, global |-> l.global, gp |-> v, uses |-> l.uses]
  BY <1>1
<1>5. [l EXCEPT !.uses = v] = [addr |-> l.addr, global |-> l.global, gp |-> l.gp, uses |-> v]
  BY <1>1
<1> QED BY <1>2, <1>3, <1>4, <1>5

(* A node looked up is in the table, with fields a new label has or the     *)
(* fields it had.                                                          *)
LEMMA LookedUp ==
    ASSUME Sound(complete_table), NEW n
    PROVE  /\ Sound(lookup_label(n)) /\ NodeOf(n) \in DOMAIN lookup_label(n)
           /\ DOMAIN complete_table \subseteq DOMAIN lookup_label(n)
           /\ \A k \in DOMAIN complete_table : lookup_label(n)[k] = complete_table[k]
<1> DEFINE t == complete_table
           k == NodeOf(n)
           u == lookup_label(n)
<1>1. u = [j \in DOMAIN t \cup {k} |-> IF j \in DOMAIN t THEN t[j] ELSE NewLabel]
  BY DEF lookup_label
<1>2. IsLabel(NewLabel) /\ Resolved(NewLabel)
  BY DEF IsLabel, Resolved, NewLabel
<1> HIDE DEF u, k
<1>3. Sound(u) /\ k \in DOMAIN u /\ DOMAIN t \subseteq DOMAIN u /\ \A j \in DOMAIN t : u[j] = t[j]
  BY <1>1, <1>2 DEF Sound, IsTable
<1> QED BY <1>3 DEF u, k

(* Changing the fields of one label.                                       *)
LEMMA OneChanged ==
    ASSUME NEW t, Sound(t), NEW k \in DOMAIN t, NEW l, IsLabel(l), Resolved(l)
    PROVE  /\ Sound([t EXCEPT ![k] = l])
           /\ (t[k].addr # 0 => l.addr = t[k].addr) => Stays(t, [t EXCEPT ![k] = l])
BY DEF Sound, IsTable, Stays

(* A use is added to a label without an address only.                      *)
LEMMA UseAdded ==
    ASSUME NEW t, Sound(t), NEW k \in DOMAIN t, t[k].addr = 0, NEW u
    PROVE  /\ Sound(Uses(t, k, u)) /\ DOMAIN Uses(t, k, u) = DOMAIN t
           /\ \A j \in DOMAIN t : Uses(t, k, u)[j].addr = t[j].addr /\ Uses(t, k, u)[j].gp = t[j].gp
<1> DEFINE l == [t[k] EXCEPT !.uses = <<u>> \o @]
<1>1. IsLabel(t[k])
  BY DEF Sound, IsTable
<1>2. IsLabel(l) /\ l.addr = 0 /\ l.gp = t[k].gp /\ Resolved(l)
  <2> DEFINE r == t[k]
             s == <<u>> \o r.uses
  <2>1. r = [addr |-> r.addr, global |-> r.global, gp |-> r.gp, uses |-> r.uses] /\ l = [r EXCEPT !.uses = s]
    BY <1>1 DEF IsLabel
  <2> HIDE DEF r, s
  <2>2. l = [addr |-> r.addr, global |-> r.global, gp |-> r.gp, uses |-> s]
    BY <2>1
  <2>3. r.addr = 0 /\ r.gp = t[k].gp
    BY DEF r
  <2> HIDE DEF l
  <2> QED BY <2>2, <2>3 DEF IsLabel, Resolved
<1>3. Uses(t, k, u) = [t EXCEPT ![k] = l]
  BY DEF Uses
<1> HIDE DEF l
<1>4. Sound([t EXCEPT ![k] = l])
  BY <1>2, OneChanged
<1> QED BY <1>2, <1>3, <1>4

(* What record_label makes of the label, in a table with its fields.        *)
LEMMA RecordedTable ==
    ASSUME NEW n, NEW a,
           LET t == lookup_label(n)
           IN  t = [j \in DOMAIN t |-> t[j]] /\ NodeOf(n) \in DOMAIN t /\ IsLabel(t[NodeOf(n)])
    PROVE  LET k == NodeOf(n)
               t == lookup_label(n)
               l == t[k]
               b == IF l.gp THEN l.addr ELSE a
               given == [t EXCEPT ![k].addr = b]
           IN  /\ given = [t EXCEPT ![k] = [addr |-> b, global |-> l.global, gp |-> l.gp, uses |-> l.uses]]
               /\ [given EXCEPT ![k].uses = <<>>]
                    = [t EXCEPT ![k] = [addr |-> b, global |-> l.global, gp |-> l.gp, uses |-> <<>>]]
               /\ given[k].addr = b /\ given[k].uses = l.uses
<1> DEFINE k == NodeOf(n)
           t == lookup_label(n)
           l == t[k]
           b == IF l.gp THEN l.addr ELSE a
           m == [addr |-> b, global |-> l.global, gp |-> l.gp, uses |-> l.uses]
           new == [addr |-> b, global |-> l.global, gp |-> l.gp, uses |-> <<>>]
           given == [t EXCEPT ![k].addr = b]
<1>1. t = [j \in DOMAIN t |-> t[j]] /\ k \in DOMAIN t /\ IsLabel(l)
  OBVIOUS
<1>2. [l EXCEPT !.addr = b] = m
  <2> HIDE DEF l, b
  <2> QED
    BY <1>1, FieldSet
<1>3. [m EXCEPT !.uses = <<>>] = new
  <2>1. IsLabel(m)
    BY DEF IsLabel
  <2>2. m.addr = b /\ m.global = l.global /\ m.gp = l.gp
    OBVIOUS
  <2> HIDE DEF m
  <2>3. [m EXCEPT !.uses = <<>>] = [addr |-> m.addr, global |-> m.global, gp |-> m.gp, uses |-> <<>>]
    BY <2>1, FieldSet
  <2> QED
    BY <2>2, <2>3
<1>4. given = [t EXCEPT ![k] = [l EXCEPT !.addr = b]]
  OBVIOUS
<1>5. m.addr = b /\ m.uses = l.uses
  OBVIOUS
<1> HIDE DEF t, k, m, new, given, b
<1>6. given = [t EXCEPT ![k] = m] /\ given[k] = m
  BY <1>1, <1>2, <1>4
<1>7. [given EXCEPT ![k].uses = <<>>] = [t EXCEPT ![k] = new]
  BY <1>1, <1>3, <1>6
<1> QED
  BY <1>5, <1>6, <1>7 DEF t, k, m, new, given, b

(* record_label keeps the address of a label that has one, in every case.   *)
LEMMA Recorded ==
    ASSUME Sound(complete_table), NEW n, NEW a
    PROVE  LET k == NodeOf(n)
               r == record_label(n, a)
           IN  /\ Sound(r.table) /\ Stays(complete_table, r.table)
               /\ k \in DOMAIN r.table /\ IsLabel(r.table[k]) /\ r.table[k].uses = <<>>
<1> DEFINE k == NodeOf(n)
           t == lookup_label(n)
           l == t[k]
           new == [addr |-> IF l.gp THEN l.addr ELSE a, global |-> l.global, gp |-> l.gp, uses |-> <<>>]
           u == record_label(n, a).table
<1>1. Sound(t) /\ k \in DOMAIN t /\ DOMAIN complete_table \subseteq DOMAIN t
      /\ \A j \in DOMAIN complete_table : t[j] = complete_table[j]
  BY LookedUp
<1>2. IsLabel(l) /\ Resolved(l)
  BY <1>1 DEF Sound, IsTable
<1>3. u = IF SecondDefinition(l) THEN t ELSE [t EXCEPT ![k] = new]
  <2>1. t = [j \in DOMAIN t |-> t[j]] /\ IsLabel(l)
    BY <1>1, <1>2 DEF Sound, IsTable
  <2>2. [[t EXCEPT ![k].addr = IF l.gp THEN @ ELSE a] EXCEPT ![k].uses = <<>>] = [t EXCEPT ![k] = new]
    BY <1>1, <2>1, RecordedTable
  <2> HIDE DEF new
  <2> QED BY <2>2 DEF record_label
<1>4. IsLabel(new) /\ Resolved(new) /\ new.uses = <<>>
  <2> HIDE DEF l
  <2> QED BY DEF IsLabel, Resolved
<1>5. CASE SecondDefinition(l)
  <2>1. l.uses = <<>>
    BY <1>2, <1>5 DEF Resolved, SecondDefinition
  <2>2. u = t
    BY <1>3, <1>5
  <2> HIDE DEF t, k, u
  <2>3. Sound(u) /\ Stays(complete_table, u) /\ k \in DOMAIN u /\ IsLabel(u[k]) /\ u[k].uses = <<>>
    BY <1>1, <1>2, <2>1, <2>2 DEF Stays
  <2> QED BY <2>3 DEF u, k
<1>6. CASE ~SecondDefinition(l)
  <2>1. l.addr # 0 => new.addr = l.addr
    BY <1>6 DEF SecondDefinition
  <2> HIDE DEF new, t, k, u
  <2>2. Sound([t EXCEPT ![k] = new]) /\ Stays(t, [t EXCEPT ![k] = new])
    BY <1>1, <1>4, <2>1, OneChanged DEF l
  <2>3. u = [t EXCEPT ![k] = new]
    BY <1>3, <1>6
  <2>4. u[k] = new /\ DOMAIN u = DOMAIN t
    BY <1>1, <2>3
  <2>5. Sound(u) /\ Stays(complete_table, u) /\ k \in DOMAIN u /\ IsLabel(u[k]) /\ u[k].uses = <<>>
    BY <1>1, <1>4, <2>2, <2>3, <2>4 DEF Stays
  <2> QED BY <2>5 DEF u, k
<1> QED BY <1>5, <1>6

(* Assembling an instruction changes no address, and moves no label.        *)
SameAddresses(t, u) ==
    DOMAIN u = DOMAIN t /\ \A k \in DOMAIN t : u[k].addr = t[k].addr /\ u[k].gp = t[k].gp
Knows(t, r) == r.sym # NoSym => r.sym \in DOMAIN t

LEMMA Assembled ==
    ASSUME NEW image, NEW r, Sound(image.table), Knows(image.table, r)
    PROVE  Sound(Assemble(image, r).table) /\ SameAddresses(image.table, Assemble(image, r).table)
<1> DEFINE t == image.table
           at == [inst |-> TRUE, at |-> Len(Append(image.text, r))]
<1>1. CASE r.sym # NoSym /\ ~Defined(r.sym, t)
  <2>1. Assemble(image, r).table = Uses(t, r.sym, at)
    BY <1>1 DEF Assemble
  <2>2. r.sym \in DOMAIN t /\ t[r.sym].addr = 0
    BY <1>1 DEF Knows, Defined
  <2> HIDE DEF t, at
  <2>3. Sound(t)
    BY DEF t
  <2>4. Sound(Uses(t, r.sym, at)) /\ SameAddresses(t, Uses(t, r.sym, at))
    BY <2>2, <2>3, UseAdded DEF SameAddresses
  <2> QED BY <2>1, <2>4 DEF t
<1>2. CASE ~(r.sym # NoSym /\ ~Defined(r.sym, t))
  <2>1. Assemble(image, r).table = t
    BY <1>2 DEF Assemble
  <2> QED BY <2>1 DEF SameAddresses
<1> QED BY <1>1, <1>2

LEMMA AllAssembled ==
    ASSUME Sound(complete_table), NEW n, NEW r, NEW s, NEW q,
           Knows(lookup_label(n), r), Knows(lookup_label(n), s), Knows(lookup_label(n), q)
    PROVE  \A image \in {One(n, r), Two(n, r, s), Three(n, r, s, q)} :
               /\ Sound(image.table) /\ Stays(complete_table, image.table)
               /\ SameAddresses(lookup_label(n), image.table)
<1> DEFINE t == lookup_label(n)
<1>1. Start(n).table = t /\ Sound(t) /\ Stays(complete_table, t)
  BY LookedUp DEF Start, Stays
<1>2. Sound(One(n, r).table) /\ SameAddresses(t, One(n, r).table)
  BY <1>1, Assembled DEF One
<1>3. Sound(Two(n, r, s).table) /\ SameAddresses(t, Two(n, r, s).table)
  <2>1. Knows(One(n, r).table, s)
    BY <1>2 DEF Knows, SameAddresses
  <2>2. Sound(Two(n, r, s).table) /\ SameAddresses(One(n, r).table, Two(n, r, s).table)
    BY <1>2, <2>1, Assembled DEF Two
  <2> QED BY <1>2, <2>2 DEF SameAddresses
<1>4. Sound(Three(n, r, s, q).table) /\ SameAddresses(t, Three(n, r, s, q).table)
  <2>1. Knows(Two(n, r, s).table, q)
    BY <1>3 DEF Knows, SameAddresses
  <2>2. Sound(Three(n, r, s, q).table) /\ SameAddresses(Two(n, r, s).table, Three(n, r, s, q).table)
    BY <1>3, <2>1, Assembled DEF Three
  <2> QED BY <1>3, <2>2 DEF SameAddresses
<1>5. DOMAIN complete_table \subseteq DOMAIN t /\ \A j \in DOMAIN complete_table : t[j] = complete_table[j]
  BY LookedUp
<1> HIDE DEF t
<1>6. ASSUME NEW u, SameAddresses(t, u) PROVE Stays(complete_table, u)
  BY <1>5, <1>6 DEF SameAddresses, Stays
<1> QED BY <1>2, <1>3, <1>4, <1>6 DEF t

(* The instructions name a label of the table or none.                     *)
LEMMA AllKnown ==
    ASSUME Sound(complete_table), NEW n, NEW r, r.sym \in {NodeOf(n), NoSym}
    PROVE  Knows(lookup_label(n), r)
BY LookedUp DEF Knows

LEMMA EmitStep ==
    ASSUME Sound(complete_table), NEW n, NEW r, NEW s, NEW q, NEW image,
           r.sym \in {NodeOf(n), NoSym}, s.sym \in {NodeOf(n), NoSym}, q.sym \in {NodeOf(n), NoSym},
           image \in {One(n, r), Two(n, r, s), Three(n, r, s, q)}, Emit(image)
    PROVE  /\ Sound(complete_table') /\ Stays(complete_table, complete_table')
           /\ SameAddresses(lookup_label(n), complete_table') /\ UNCHANGED local_labels
<1>1. Knows(lookup_label(n), r) /\ Knows(lookup_label(n), s) /\ Knows(lookup_label(n), q)
  BY AllKnown
<1>2. /\ Sound(image.table) /\ Stays(complete_table, image.table)
      /\ SameAddresses(lookup_label(n), image.table)
  BY <1>1, AllAssembled
<1> QED BY <1>2 DEF Emit

(* The handlers that assemble instructions naming n.                       *)
Assembles(n) ==
    \/ Jump(n) \/ \E moved \in BOOLEAN : Branch(n, moved)
    \/ \E off \in Offsets, indexed \in BOOLEAN : Load(n, off, indexed)
    \/ \E off \in Offsets : LoadAddress(n, off)

LEMMA Assembly ==
    ASSUME Sound(complete_table), NEW n, Assembles(n)
    PROVE  /\ Sound(complete_table') /\ Stays(complete_table, complete_table')
           /\ SameAddresses(lookup_label(n), complete_table') /\ UNCHANGED local_labels
<1> DEFINE Kept == /\ Sound(complete_table') /\ Stays(complete_table, complete_table')
                   /\ SameAddresses(lookup_label(n), complete_table') /\ UNCHANGED local_labels
<1>1. ASSUME Jump(n) PROVE Kept
  <2> DEFINE r == Inst("jump", NodeOf(n), 0, 0, "zero", NodeOf(n), 0)
  <2>1. r.sym = NodeOf(n) /\ Emit(One(n, r))
    BY <1>1 DEF Jump, Inst
  <2> HIDE DEF r
  <2> QED BY <2>1, EmitStep
<1>2. Other.sym = NoSym
  BY DEF Other, Inst
<1>3. ASSUME NEW moved \in BOOLEAN, Branch(n, moved) PROVE Kept
  <2> DEFINE r == Inst("branch", NodeOf(n), -current_text_pc, -1, "zero", NodeOf(n), 0)
  <2>1. r.sym = NodeOf(n) /\ (Emit(One(n, r)) \/ Emit(Two(n, Other, r)))
    BY <1>3 DEF Branch, Inst
  <2> HIDE DEF r
  <2> QED BY <2>1, <1>2, EmitStep
<1>4. ASSUME NEW off, NEW indexed \in BOOLEAN, Load(n, off, indexed) PROVE Kept
  <2> DEFINE r == Inst("load", NoSym, GpOffset(n, off), 0, "gp", NodeOf(n), off)
             p == FullWord(NodeOf(n), off)
  <2>1. r.sym = NoSym
    BY DEF Inst
  <2>2. p[1].sym \in {NodeOf(n), NoSym} /\ p[2].sym \in {NodeOf(n), NoSym}
    BY DEF FullWord, LoadKnown, LoadUnknown, Lui, Inst
  <2>3. Emit(One(n, r)) \/ Emit(Three(n, p[1], Other, p[2])) \/ Emit(Two(n, p[1], p[2]))
    BY <1>4 DEF Load
  <2> HIDE DEF r, p
  <2> QED BY <2>1, <2>2, <2>3, <1>2, EmitStep
<1>5. ASSUME NEW off, LoadAddress(n, off) PROVE Kept
  <2> DEFINE r == Inst("addi", NoSym, GpOffset(n, off), 0, "gp", NodeOf(n), off)
             s == Lui(NodeOf(n), off, 1)
             q == Ori(NodeOf(n), off, NodeOf(n), off)
             lone == UpperOnly(NodeOf(n), off)
  <2>1. r.sym = NoSym /\ s.sym = NodeOf(n) /\ q.sym = NodeOf(n) /\ lone.sym = NodeOf(n)
    BY DEF Inst, Lui, Ori, UpperOnly
  <2>2. Emit(One(n, r)) \/ Emit(One(n, lone)) \/ Emit(Two(n, s, q))
    BY <1>5 DEF LoadAddress, produce_immediate
  <2> HIDE DEF r, s, q, lone
  <2> QED BY <2>1, <2>2, EmitStep
<1> HIDE DEF Kept
<1>6. Kept
  BY <1>1, <1>3, <1>4, <1>5 DEF Assembles
<1> QED BY <1>6 DEF Kept

(* Every step keeps the table sound; every step but an allocation by        *)
(* .extern keeps the addresses.                                            *)
LEMMA StepSound ==
    ASSUME Sound(complete_table), [Next]_vars
    PROVE  Sound(complete_table') /\ (~GpNamesReused => Stays(complete_table, complete_table'))
<1> DEFINE Kept == Sound(complete_table') /\ Stays(complete_table, complete_table')
<1>1. ASSUME complete_table' = complete_table PROVE Kept
  BY <1>1 DEF Stays
<1>2. ASSUME NEW n, Label(n) PROVE Kept
  BY <1>2, Recorded DEF Label, Records
<1>3. ASSUME NEW n, Globl(n) PROVE Kept
  <2> DEFINE t == lookup_label(n)
             k == NodeOf(n)
             l == [t[k] EXCEPT !.global = TRUE]
  <2>1. Sound(t) /\ k \in DOMAIN t /\ DOMAIN complete_table \subseteq DOMAIN t
        /\ \A j \in DOMAIN complete_table : t[j] = complete_table[j]
    BY LookedUp
  <2>2. IsLabel(t[k]) /\ Resolved(t[k])
    BY <2>1 DEF Sound, IsTable
  <2>3. IsLabel(l) /\ Resolved(l) /\ l.addr = t[k].addr
    <3> DEFINE r == t[k]
    <3>1. l = [r EXCEPT !.global = TRUE] /\ IsLabel(r) /\ Resolved(r)
      BY <2>2
    <3> HIDE DEF r, l
    <3>2. l = [addr |-> r.addr, global |-> TRUE, gp |-> r.gp, uses |-> r.uses]
      BY <3>1 DEF IsLabel
    <3>3. IsLabel(l) /\ Resolved(l) /\ l.addr = r.addr
      BY <3>1, <3>2 DEF IsLabel, Resolved
    <3> QED BY <3>3 DEF r
  <2>4. complete_table' = [t EXCEPT ![k] = l]
    BY <1>3 DEF Globl, make_label_global
  <2> HIDE DEF t, k, l
  <2>5. Sound([t EXCEPT ![k] = l]) /\ Stays(t, [t EXCEPT ![k] = l])
    BY <2>1, <2>3, OneChanged
  <2> QED BY <2>1, <2>4, <2>5 DEF Stays
<1>4. ASSUME NEW n, Word(n) PROVE Kept
  <2> DEFINE t == lookup_label(n)
             k == NodeOf(n)
             u == [inst |-> FALSE, at |-> next_data_pc]
  <2>1. Sound(t) /\ k \in DOMAIN t /\ DOMAIN complete_table \subseteq DOMAIN t
        /\ \A j \in DOMAIN complete_table : t[j] = complete_table[j]
    BY LookedUp
  <2>2. complete_table' = IF Defined(k, t) THEN t ELSE Uses(t, k, u)
    BY <1>4 DEF Word
  <2> HIDE DEF t, k, u
  <2>3. CASE Defined(k, t)
    BY <2>1, <2>2, <2>3 DEF Stays
  <2>4. CASE ~Defined(k, t)
    <3>1. t[k].addr = 0
      BY <2>4 DEF Defined
    <3>2. Sound(Uses(t, k, u)) /\ \A j \in DOMAIN t : Uses(t, k, u)[j].addr = t[j].addr
      BY <2>1, <3>1, UseAdded
    <3> QED BY <2>1, <2>2, <2>4, <3>2 DEF Stays
  <2> QED BY <2>3, <2>4
<1>5. ASSUME NEW n, Assembles(n) PROVE Kept
  BY <1>5, Assembly
<1>10. ASSUME NEW n, NEW size, LcommSmall(n, size) PROVE Kept
  <2> DEFINE rec == record_label(n, next_gp_item_addr)
             k == NodeOf(n)
             l == [rec.table[k] EXCEPT !.gp = TRUE]
             t == rec.table
  <2>1. Sound(t) /\ Stays(complete_table, t) /\ k \in DOMAIN t /\ IsLabel(t[k]) /\ t[k].uses = <<>>
    BY Recorded
  <2>2. complete_table' = [t EXCEPT ![k] = l]
    <3>1. rec = [table |-> rec.table, text |-> rec.text, data |-> rec.data, locals |-> rec.locals]
      BY DEF record_label
    <3>2. complete_table' = [rec EXCEPT !.table[k].gp = TRUE].table
      BY <1>10 DEF LcommSmall, Records
    <3> HIDE DEF rec, k
    <3>3. [rec EXCEPT !.table[k].gp = TRUE].table = [rec.table EXCEPT ![k].gp = TRUE]
      BY <3>1
    <3> QED BY <3>2, <3>3
  <2>3. IsLabel(l) /\ Resolved(l) /\ l.addr = t[k].addr
    <3> DEFINE r == t[k]
    <3>1. l = [r EXCEPT !.gp = TRUE] /\ IsLabel(r) /\ r.uses = <<>>
      BY <2>1
    <3> HIDE DEF r, l
    <3>2. l = [addr |-> r.addr, global |-> r.global, gp |-> TRUE, uses |-> r.uses]
      BY <3>1 DEF IsLabel
    <3>3. IsLabel(l) /\ Resolved(l) /\ l.addr = r.addr
      BY <3>1, <3>2 DEF IsLabel, Resolved
    <3> QED BY <3>3 DEF r
  <2> HIDE DEF t, k, l
  <2>4. Sound([t EXCEPT ![k] = l]) /\ Stays(t, [t EXCEPT ![k] = l])
    BY <2>1, <2>3, OneChanged
  <2>5. DOMAIN [t EXCEPT ![k] = l] = DOMAIN t
    OBVIOUS
  <2> QED BY <2>1, <2>2, <2>3, <2>4, <2>5 DEF Stays
<1>11. ASSUME NEW n, NEW size, LcommLarge(n, size) PROVE Kept
  BY <1>11, Recorded DEF LcommLarge, Records
<1>12. ASSUME NEW n, NEW size, Comm(n, size) PROVE Kept
  <2>1. CASE Defined(NodeOf(n), lookup_label(n))
    <3>1. complete_table' = lookup_label(n)
      BY <1>12, <2>1 DEF Comm
    <3> QED BY <3>1, LookedUp DEF Stays
  <2>2. CASE ~Defined(NodeOf(n), lookup_label(n))
    BY <1>12, <2>2, Recorded DEF Comm, Records
  <2> QED BY <2>1, <2>2
<1>13. ASSUME NEW n, NEW size, extern_directive(n, size)
       PROVE Sound(complete_table') /\ (~GpNamesReused => Stays(complete_table, complete_table'))
  <2> DEFINE t == lookup_label(n)
             k == NodeOf(n)
             g == make_label_global(n)
             u == [g EXCEPT ![k].gp = TRUE, ![k].addr = next_gp_item_addr]
  <2>0. PICK allocated \in BOOLEAN :
            IF allocated THEN NotYet(n) /\ complete_table' = u ELSE complete_table' = g
    BY <1>13 DEF extern_directive
  <2>1. Sound(t) /\ k \in DOMAIN t /\ DOMAIN complete_table \subseteq DOMAIN t
        /\ \A j \in DOMAIN complete_table : t[j] = complete_table[j]
    BY LookedUp
  <2> DEFINE r == t[k]
             lg == [addr |-> r.addr, global |-> TRUE, gp |-> r.gp, uses |-> r.uses]
             lu == [addr |-> next_gp_item_addr, global |-> TRUE, gp |-> TRUE, uses |-> r.uses]
  <2>2. IsLabel(r) /\ Resolved(r)
    BY <2>1 DEF Sound, IsTable
  <2>3. g = [t EXCEPT ![k] = lg] /\ g[k] = lg
    <3>1. r = [addr |-> r.addr, global |-> r.global, gp |-> r.gp, uses |-> r.uses]
      BY <2>2 DEF IsLabel
    <3>2. g = [t EXCEPT ![k] = [r EXCEPT !.global = TRUE]]
      BY DEF make_label_global
    <3>3. [r EXCEPT !.global = TRUE] = lg
      BY <2>2, FieldSet DEF r
    <3> HIDE DEF g, r, lg, t, k
    <3> QED BY <2>1, <3>2, <3>3
  <2>4. u = [t EXCEPT ![k] = lu]
    <3> HIDE DEF g, t, k, r
    <3>1. u = [g EXCEPT ![k] = [[g[k] EXCEPT !.gp = TRUE] EXCEPT !.addr = next_gp_item_addr]]
      BY <2>3
    <3>2. [[lg EXCEPT !.gp = TRUE] EXCEPT !.addr = next_gp_item_addr] = lu
      <4> DEFINE m == [addr |-> r.addr, global |-> TRUE, gp |-> TRUE, uses |-> r.uses]
      <4>0. lg.addr = r.addr /\ lg.global = TRUE /\ lg.uses = r.uses /\ IsLabel(lg)
        BY DEF IsLabel
      <4>1. m.global = TRUE /\ m.gp = TRUE /\ m.uses = r.uses /\ IsLabel(m)
        BY DEF IsLabel
      <4>2. [lg EXCEPT !.gp = TRUE] = m
        <5> HIDE DEF lg, m
        <5>1. [lg EXCEPT !.gp = TRUE] = [addr |-> lg.addr, global |-> lg.global, gp |-> TRUE, uses |-> lg.uses]
          BY <4>0, FieldSet
        <5> QED BY <4>0, <5>1 DEF m
      <4> HIDE DEF m, lg
      <4>3. [m EXCEPT !.addr = next_gp_item_addr] = lu
        BY <4>1, FieldSet
      <4> QED BY <4>2, <4>3
    <3> HIDE DEF lg, lu
    <3> QED BY <2>1, <2>3, <3>1, <3>2
  <2>5. IsLabel(lg) /\ Resolved(lg) /\ lg.addr = r.addr /\ IsLabel(lu) /\ Resolved(lu)
    <3> HIDE DEF r
    <3> QED BY <2>2 DEF IsLabel, Resolved
  <2>6. NotYet(n) /\ ~GpNamesReused => r.addr = 0
    BY DEF NotYet, Defined
  <2> HIDE DEF t, k, g, u, lg, lu
  <2>7. Sound([t EXCEPT ![k] = lg]) /\ Stays(t, [t EXCEPT ![k] = lg])
    BY <2>1, <2>5, OneChanged DEF r
  <2>8. Sound([t EXCEPT ![k] = lu]) /\ (r.addr = 0 => Stays(t, [t EXCEPT ![k] = lu]))
    BY <2>1, <2>5, OneChanged DEF r
  <2>9. CASE allocated
    BY <2>0, <2>1, <2>4, <2>6, <2>8, <2>9 DEF Stays
  <2>10. CASE ~allocated
    BY <2>0, <2>1, <2>3, <2>7, <2>10 DEF Stays
  <2> QED BY <2>9, <2>10
<1>14. ASSUME flush_local_labels PROVE Kept
  <2>1. complete_table' = [k \in DOMAIN complete_table \ Range(local_labels) |-> complete_table[k]]
    BY <1>14 DEF flush_local_labels, Restrict
  <2> QED BY <2>1 DEF Sound, IsTable, Stays
<1>15. ASSUME Text \/ (\E a \in DataPoints \cup {next_data_pc} : Data(a)) \/ UNCHANGED vars
       PROVE complete_table' = complete_table
  BY <1>15 DEF Text, Data, vars
<1> HIDE DEF Kept
<1>16. CASE \E n \in Names : Label(n) \/ Globl(n) \/ Word(n) \/ Jump(n)
  BY <1>16, <1>2, <1>3, <1>4, <1>5 DEF Kept, Assembles
<1>17. CASE \E n \in Names, size \in LcommSizes : lcomm_directive(n, size)
  BY <1>17, <1>10, <1>11 DEF Kept, lcomm_directive
<1>18. CASE (\E n \in Names, size \in CommSizes : Comm(n, size))
            \/ (\E n \in Names, size \in ExternSizes : extern_directive(n, size))
  BY <1>18, <1>12, <1>13 DEF Kept
<1>19. CASE \/ \E n \in Names, moved \in BOOLEAN : Branch(n, moved)
            \/ \E n \in Names, off \in Offsets, indexed \in BOOLEAN : Load(n, off, indexed)
            \/ \E n \in Names, off \in Offsets : LoadAddress(n, off)
  BY <1>19, <1>5 DEF Kept, Assembles
<1>20. CASE flush_local_labels
  BY <1>20, <1>14 DEF Kept
<1>21. CASE Text \/ (\E a \in DataPoints \cup {next_data_pc} : Data(a)) \/ UNCHANGED vars
  BY <1>21, <1>1, <1>15 DEF Kept
<1> QED BY <1>16, <1>17, <1>18, <1>19, <1>20, <1>21 DEF Next

LEMMA TableSound == Spec => []Sound(complete_table)
<1>1. Init => Sound(complete_table)
  BY DEF Init, Sound, IsTable
<1>2. Sound(complete_table) /\ [Next]_vars => Sound(complete_table)'
  BY StepSound DEF Sound, IsTable, IsLabel, Resolved
<1> QED BY <1>1, <1>2, PTL DEF Spec

(* A label with an address has no use left to patch, unless .extern gave    *)
(* it its address: record_label always resolves the uses it finds.         *)
THEOREM ResolvedTheorem == Spec => []DefinedLabelsAreResolved
<1>1. Sound(complete_table) => DefinedLabelsAreResolved
  BY DEF Sound, Resolved, DefinedLabelsAreResolved
<1> QED BY <1>1, TableSound, PTL

(* No directive moves a label that has an address, when a name of the $gp   *)
(* area is not defined a second time.                                      *)
THEOREM AddressTheorem ==
    ASSUME ~GpNamesReused
    PROVE  Spec => AddressesNeverMove
<1>1. Sound(complete_table) /\ [Next]_vars => Stays(complete_table, complete_table')
  BY StepSound
<1>2. Stays(complete_table, complete_table')
        => \A k \in DOMAIN complete_table \cap DOMAIN complete_table' :
              Defined(k, complete_table) => complete_table'[k].addr = complete_table[k].addr
  BY DEF Stays, Defined
<1> QED BY <1>1, <1>2, TableSound, PTL DEF Spec, AddressesNeverMove

----------------------------------------------------------------------------
(* The types.                                                              *)
LEMMA AfterUsesSteps ==
    ASSUME NEW uses, NEW k, NEW table
    PROVE  /\ AfterUses(uses, k, table)[0] = [text |-> text, data |-> data]
           /\ \A n \in Nat : AfterUses(uses, k, table)[n + 1]
                                = Patch(AfterUses(uses, k, table)[n], uses[n + 1], k, table)
<1> DEFINE Def(image, n) == Patch(image, uses[n], k, table)
           f == AfterUses(uses, k, table)
           start == [text |-> text, data |-> data]
<1>1. NatInductiveDefHypothesis(f, start, Def)
  BY DEF AfterUses, NatInductiveDefHypothesis
<1> HIDE DEF Def, f, start
<1>2. NatInductiveDefConclusion(f, start, Def)
  BY <1>1, NatInductiveDef
<1>3. f = [n \in Nat |-> IF n = 0 THEN start ELSE Patch(f[n - 1], uses[n], k, table)]
  BY <1>2 DEF NatInductiveDefConclusion, Def
<1>4. ASSUME NEW n \in Nat PROVE f[n + 1] = Patch(f[n], uses[n + 1], k, table)
  <2>1. n + 1 \in Nat /\ n + 1 # 0 /\ (n + 1) - 1 = n
    OBVIOUS
  <2> QED
    BY <1>3, <2>1
<1> QED
  BY <1>3, <1>4 DEF f, start

(* What TypeOK says of an instruction and of a label, field by field.       *)
Ops == {"other", "jump", "branch", "lui", "load", "ori", "addi"}
Instruction ==
    [op : Ops, sym : Node \cup {NoSym}, off : Int, bits : {-1, 0, 1}, base : {"zero", "gp", "at"},
     field : Int, of : Node \cup {NoSym}, plus : Int]
Code == {r \in Instruction : r.field \in Fields(r.op)}

(* Instructions that differ in what resolving fills in only.                *)
Alike(r, s) ==
    r.op = s.op /\ r.sym = s.sym /\ r.bits = s.bits /\ r.base = s.base /\ r.of = s.of /\ r.plus = s.plus

LEMMA InstFieldSet ==
    ASSUME NEW r \in Instruction, NEW v \in Int
    PROVE  /\ [r EXCEPT !.field = v] \in Instruction /\ Alike([r EXCEPT !.field = v], r)
           /\ [r EXCEPT !.field = v].field = v /\ [r EXCEPT !.field = v].off = r.off
           /\ [r EXCEPT !.off = v] \in Instruction /\ Alike([r EXCEPT !.off = v], r)
           /\ [r EXCEPT !.off = v].off = v /\ [r EXCEPT !.off = v].field = r.field
<1>1. r = [op |-> r.op, sym |-> r.sym, off |-> r.off, bits |-> r.bits, base |-> r.base,
           field |-> r.field, of |-> r.of, plus |-> r.plus]
      /\ r.op \in Ops /\ r.sym \in Node \cup {NoSym} /\ r.off \in Int /\ r.bits \in {-1, 0, 1}
      /\ r.base \in {"zero", "gp", "at"} /\ r.field \in Int /\ r.of \in Node \cup {NoSym} /\ r.plus \in Int
  BY DEF Instruction
<1>2. [r EXCEPT !.field = v] = [op |-> r.op, sym |-> r.sym, off |-> r.off, bits |-> r.bits, base |-> r.base,
           field |-> v, of |-> r.of, plus |-> r.plus]
  BY <1>1
<1>3. [r EXCEPT !.off = v] = [op |-> r.op, sym |-> r.sym, off |-> v, bits |-> r.bits, base |-> r.base,
           field |-> r.field, of |-> r.of, plus |-> r.plus]
  BY <1>1
<1>4. [r EXCEPT !.field = v] \in Instruction /\ [r EXCEPT !.off = v] \in Instruction
  BY <1>1, <1>2, <1>3 DEF Instruction
<1> QED
  BY <1>1, <1>2, <1>3, <1>4 DEF Alike

LEMMA HalfFact ==
    /\ Half \in Nat \ {0} /\ Half \div 2 \in Nat \ {0} /\ Half = (Half \div 2) + (Half \div 2)
    /\ 4096 * Half = 4 * (1024 * Half) /\ 1024 * Half \in Nat \ {0} /\ Half > 4
BY Z3 DEF Half

LEMMA HalfFacts ==
    ASSUME NEW v \in Int
    PROVE  /\ v % Half \in 0 .. Half - 1 /\ v \div Half \in Int /\ (v \div Half) % Half \in 0 .. Half - 1
           /\ Signed16(v) \in -(Half \div 2) .. (Half \div 2) - 1
           /\ Signed16(v) = v % Half \/ Signed16(v) = (v % Half) - Half
           /\ Negative(v) <=> (v % Half) >= Half \div 2
           /\ Signed16(v % Half) = Signed16(v)
           /\ JumpField(v) \in 0 .. 1024 * Half /\ BranchField(v) \in Int
<1> DEFINE h == Half \div 2
           m == v % Half
           q == v \div Half
<1>0. h \in Nat \ {0} /\ Half = h + h /\ Half \in Nat \ {0}
  BY HalfFact
<1>1. m \in 0 .. Half - 1 /\ q \in Int /\ q % Half \in 0 .. Half - 1
  BY <1>0, IntSplit
<1>2. Negative(v) <=> m >= h
  BY DEF Negative
<1>3. Signed16(v) = IF m >= h THEN m - Half ELSE m
  BY <1>2 DEF Signed16
<1>4. m % Half = m
  <2>1. m = 0 * Half + m
    BY <1>0, <1>1
  <2> HIDE DEF m
  <2> QED
    BY <1>0, <1>1, <2>1, ModUnique
<1>5. Signed16(m) = IF m >= h THEN m - Half ELSE m
  BY <1>4 DEF Signed16, Negative
<1>6. JumpField(v) \in 0 .. 1024 * Half
  <2> DEFINE k == 1024 * Half
             j == v % (4096 * Half)
  <2>1. k \in Nat \ {0} /\ 4096 * Half = 4 * k /\ JumpField(v) = j \div 4
    BY HalfFact DEF JumpField
  <2>2. 4 * k \in Nat \ {0}
    BY <2>1
  <2>3. j \in 0 .. 4 * k - 1
    <3> DEFINE n == 4096 * Half
    <3>1. n \in Nat \ {0} /\ n = 4 * k /\ j = v % n
      BY <2>1, <2>2
    <3> HIDE DEF n, j, k
    <3>2. j \in 0 .. n - 1
      BY <3>1, IntSplit
    <3> QED
      BY <3>1, <3>2
  <2> HIDE DEF j, k
  <2>4. j \div 4 \in 0 .. k
    BY <2>1, <2>3, Z3
  <2> QED
    BY <2>1, <2>4 DEF k
<1> HIDE DEF m, q, h
<1>7. Signed16(v) \in -h .. h - 1 /\ Signed16(m) = Signed16(v) /\ (Signed16(v) = m \/ Signed16(v) = m - Half)
  BY <1>0, <1>1, <1>3, <1>5
<1>8. BranchField(v) \in Int
  <2>1. Signed16(v) \in Int
    BY <1>0, <1>7
  <2>2. Signed16(v) \div 4 \in Int
    BY <2>1, Z3
  <2>3. (Signed16(v) \div 4) % Half \in Int
    BY <1>0, <2>2, IntSplit
  <2> QED
    BY <2>3 DEF BranchField
<1> QED
  BY <1>1, <1>2, <1>6, <1>7, <1>8 DEF m, q, h

LEMMA LayoutFact ==
    /\ TextBase \in Nat /\ DataBase \in Nat /\ GpBase \in Nat /\ GpTop \in Nat /\ DataPoints \subseteq Nat
    /\ TextBase >= Half /\ DataBase >= Half /\ GpBase >= Half
    /\ \A i \in Nat : AddrOf(i) \in Int
<1>1. /\ TextBase \in Nat /\ DataBase \in Nat /\ GpBase \in Nat /\ GpTop \in Nat /\ DataPoints \subseteq Nat
      /\ TextBase >= Half /\ DataBase >= Half /\ GpBase >= Half
  BY AddressAssumption
<1> QED
  BY <1>1 DEF AddrOf

(* The value of an expression, from the address of the label it names.      *)
LEMMA EvalFact ==
    ASSUME NEW r, r.off \in Int, NEW t, NEW a \in Int, a = IF r.sym = NoSym THEN 0 ELSE t[r.sym].addr
    PROVE  /\ eval_imm_expr(r, t) \in Int
           /\ r.bits = 0 => eval_imm_expr(r, t) = r.off + a
           /\ r.bits = 1 => eval_imm_expr(r, t) = ((r.off + a) \div Half) % Half
           /\ r.bits = -1 => eval_imm_expr(r, t) = (r.off + a) % Half
<1> DEFINE value == r.off + a
<1>1. value \in Int
  OBVIOUS
<1>2. eval_imm_expr(r, t) = CASE r.bits > 0 -> (value \div Half) % Half
                              [] r.bits < 0 -> value % Half
                              [] OTHER -> value
  BY DEF eval_imm_expr
<1> HIDE DEF value
<1>3. value % Half \in Int /\ (value \div Half) % Half \in Int
  BY <1>1, HalfFacts, HalfFact
<1>4. CASE r.bits > 0
  BY <1>2, <1>3, <1>4 DEF value
<1>5. CASE ~(r.bits > 0) /\ r.bits < 0
  BY <1>2, <1>3, <1>5 DEF value
<1>6. CASE ~(r.bits > 0) /\ ~(r.bits < 0)
  BY <1>1, <1>2, <1>6 DEF value
<1> QED
  BY <1>4, <1>5, <1>6

(* Where resolving instruction i looks for the LUI to compensate.           *)
CompensatedAt(code, i) == IF Unresolved(code, i - 1, code[i].sym) THEN i - 1 ELSE i - 2
Carry(code, i, j) == IF j = CompensatedAt(code, i) /\ Unresolved(code, j, code[i].sym) THEN Half ELSE 0

LEMMA CompensatedCode ==
    ASSUME NEW c \in Seq(Code), NEW i \in 1 .. Len(c)
    PROVE  /\ Compensated(c, i) \in Seq(Code) /\ Len(Compensated(c, i)) = Len(c)
           /\ Compensated(c, i)[i] = c[i]
           /\ \A j \in 1 .. Len(c) :
                 /\ Alike(Compensated(c, i)[j], c[j]) /\ Compensated(c, i)[j].field = c[j].field
                 /\ Compensated(c, i)[j].off = c[j].off + Carry(c, i, j)
<1> DEFINE u == CompensatedAt(c, i)
           d == Compensated(c, i)
<1>0. u \in Int /\ u < i /\ \A j \in 1 .. Len(c) : c[j] \in Code /\ c[j].off \in Int /\ c[j].off + 0 = c[j].off
  <2>1. \A j \in 1 .. Len(c) : c[j] \in Code
    BY ElementOfSeq
  <2>2. \A j \in 1 .. Len(c) : c[j].off \in Int
    BY <2>1 DEF Code, Instruction
  <2>3. u \in Int /\ u < i
    <3>1. i \in Int /\ u \in {i - 1, i - 2}
      BY DEF CompensatedAt
    <3> HIDE DEF u
    <3> QED
      BY <3>1
  <2> HIDE DEF u
  <2> QED
    BY <2>1, <2>2, <2>3
<1>1. CASE Unresolved(c, u, c[i].sym)
  <2> DEFINE e == [c[u] EXCEPT !.off = @ + Half]
  <2>1. u \in 1 .. Len(c)
    BY <1>0, <1>1 DEF Unresolved
  <2>2. d = [c EXCEPT ![u] = e]
    BY <1>1, <2>1 DEF Compensated, CompensatedAt
  <2>3. e \in Code /\ Alike(e, c[u]) /\ e.field = c[u].field /\ e.off = c[u].off + Half
    <3> DEFINE r == c[u]
               v == r.off + Half
    <3>0. r \in Code /\ r.off \in Int /\ Half \in Int
      BY <1>0, <2>1, HalfFact
    <3>a. e = [r EXCEPT !.off = v]
      OBVIOUS
    <3>1. r \in Instruction /\ r.field \in Fields(r.op) /\ v \in Int
      BY <3>0 DEF Code
    <3> HIDE DEF r, v, e
    <3>2. e \in Instruction /\ Alike(e, r) /\ e.field = r.field /\ e.off = v
      BY <3>1, <3>a, InstFieldSet
    <3>3. e \in Code
      BY <3>1, <3>2 DEF Code, Alike
    <3> QED
      BY <3>2, <3>3 DEF r, v
  <2>4. u # i /\ \A j \in 1 .. Len(c) : Carry(c, i, j) = IF j = u THEN Half ELSE 0
    BY <1>0, <1>1 DEF Carry
  <2> HIDE DEF u, d, e
  <2>5. d \in Seq(Code) /\ Len(d) = Len(c) /\ \A j \in 1 .. Len(c) : d[j] = IF j = u THEN e ELSE c[j]
    BY <2>1, <2>2, <2>3, ExceptSeq
  <2>6. \A j \in 1 .. Len(c) : Alike(c[j], c[j])
    BY DEF Alike
  <2> QED
    BY <1>0, <2>1, <2>3, <2>4, <2>5, <2>6 DEF d
<1>2. CASE ~Unresolved(c, u, c[i].sym)
  <2>1. d = c
    BY <1>2 DEF Compensated, CompensatedAt
  <2>2. \A j \in 1 .. Len(c) : Carry(c, i, j) = 0 /\ Alike(c[j], c[j])
    BY <1>2 DEF Carry, Alike
  <2> QED
    BY <1>0, <2>1, <2>2
<1> QED
  BY <1>1, <1>2

(* Resolving one instruction: the field it gets, from the value of its      *)
(* expression, and the LUI it may compensate.                              *)
FieldOf(op, value) ==
    CASE op = "branch" -> Signed16(BranchField(value))
      [] op = "jump" -> JumpField(value)
      [] OTHER -> Signed16(value)
ValueAt(c, i, t) == eval_imm_expr(Rebased(c[i], AddrOf(i)), t)

LEMMA FieldType ==
    ASSUME NEW op, NEW value \in Int
    PROVE  FieldOf(op, value) \in Fields(op) /\ FieldOf(op, value) \in Int
<1>1. BranchField(value) \in Int
  BY HalfFacts
<1>2. Signed16(value) \in -(Half \div 2) .. (Half \div 2) - 1 /\ JumpField(value) \in 0 .. 1024 * Half
      /\ Signed16(BranchField(value)) \in -(Half \div 2) .. (Half \div 2) - 1
  BY <1>1, HalfFacts
<1>3. FieldOf(op, value) \in Fields(op)
  <2>1. CASE op = "branch"
    BY <1>2, <2>1 DEF FieldOf, Fields
  <2>2. CASE op = "jump"
    BY <1>2, <2>2 DEF FieldOf, Fields
  <2>3. CASE op # "branch" /\ op # "jump"
    BY <1>2, <2>3 DEF FieldOf, Fields
  <2> QED
    BY <2>1, <2>2, <2>3
<1>4. Half \div 2 \in Nat /\ 1024 * Half \in Nat
  BY HalfFact
<1>5. Fields(op) \subseteq Int
  BY <1>4 DEF Fields
<1> QED
  BY <1>3, <1>5

LEMMA ResolvedCode ==
    ASSUME NEW c \in Seq(Code), NEW i \in 1 .. Len(c), NEW t, ValueAt(c, i, t) \in Int
    PROVE  LET d == resolve_a_label_sub(c, i, t)
               v == ValueAt(c, i, t)
           IN  /\ d \in Seq(Code) /\ Len(d) = Len(c)
               /\ \A j \in 1 .. Len(c) :
                     /\ Alike(d[j], c[j])
                     /\ d[j].field = IF j = i THEN FieldOf(c[i].op, v) ELSE c[j].field
                     /\ j # i => d[j].off = c[j].off + IF c[i].op = "load" /\ Negative(v) THEN Carry(c, i, j) ELSE 0
                     /\ j = i /\ c[i].op # "branch" => d[j].off = c[i].off
<1> DEFINE d == resolve_a_label_sub(c, i, t)
           v == ValueAt(c, i, t)
           pc == AddrOf(i)
           r == Rebased(c[i], pc)
           others == IF c[i].op = "load" /\ Negative(v) THEN Compensated(c, i) ELSE c
           e == [r EXCEPT !.field = FieldOf(c[i].op, v)]
<1>1. c[i] \in Code /\ \A j \in 1 .. Len(c) : c[j] \in Code /\ c[j].off \in Int /\ Alike(c[j], c[j])
  <2>1. \A j \in 1 .. Len(c) : c[j] \in Code
    BY ElementOfSeq
  <2> QED
    BY <2>1 DEF Code, Instruction, Alike
<1>2. r \in Instruction /\ Alike(r, c[i]) /\ (c[i].op # "branch" => r = c[i])
  <2> DEFINE s == c[i]
             w == -pc
  <2>1. pc \in Int /\ s \in Instruction
    BY <1>1, LayoutFact DEF Code
  <2>2. r = IF s.op = "branch" THEN [s EXCEPT !.off = w] ELSE s
    BY DEF Rebased
  <2>3. Alike(s, s)
    BY DEF Alike
  <2>4. w \in Int
    BY <2>1
  <2> HIDE DEF s, r, w
  <2>5. [s EXCEPT !.off = w] \in Instruction /\ Alike([s EXCEPT !.off = w], s)
    BY <2>1, <2>4, InstFieldSet
  <2> QED
    BY <2>1, <2>2, <2>3, <2>5 DEF s
<1>3. e \in Code /\ Alike(e, c[i]) /\ e.field = FieldOf(c[i].op, v) /\ e.off = r.off
  <2> DEFINE f == FieldOf(c[i].op, v)
  <2>1. f \in Fields(c[i].op) /\ f \in Int
    BY FieldType
  <2> HIDE DEF f, r
  <2>2. e = [r EXCEPT !.field = f]
    BY DEF f
  <2> HIDE DEF e
  <2>3. e \in Instruction /\ Alike(e, r) /\ e.field = f /\ e.off = r.off
    BY <1>2, <2>1, <2>2, InstFieldSet
  <2> QED
    BY <1>2, <2>1, <2>3 DEF f, Code, Alike
<1>4. d = [others EXCEPT ![i] = e]
  BY <1>2 DEF resolve_a_label_sub, FieldOf, ValueAt, Alike
<1>5. /\ others \in Seq(Code) /\ Len(others) = Len(c)
      /\ \A j \in 1 .. Len(c) :
            /\ Alike(others[j], c[j]) /\ others[j].field = c[j].field
            /\ others[j].off = c[j].off + IF c[i].op = "load" /\ Negative(v) THEN Carry(c, i, j) ELSE 0
  <2>1. CASE c[i].op = "load" /\ Negative(v)
    BY <2>1, CompensatedCode
  <2>2. CASE ~(c[i].op = "load" /\ Negative(v))
    BY <1>1, <2>2
  <2> QED
    BY <2>1, <2>2
<1> HIDE DEF d, e, others
<1>6. d \in Seq(Code) /\ Len(d) = Len(c) /\ \A j \in 1 .. Len(c) : d[j] = IF j = i THEN e ELSE others[j]
  <2>1. i \in 1 .. Len(others)
    BY <1>5
  <2> QED
    BY <1>3, <1>4, <1>5, <2>1, ExceptSeq
<1>7. \A j \in 1 .. Len(c) :
         /\ Alike(d[j], c[j])
         /\ d[j].field = IF j = i THEN FieldOf(c[i].op, v) ELSE c[j].field
         /\ j # i => d[j].off = c[j].off + IF c[i].op = "load" /\ Negative(v) THEN Carry(c, i, j) ELSE 0
         /\ j = i /\ c[i].op # "branch" => d[j].off = c[i].off
  <2> SUFFICES ASSUME NEW j \in 1 .. Len(c)
               PROVE  /\ Alike(d[j], c[j])
                      /\ d[j].field = IF j = i THEN FieldOf(c[i].op, v) ELSE c[j].field
                      /\ j # i => d[j].off = c[j].off + IF c[i].op = "load" /\ Negative(v) THEN Carry(c, i, j) ELSE 0
                      /\ j = i /\ c[i].op # "branch" => d[j].off = c[i].off
    OBVIOUS
  <2>1. CASE j = i
    BY <1>2, <1>3, <1>6, <2>1
  <2>2. CASE j # i
    BY <1>5, <1>6, <2>2
  <2> QED
    BY <2>1, <2>2
<1> QED
  BY <1>6, <1>7 DEF d

(* The table as TypeOK wants it, and what its uses point at.                *)
FullLabel == [addr : Nat, global : BOOLEAN, gp : BOOLEAN, uses : Seq(Use)]
Words == [word : Nat, of : Node]
TypedTable(t) ==
    /\ t \in [DOMAIN t -> FullLabel] /\ DOMAIN t \subseteq Node
    /\ \A j, k \in DOMAIN t : j.name = k.name => j = k
PointsAt(k, u, c, d) ==
    IF u.inst THEN u.at \in 1 .. Len(c) /\ c[u.at].sym = k ELSE u.at \in DOMAIN d /\ d[u.at].of = k
Points(t, c, d) == \A k \in DOMAIN t : \A p \in 1 .. Len(t[k].uses) : PointsAt(k, t[k].uses[p], c, d)
Image(t, c, d) == TypedTable(t) /\ c \in Seq(Code) /\ d \in [DOMAIN d -> Words] /\ Points(t, c, d)

LEMMA NewLabelFact == NewLabel \in FullLabel /\ NewLabel.uses = <<>> /\ Len(NewLabel.uses) = 0 /\ NewLabel.addr = 0
                      /\ NewLabel.gp = FALSE /\ NewLabel.global = FALSE
<1>1. <<>> \in Seq(Use) /\ Len(<<>>) = 0
  BY EmptySeq
<1> QED
  BY <1>1 DEF NewLabel, FullLabel

LEMMA NodeFact ==
    ASSUME TypedTable(complete_table), NEW n \in Names, file \in 1 .. MaxFiles
    PROVE  /\ NodeOf(n) \in Node /\ NodeOf(n).name = n
           /\ \A k \in DOMAIN complete_table : k.name = n => k = NodeOf(n)
           /\ NodeOf(n) \notin DOMAIN complete_table => NodeOf(n).file = file
<1> DEFINE t == complete_table
           k == NodeOf(n)
<1>1. CASE \E j \in DOMAIN t : j.name = n
  <2>1. k \in DOMAIN t /\ k.name = n
    BY <1>1 DEF NodeOf
  <2> QED
    BY <2>1 DEF TypedTable
<1>2. CASE ~\E j \in DOMAIN t : j.name = n
  <2>1. k = [name |-> n, file |-> file]
    BY <1>2 DEF NodeOf
  <2> QED
    BY <1>2, <2>1 DEF Node
<1> QED
  BY <1>1, <1>2

LEMMA LookupFact ==
    ASSUME NEW n
    PROVE  /\ DOMAIN lookup_label(n) = DOMAIN complete_table \cup {NodeOf(n)}
           /\ NodeOf(n) \in DOMAIN lookup_label(n)
           /\ \A k \in DOMAIN complete_table : lookup_label(n)[k] = complete_table[k]
           /\ NodeOf(n) \notin DOMAIN complete_table => lookup_label(n)[NodeOf(n)] = NewLabel
BY DEF lookup_label

LEMMA LookupImage ==
    ASSUME NEW c, NEW d, Image(complete_table, c, d), NEW n \in Names, file \in 1 .. MaxFiles
    PROVE  Image(lookup_label(n), c, d)
<1> DEFINE t == complete_table
           u == lookup_label(n)
           k == NodeOf(n)
<1>1. /\ k \in Node /\ k.name = n /\ \A j \in DOMAIN t : j.name = n => j = k
  BY NodeFact DEF Image
<1>2. /\ DOMAIN u = DOMAIN t \cup {k} /\ \A j \in DOMAIN t : u[j] = t[j]
      /\ k \notin DOMAIN t => u[k] = NewLabel
  BY LookupFact
<1>3. u = [j \in DOMAIN u |-> u[j]]
  BY DEF lookup_label
<1> HIDE DEF u, k
<1>4. \A j \in DOMAIN u : u[j] \in FullLabel
  BY <1>2, NewLabelFact DEF Image, TypedTable
<1>5. TypedTable(u)
  BY <1>1, <1>2, <1>3, <1>4 DEF TypedTable, Image
<1>6. Points(u, c, d)
  BY <1>2, NewLabelFact DEF Image, Points
<1> QED
  BY <1>5, <1>6 DEF Image, u

LEMMA LabelSet ==
    ASSUME NEW l \in FullLabel, NEW a \in Nat, NEW b \in BOOLEAN, NEW s \in Seq(Use)
    PROVE  /\ [l EXCEPT !.addr = a] = [addr |-> a, global |-> l.global, gp |-> l.gp, uses |-> l.uses]
           /\ [l EXCEPT !.global = b] = [addr |-> l.addr, global |-> b, gp |-> l.gp, uses |-> l.uses]
           /\ [l EXCEPT !.gp = b] = [addr |-> l.addr, global |-> l.global, gp |-> b, uses |-> l.uses]
           /\ [l EXCEPT !.uses = s] = [addr |-> l.addr, global |-> l.global, gp |-> l.gp, uses |-> s]
           /\ [l EXCEPT !.addr = a] \in FullLabel /\ [l EXCEPT !.global = b] \in FullLabel
           /\ [l EXCEPT !.gp = b] \in FullLabel /\ [l EXCEPT !.uses = s] \in FullLabel
<1>1. IsLabel(l) /\ l.addr \in Nat /\ l.global \in BOOLEAN /\ l.gp \in BOOLEAN /\ l.uses \in Seq(Use)
  BY DEF FullLabel, IsLabel
<1>2. /\ [l EXCEPT !.addr = a] = [addr |-> a, global |-> l.global, gp |-> l.gp, uses |-> l.uses]
      /\ [l EXCEPT !.global = b] = [addr |-> l.addr, global |-> b, gp |-> l.gp, uses |-> l.uses]
      /\ [l EXCEPT !.gp = b] = [addr |-> l.addr, global |-> l.global, gp |-> b, uses |-> l.uses]
      /\ [l EXCEPT !.uses = s] = [addr |-> l.addr, global |-> l.global, gp |-> l.gp, uses |-> s]
  BY <1>1, FieldSet
<1> QED
  BY <1>1, <1>2 DEF FullLabel

(* A table with one label changed.                                         *)
LEMMA ChangedImage ==
    ASSUME NEW t, NEW c, NEW d, Image(t, c, d), NEW k \in DOMAIN t, NEW l \in FullLabel,
           \A p \in 1 .. Len(l.uses) : PointsAt(k, l.uses[p], c, d)
    PROVE  Image([t EXCEPT ![k] = l], c, d)
<1> DEFINE u == [t EXCEPT ![k] = l]
<1>1. DOMAIN u = DOMAIN t /\ u = [j \in DOMAIN t |-> IF j = k THEN l ELSE t[j]]
  BY DEF Image, TypedTable
<1> HIDE DEF u
<1>2. TypedTable(u)
  BY <1>1 DEF Image, TypedTable
<1>3. Points(u, c, d)
  BY <1>1 DEF Image, Points
<1> QED
  BY <1>2, <1>3 DEF Image, u

(* Instructions put at the end, and words added, leave the uses as they were. *)
LEMMA GrownImage ==
    ASSUME NEW t, NEW c, NEW d, Image(t, c, d), NEW e \in Seq(Code), NEW f, f \in [DOMAIN f -> Words],
           Len(c) <= Len(e), \A i \in 1 .. Len(c) : e[i].sym = c[i].sym,
           DOMAIN d \subseteq DOMAIN f, \A a \in DOMAIN d : f[a].of = d[a].of
    PROVE  Image(t, e, f)
<1>1. Len(c) \in Nat /\ Len(e) \in Nat
  BY LenProperties DEF Image
<1>2. Points(t, e, f)
  <2> SUFFICES ASSUME NEW k \in DOMAIN t, NEW p \in 1 .. Len(t[k].uses) PROVE PointsAt(k, t[k].uses[p], e, f)
    BY DEF Points
  <2>1. PointsAt(k, t[k].uses[p], c, d)
    BY DEF Image, Points
  <2> QED
    BY <1>1, <2>1 DEF PointsAt
<1> QED
  BY <1>2 DEF Image

LEMMA AppendedCode ==
    ASSUME NEW c \in Seq(Code), NEW r \in Code
    PROVE  /\ Append(c, r) \in Seq(Code) /\ Len(Append(c, r)) = Len(c) + 1 /\ Len(c) \in Nat
           /\ Len(Append(c, r)) \in 1 .. Len(Append(c, r))
           /\ \A i \in 1 .. Len(c) : Append(c, r)[i] = c[i]
           /\ Append(c, r)[Len(c) + 1] = r
BY LenProperties

LEMMA UsePrepended ==
    ASSUME NEW s \in Seq(Use), NEW u \in Use
    PROVE  /\ <<u>> \o s \in Seq(Use) /\ Len(<<u>> \o s) = Len(s) + 1 /\ Len(s) \in Nat
           /\ (<<u>> \o s)[1] = u /\ \A p \in 1 .. Len(s) : (<<u>> \o s)[p + 1] = s[p]
           /\ \A p \in 1 .. Len(s) + 1 : p = 1 \/ (p - 1 \in 1 .. Len(s) /\ (<<u>> \o s)[p] = s[p - 1])
<1> DEFINE v == <<u>>
           w == v \o s
<1>1. v \in Seq(Use) /\ Len(v) = 1 /\ v[1] = u /\ Len(s) \in Nat
  BY LenProperties
<1> HIDE DEF v
<1>2. w \in Seq(Use) /\ Len(w) = 1 + Len(s)
      /\ \A p \in 1 .. 1 + Len(s) : w[p] = IF p <= 1 THEN v[p] ELSE s[p - 1]
  <2>1. /\ v \o s \in Seq(Use) /\ Len(v \o s) = Len(v) + Len(s)
        /\ \A p \in 1 .. Len(v) + Len(s) : (v \o s)[p] = IF p <= Len(v) THEN v[p] ELSE s[p - Len(v)]
    BY <1>1, ConcatProperties, Zenon
  <2> QED
    BY <1>1, <2>1
<1> HIDE DEF w
<1>3. w[1] = u /\ \A p \in 1 .. Len(s) : w[p + 1] = s[p]
  BY <1>1, <1>2
<1>4. \A p \in 1 .. Len(s) + 1 : p = 1 \/ (p - 1 \in 1 .. Len(s) /\ w[p] = s[p - 1])
  BY <1>1, <1>2
<1>5. w \in Seq(Use) /\ Len(w) = Len(s) + 1
  BY <1>1, <1>2
<1> QED
  BY <1>1, <1>3, <1>4, <1>5 DEF w, v

(* A use more of one label, of what names it.                              *)
LEMMA UseImage ==
    ASSUME NEW t, NEW c, NEW d, Image(t, c, d), NEW k \in DOMAIN t, NEW u \in Use, PointsAt(k, u, c, d)
    PROVE  /\ Image(Uses(t, k, u), c, d) /\ DOMAIN Uses(t, k, u) = DOMAIN t
           /\ Uses(t, k, u)[k] = [addr |-> t[k].addr, global |-> t[k].global, gp |-> t[k].gp,
                                  uses |-> <<u>> \o t[k].uses]
           /\ \A j \in DOMAIN t \ {k} : Uses(t, k, u)[j] = t[j]
<1> DEFINE r == t[k]
           s == <<u>> \o r.uses
           l == [r EXCEPT !.uses = s]
<1>1. r \in FullLabel /\ r.uses \in Seq(Use) /\ t = [j \in DOMAIN t |-> t[j]]
      /\ \A p \in 1 .. Len(r.uses) : PointsAt(k, r.uses[p], c, d)
  BY DEF Image, TypedTable, FullLabel, Points
<1>2. Uses(t, k, u) = [t EXCEPT ![k] = l]
  BY DEF Uses
<1> HIDE DEF r
<1>3. s \in Seq(Use) /\ Len(s) = Len(r.uses) + 1 /\ s[1] = u
      /\ \A p \in 1 .. Len(r.uses) + 1 : p = 1 \/ (p - 1 \in 1 .. Len(r.uses) /\ s[p] = r.uses[p - 1])
  BY <1>1, UsePrepended
<1> HIDE DEF s
<1>4. l = [addr |-> r.addr, global |-> r.global, gp |-> r.gp, uses |-> s] /\ l \in FullLabel
  BY <1>1, <1>3, LabelSet DEF FullLabel
<1>5. \A p \in 1 .. Len(s) : PointsAt(k, s[p], c, d)
  <2> SUFFICES ASSUME NEW p \in 1 .. Len(s) PROVE PointsAt(k, s[p], c, d)
    OBVIOUS
  <2>1. p = 1 \/ (p - 1 \in 1 .. Len(r.uses) /\ s[p] = r.uses[p - 1])
    BY <1>3
  <2> QED
    BY <1>1, <1>3, <2>1
<1>6. l.uses = s
  BY <1>4
<1> HIDE DEF l
<1>7. Image([t EXCEPT ![k] = l], c, d)
  BY <1>4, <1>5, <1>6, ChangedImage
<1> QED
  BY <1>1, <1>2, <1>4, <1>7 DEF r, s

(* The value of the expression that resolving instruction i evaluates.      *)
LEMMA ValueFact ==
    ASSUME NEW c \in Seq(Code), NEW i \in 1 .. Len(c), NEW t, NEW a \in Int,
           a = IF c[i].sym = NoSym THEN 0 ELSE t[c[i].sym].addr
    PROVE  LET off == IF c[i].op = "branch" THEN -AddrOf(i) ELSE c[i].off
           IN  /\ ValueAt(c, i, t) \in Int /\ off \in Int
               /\ c[i].bits = 0 => ValueAt(c, i, t) = off + a
               /\ c[i].bits = 1 => ValueAt(c, i, t) = ((off + a) \div Half) % Half
               /\ c[i].bits = -1 => ValueAt(c, i, t) = (off + a) % Half
<1> DEFINE s == c[i]
           w == -AddrOf(i)
           r == Rebased(s, AddrOf(i))
<1>1. s \in Instruction /\ s.off \in Int /\ w \in Int
  <2>1. s \in Code
    BY ElementOfSeq
  <2>2. i \in Nat
    OBVIOUS
  <2>3. AddrOf(i) \in Int
    BY <2>2, LayoutFact
  <2> QED
    BY <2>1, <2>3 DEF Code, Instruction
<1>2. r = IF s.op = "branch" THEN [s EXCEPT !.off = w] ELSE s
  BY DEF Rebased
<1>3. ValueAt(c, i, t) = eval_imm_expr(r, t)
  BY DEF ValueAt
<1> HIDE DEF r, s, w
<1>4. [s EXCEPT !.off = w] \in Instruction /\ Alike([s EXCEPT !.off = w], s) /\ [s EXCEPT !.off = w].off = w
  BY <1>1, InstFieldSet
<1>5. r.sym = s.sym /\ r.bits = s.bits /\ r.off = IF s.op = "branch" THEN w ELSE s.off
  BY <1>2, <1>4 DEF Alike
<1>6. r.off \in Int /\ a = IF r.sym = NoSym THEN 0 ELSE t[r.sym].addr
  BY <1>1, <1>5 DEF s
<1>7. /\ eval_imm_expr(r, t) \in Int
      /\ r.bits = 0 => eval_imm_expr(r, t) = r.off + a
      /\ r.bits = 1 => eval_imm_expr(r, t) = ((r.off + a) \div Half) % Half
      /\ r.bits = -1 => eval_imm_expr(r, t) = (r.off + a) % Half
  BY <1>6, EvalFact
<1> QED
  BY <1>3, <1>5, <1>6, <1>7 DEF s, w

(* One instruction more: it is resolved, or its label remembers it.         *)
LEMMA AssembledImage ==
    ASSUME NEW m, NEW d, Image(m.table, m.text, d), NEW r \in Code, r.sym \in DOMAIN m.table \cup {NoSym}
    PROVE  LET A == Assemble(m, r)
           IN  /\ Image(A.table, A.text, d) /\ DOMAIN A.table = DOMAIN m.table
               /\ Len(A.text) = Len(m.text) + 1 /\ Len(m.text) \in Nat
<1> DEFINE t == m.table
           c == m.text
           code == Append(c, r)
           i == Len(code)
           A == Assemble(m, r)
           u == [inst |-> TRUE, at |-> i]
<1>1. c \in Seq(Code) /\ NoSym \notin DOMAIN t /\ DOMAIN d \subseteq DOMAIN d /\ d \in [DOMAIN d -> Words]
  BY AddressAssumption DEF Image, TypedTable, Node
<1>2. /\ code \in Seq(Code) /\ i = Len(c) + 1 /\ Len(c) \in Nat /\ i \in 1 .. Len(code)
      /\ \A j \in 1 .. Len(c) : code[j] = c[j]
      /\ code[i] = r
  BY <1>1, AppendedCode
<1>3. CASE r.sym # NoSym /\ ~Defined(r.sym, t)
  <2>1. A.text = code /\ A.table = Uses(t, r.sym, u)
    BY <1>3 DEF Assemble
  <2>2. u \in Use /\ PointsAt(r.sym, u, code, d) /\ r.sym \in DOMAIN t
    BY <1>2, <1>3 DEF Use, PointsAt
  <2> HIDE DEF t, c, code, i, A, u
  <2>3. Image(t, c, d)
    BY DEF t, c
  <2>4. Image(t, code, d)
    BY <1>1, <1>2, <2>3, GrownImage
  <2>5. Image(Uses(t, r.sym, u), code, d) /\ DOMAIN Uses(t, r.sym, u) = DOMAIN t
    <3> DEFINE k == r.sym
    <3>1. k \in DOMAIN t /\ u \in Use /\ PointsAt(k, u, code, d)
      BY <2>2
    <3> HIDE DEF k
    <3>2. Image(Uses(t, k, u), code, d)
      BY <2>4, <3>1, UseImage
    <3>3. DOMAIN Uses(t, k, u) = DOMAIN t
      BY DEF Uses
    <3> QED
      BY <3>2, <3>3 DEF k
  <2> QED
    BY <1>2, <2>1, <2>5 DEF A, t, c, i
<1>4. CASE ~(r.sym # NoSym /\ ~Defined(r.sym, t))
  <2> DEFINE e == resolve_a_label_sub(code, i, t)
             a == IF r.sym = NoSym THEN 0 ELSE t[r.sym].addr
  <2>1. A.text = e /\ A.table = t
    BY <1>4 DEF Assemble
  <2>2. a \in Int
    BY DEF Image, TypedTable, FullLabel
  <2> HIDE DEF t, c, code, i, A, a
  <2>3. a = IF code[i].sym = NoSym THEN 0 ELSE t[code[i].sym].addr
    BY <1>2 DEF a
  <2>4. ValueAt(code, i, t) \in Int
    BY <1>2, <2>2, <2>3, ValueFact
  <2>5. e \in Seq(Code) /\ Len(e) = Len(code) /\ \A j \in 1 .. Len(code) : Alike(e[j], code[j])
    BY <1>2, <2>4, ResolvedCode
  <2> HIDE DEF e
  <2>6. Image(t, c, d) /\ Len(c) <= Len(e) /\ \A j \in 1 .. Len(c) : e[j].sym = c[j].sym
    BY <1>2, <2>5 DEF t, c, Alike, i
  <2>7. Image(t, e, d)
    BY <1>1, <2>5, <2>6, GrownImage
  <2> QED
    BY <1>2, <2>1, <2>5, <2>7 DEF A, t, c, i
<1> QED
  BY <1>3, <1>4

LEMMA PatchFact ==
    ASSUME NEW c, NEW d, d \in [DOMAIN d -> Words], NEW u, u.inst \/ u.at \in DOMAIN d, NEW k, NEW table
    PROVE  Patch([text |-> c, data |-> d], u, k, table)
             = [text |-> IF u.inst THEN resolve_a_label_sub(c, u.at, table) ELSE c,
                data |-> IF u.inst THEN d ELSE [d EXCEPT ![u.at] = [word |-> table[k].addr, of |-> d[u.at].of]]]
<1> DEFINE m == [text |-> c, data |-> d]
           e == resolve_a_label_sub(c, u.at, table)
           a == table[k].addr
           x == u.at
<1>1. CASE u.inst
  <2>1. Patch(m, u, k, table) = [m EXCEPT !.text = e]
    BY <1>1 DEF Patch
  <2> HIDE DEF e
  <2> QED
    BY <1>1, <2>1 DEF e
<1>2. CASE ~u.inst
  <2>1. Patch(m, u, k, table) = [m EXCEPT !.data[x].word = a]
    BY <1>2 DEF Patch
  <2>2. x \in DOMAIN d /\ d[x] \in Words
    BY <1>2
  <2> HIDE DEF a, x
  <2>3. [d[x] EXCEPT !.word = a] = [word |-> a, of |-> d[x].of]
    <3> DEFINE w == d[x]
    <3>1. w = [word |-> w.word, of |-> w.of]
      BY <2>2 DEF Words
    <3> HIDE DEF w
    <3>2. [w EXCEPT !.word = a] = [word |-> a, of |-> w.of]
      BY <3>1
    <3> QED
      BY <3>2 DEF w
  <2>4. [m EXCEPT !.data[x].word = a] = [text |-> c, data |-> [d EXCEPT ![x] = [d[x] EXCEPT !.word = a]]]
    OBVIOUS
  <2> QED
    BY <1>2, <2>1, <2>3, <2>4 DEF a, x
<1> QED
  BY <1>1, <1>2

(* Patching any number of a label's uses changes fields, the words that     *)
(* name it, and nothing else.                                              *)
Patched(image) ==
    /\ image = [text |-> image.text, data |-> image.data]
    /\ image.text \in Seq(Code) /\ Len(image.text) = Len(text)
    /\ \A i \in 1 .. Len(text) : Alike(image.text[i], text[i])
    /\ image.data \in [DOMAIN data -> Words] /\ \A a \in DOMAIN data : image.data[a].of = data[a].of

LEMMA PatchedUse ==
    ASSUME NEW image, Patched(image), NEW table, NEW k, table[k].addr \in Nat, k # NoSym, NEW u,
           PointsAt(k, u, text, data)
    PROVE  Patched(Patch(image, u, k, table))
<1> DEFINE c == image.text
           d == image.data
           a == table[k].addr
           x == u.at
           new == Patch(image, u, k, table)
<1>1. /\ image = [text |-> c, data |-> d] /\ c \in Seq(Code) /\ Len(c) = Len(text)
      /\ \A i \in 1 .. Len(text) : Alike(c[i], text[i])
      /\ DOMAIN d = DOMAIN data /\ d \in [DOMAIN d -> Words] /\ \A b \in DOMAIN data : d[b].of = data[b].of
  BY DEF Patched
<1> HIDE DEF c, d, new
<1>2. u.inst \/ u.at \in DOMAIN d
  BY <1>1 DEF PointsAt
<1>3. new = [text |-> IF u.inst THEN resolve_a_label_sub(c, x, table) ELSE c,
             data |-> IF u.inst THEN d ELSE [d EXCEPT ![x] = [word |-> a, of |-> d[x].of]]]
  BY <1>1, <1>2, PatchFact DEF new
<1>4. CASE u.inst
  <2> DEFINE e == resolve_a_label_sub(c, x, table)
  <2>1. x \in 1 .. Len(c) /\ c[x].sym = k
    BY <1>1, <1>4 DEF PointsAt, Alike
  <2>2. ValueAt(c, x, table) \in Int
    <3>1. a \in Int /\ a = IF c[x].sym = NoSym THEN 0 ELSE table[c[x].sym].addr
      BY <2>1
    <3> HIDE DEF a, x
    <3> QED
      BY <1>1, <2>1, <3>1, ValueFact
  <2> HIDE DEF x
  <2>3. e \in Seq(Code) /\ Len(e) = Len(c) /\ \A i \in 1 .. Len(c) : Alike(e[i], c[i])
    BY <1>1, <2>1, <2>2, ResolvedCode
  <2> HIDE DEF e
  <2>4. new = [text |-> e, data |-> d]
    BY <1>3, <1>4 DEF e
  <2>5. \A i \in 1 .. Len(text) : Alike(e[i], text[i])
    BY <1>1, <2>3 DEF Alike
  <2> QED
    BY <1>1, <2>3, <2>4, <2>5 DEF Patched, new
<1>5. CASE ~u.inst
  <2> DEFINE w == [word |-> a, of |-> d[x].of]
             f == [d EXCEPT ![x] = w]
  <2>1. x \in DOMAIN d /\ d[x].of \in Node
    BY <1>1, <1>2, <1>5 DEF Words
  <2>2. w \in Words /\ w.of = d[x].of
    BY <2>1 DEF Words
  <2>3. new = [text |-> c, data |-> f]
    BY <1>3, <1>5
  <2> HIDE DEF w, x
  <2>4. f \in [DOMAIN data -> Words] /\ \A b \in DOMAIN data : f[b].of = data[b].of
    BY <1>1, <2>1, <2>2
  <2> HIDE DEF f
  <2> QED
    BY <1>1, <2>3, <2>4 DEF Patched, new
<1> QED
  BY <1>4, <1>5

LEMMA PatchedUses ==
    ASSUME text \in Seq(Code), data \in [DOMAIN data -> Words],
           NEW table, NEW k, table[k].addr \in Nat, k # NoSym, NEW uses, Len(uses) \in Nat,
           \A p \in 1 .. Len(uses) : PointsAt(k, uses[p], text, data)
    PROVE  \A n \in 0 .. Len(uses) : Patched(AfterUses(uses, k, table)[n])
<1> DEFINE f == AfterUses(uses, k, table)
           S == {n \in Nat : n <= Len(uses) => Patched(f[n])}
<1>0. f[0] = [text |-> text, data |-> data] /\ \A n \in Nat : f[n + 1] = Patch(f[n], uses[n + 1], k, table)
  BY AfterUsesSteps
<1> HIDE DEF f
<1>1. 0 \in S
  BY <1>0 DEF Patched, Alike
<1>2. ASSUME NEW n \in Nat, n \in S PROVE n + 1 \in S
  <2> SUFFICES ASSUME n + 1 <= Len(uses) PROVE Patched(f[n + 1])
    OBVIOUS
  <2>1. n + 1 \in 1 .. Len(uses) /\ Patched(f[n])
    BY <1>2
  <2>2. PointsAt(k, uses[n + 1], text, data)
    BY <2>1
  <2>3. Patched(Patch(f[n], uses[n + 1], k, table))
    BY <2>1, <2>2, PatchedUse
  <2> QED
    BY <1>0, <2>3
<1> HIDE DEF S
<1>3. Nat \subseteq S
  BY <1>1, <1>2, SetInduction
<1> QED
  BY <1>3 DEF S, f

(* record_label, when it is not a second definition: the label it leaves,   *)
(* and the fold over its uses.                                             *)
GivenAddr(n, a) == IF lookup_label(n)[NodeOf(n)].gp THEN lookup_label(n)[NodeOf(n)].addr ELSE a
Given(n, a) ==
    LET l == lookup_label(n)[NodeOf(n)]
    IN  [lookup_label(n) EXCEPT ![NodeOf(n)] =
            [addr |-> GivenAddr(n, a), global |-> l.global, gp |-> l.gp, uses |-> l.uses]]
Recorded1(n, a) ==
    LET l == lookup_label(n)[NodeOf(n)]
    IN  [addr |-> GivenAddr(n, a), global |-> l.global, gp |-> l.gp, uses |-> <<>>]
PatchedImage(n, a) ==
    LET uses == lookup_label(n)[NodeOf(n)].uses
    IN  AfterUses(uses, NodeOf(n), Given(n, a))[Len(uses)]

LEMMA RecordFact ==
    ASSUME NEW n, TypedTable(lookup_label(n)), NodeOf(n) \in DOMAIN lookup_label(n), NEW a
    PROVE  LET k == NodeOf(n)
               t == lookup_label(n)
               r == record_label(n, a)
           IN  IF SecondDefinition(t[k])
               THEN r.table = t /\ r.text = text /\ r.data = data /\ r.locals = local_labels
               ELSE /\ r.table = [t EXCEPT ![k] = Recorded1(n, a)]
                    /\ r.text = PatchedImage(n, a).text /\ r.data = PatchedImage(n, a).data
                    /\ r.locals = IF t[k].global THEN local_labels ELSE <<k>> \o local_labels
<1> DEFINE k == NodeOf(n)
           t == lookup_label(n)
           l == t[k]
           r == record_label(n, a)
           b == IF l.gp THEN l.addr ELSE a
           given == [t EXCEPT ![k].addr = b]
<1>1. l \in FullLabel /\ t = [j \in DOMAIN t |-> t[j]] /\ k \in DOMAIN t
  BY DEF TypedTable
<1>2. IsLabel(l)
  BY <1>1 DEF FullLabel, IsLabel
<1>3. /\ given = Given(n, a) /\ [given EXCEPT ![k].uses = <<>>] = [t EXCEPT ![k] = Recorded1(n, a)]
      /\ given[k].uses = l.uses
  <2> DEFINE m == [addr |-> b, global |-> l.global, gp |-> l.gp, uses |-> l.uses]
             new == [addr |-> b, global |-> l.global, gp |-> l.gp, uses |-> <<>>]
  <2>1. given = [t EXCEPT ![k] = m] /\ [given EXCEPT ![k].uses = <<>>] = [t EXCEPT ![k] = new] /\ given[k].uses = l.uses
    BY <1>1, <1>2, RecordedTable
  <2>2. Given(n, a) = [t EXCEPT ![k] = m] /\ Recorded1(n, a) = new
    BY DEF Given, Recorded1, GivenAddr
  <2> QED
    BY <2>1, <2>2
<1>4. CASE SecondDefinition(l)
  BY <1>4 DEF record_label
<1>5. CASE ~SecondDefinition(l)
  <2>1. resolve_label_uses(k, given) = AfterUses(given[k].uses, k, given)[Len(given[k].uses)]
    BY DEF resolve_label_uses, InOrder
  <2>2. resolve_label_uses(k, given) = PatchedImage(n, a)
    <3> HIDE DEF given
    <3> QED
      BY <1>3, <2>1 DEF PatchedImage
  <2>3. r = [table |-> [given EXCEPT ![k].uses = <<>>], text |-> resolve_label_uses(k, given).text,
             data |-> resolve_label_uses(k, given).data,
             locals |-> IF l.global THEN local_labels ELSE <<k>> \o local_labels]
    BY <1>5 DEF record_label
  <2> HIDE DEF given, t, k, r, l
  <2>4. /\ r.table = [given EXCEPT ![k].uses = <<>>] /\ r.text = PatchedImage(n, a).text
        /\ r.data = PatchedImage(n, a).data /\ r.locals = IF l.global THEN local_labels ELSE <<k>> \o local_labels
    BY <2>2, <2>3
  <2>5. r.table = [t EXCEPT ![k] = Recorded1(n, a)]
    BY <1>3, <2>4
  <2> QED
    BY <1>5, <2>4, <2>5 DEF t, k, r, l
<1> QED
  BY <1>4, <1>5

LEMMA RecordedImage ==
    ASSUME Image(complete_table, text, data), NEW n \in Names, file \in 1 .. MaxFiles, NEW a \in Nat,
           local_labels \in Seq(Node)
    PROVE  LET r == record_label(n, a)
               k == NodeOf(n)
           IN  /\ Image(r.table, r.text, r.data) /\ DOMAIN r.table = DOMAIN lookup_label(n)
               /\ Len(r.text) = Len(text) /\ DOMAIN r.data = DOMAIN data /\ r.locals \in Seq(Node)
               /\ k \in Node /\ k \in DOMAIN r.table
<1> DEFINE k == NodeOf(n)
           t == lookup_label(n)
           l == t[k]
           r == record_label(n, a)
           new == Recorded1(n, a)
<1>0. k \in Node /\ k \in DOMAIN t /\ k # NoSym
  BY NodeFact, LookupFact, AddressAssumption DEF Image, Node
<1>1. Image(t, text, data) /\ TypedTable(t)
  BY LookupImage DEF Image
<1>2. l \in FullLabel /\ l.uses \in Seq(Use) /\ l.addr \in Nat /\ l.global \in BOOLEAN /\ l.gp \in BOOLEAN
      /\ \A p \in 1 .. Len(l.uses) : PointsAt(k, l.uses[p], text, data)
  BY <1>0, <1>1 DEF TypedTable, FullLabel, Image, Points
<1>3. IF SecondDefinition(l)
      THEN r.table = t /\ r.text = text /\ r.data = data /\ r.locals = local_labels
      ELSE /\ r.table = [t EXCEPT ![k] = new]
           /\ r.text = PatchedImage(n, a).text /\ r.data = PatchedImage(n, a).data
           /\ r.locals = IF l.global THEN local_labels ELSE <<k>> \o local_labels
  BY <1>0, <1>1, RecordFact
<1>4. CASE SecondDefinition(l)
  BY <1>0, <1>1, <1>3, <1>4
<1>5. CASE ~SecondDefinition(l)
  <2> DEFINE given == Given(n, a)
             image == PatchedImage(n, a)
             b == GivenAddr(n, a)
  <2>1. b \in Nat
    BY <1>2 DEF GivenAddr
  <2>2. new = [addr |-> b, global |-> l.global, gp |-> l.gp, uses |-> <<>>] /\ new \in FullLabel /\ Len(new.uses) = 0
    BY <1>2, <2>1, EmptySeq DEF Recorded1, FullLabel
  <2>3. given[k].addr = b
    BY <1>0 DEF Given
  <2>4. Patched(image)
    <3> DEFINE uses == l.uses
    <3>1. Len(uses) \in Nat
      BY <1>2, LenProperties
    <3>2. image = AfterUses(uses, k, given)[Len(uses)]
      BY DEF PatchedImage
    <3>3. text \in Seq(Code) /\ data \in [DOMAIN data -> Words]
      BY DEF Image
    <3>4. given[k].addr \in Nat
      BY <2>1, <2>3
    <3> HIDE DEF image, uses, given, k
    <3>5. \A p \in 1 .. Len(uses) : PointsAt(k, uses[p], text, data)
      BY <1>2 DEF uses, k
    <3>6. \A m \in 0 .. Len(uses) : Patched(AfterUses(uses, k, given)[m])
      BY <1>0, <3>1, <3>3, <3>4, <3>5, PatchedUses
    <3> QED
      BY <3>1, <3>2, <3>6
  <2> HIDE DEF image, given, k, t, l, r, new, b
  <2>5. Image([t EXCEPT ![k] = new], text, data)
    <3>1. \A p \in 1 .. Len(new.uses) : PointsAt(k, new.uses[p], text, data)
      BY <2>2
    <3> QED
      BY <1>0, <1>1, <2>2, <3>1, ChangedImage
  <2>6. /\ image.text \in Seq(Code) /\ Len(image.text) = Len(text) /\ Len(text) \in Nat
        /\ \A i \in 1 .. Len(text) : image.text[i].sym = text[i].sym
        /\ DOMAIN image.data = DOMAIN data /\ image.data \in [DOMAIN image.data -> Words]
        /\ \A x \in DOMAIN data : image.data[x].of = data[x].of
    BY <2>4, LenProperties DEF Patched, Alike, Image
  <2>7. Image([t EXCEPT ![k] = new], image.text, image.data)
    <3> DEFINE u == [t EXCEPT ![k] = new]
               c == image.text
               d == image.data
    <3>1. Image(u, text, data) /\ c \in Seq(Code) /\ Len(text) <= Len(c)
          /\ DOMAIN data \subseteq DOMAIN d /\ d \in [DOMAIN d -> Words]
          /\ (\A i \in 1 .. Len(text) : c[i].sym = text[i].sym) /\ \A x \in DOMAIN data : d[x].of = data[x].of
      BY <2>5, <2>6
    <3> HIDE DEF u, c, d
    <3> QED
      BY <3>1, GrownImage DEF u, c, d
  <2>8. r.locals \in Seq(Node)
    <3>1. <<k>> \in Seq(Node)
      BY <1>0
    <3>2. <<k>> \o local_labels \in Seq(Node)
      BY <3>1, ConcatProperties
    <3> QED
      BY <1>3, <1>5, <3>2
  <2>9. DOMAIN [t EXCEPT ![k] = new] = DOMAIN t
    OBVIOUS
  <2> QED
    BY <1>0, <1>3, <1>5, <2>6, <2>7, <2>8, <2>9 DEF image, k, t, l, r, new
<1> QED
  BY <1>4, <1>5

(* Everything TypeOK says, and that the uses point at what names the label. *)
TypeInvariant ==
    /\ Image(complete_table, text, data)
    /\ local_labels \in Seq(Node)
    /\ DOMAIN data \subseteq DataBase .. next_data_pc - 4
    /\ text_dir \in BOOLEAN /\ next_data_pc \in Nat /\ next_data_pc >= DataBase
    /\ next_gp_item_addr \in GpBase .. GpTop
    /\ file \in 1 .. MaxFiles /\ crashed \in BOOLEAN

LEMMA NoField == \A op : 0 \in Fields(op)
BY HalfFact DEF Fields

LEMMA OtherFact == Other \in Code /\ Other.sym = NoSym
  BY NoField DEF Other, Inst, Code, Instruction, Ops

(* The sequences the handlers emit.                                        *)
LEMMA OneImage ==
    ASSUME TypeInvariant, NEW n \in Names, NEW r \in Code, r.sym \in {NodeOf(n), NoSym}
    PROVE  LET m == One(n, r)
           IN  /\ Image(m.table, m.text, data) /\ DOMAIN m.table = DOMAIN lookup_label(n)
               /\ Len(m.text) = Len(text) + 1 /\ Len(text) \in Nat
<1> DEFINE b == Start(n)
<1>1. b.text = text /\ b.table = lookup_label(n)
  BY DEF Start
<1>2. Image(b.table, b.text, data) /\ r.sym \in DOMAIN b.table \cup {NoSym}
  BY <1>1, LookupImage, LookupFact DEF TypeInvariant
<1>3. One(n, r) = Assemble(b, r)
  BY DEF One
<1> HIDE DEF b
<1> QED
  BY <1>1, <1>2, <1>3, AssembledImage

LEMMA TwoImage ==
    ASSUME TypeInvariant, NEW n \in Names, NEW r \in Code, r.sym \in {NodeOf(n), NoSym},
           NEW s \in Code, s.sym \in {NodeOf(n), NoSym}
    PROVE  LET m == Two(n, r, s)
           IN  /\ Image(m.table, m.text, data) /\ DOMAIN m.table = DOMAIN lookup_label(n)
               /\ Len(m.text) = Len(text) + 2 /\ Len(text) \in Nat
<1> DEFINE b == One(n, r)
<1>1. /\ Image(b.table, b.text, data) /\ DOMAIN b.table = DOMAIN lookup_label(n)
      /\ Len(b.text) = Len(text) + 1 /\ Len(text) \in Nat
  BY OneImage
<1>2. s.sym \in DOMAIN b.table \cup {NoSym}
  BY <1>1, LookupFact
<1>3. Two(n, r, s) = Assemble(b, s)
  BY DEF Two
<1> HIDE DEF b
<1>4. /\ Image(Assemble(b, s).table, Assemble(b, s).text, data) /\ DOMAIN Assemble(b, s).table = DOMAIN b.table
      /\ Len(Assemble(b, s).text) = Len(b.text) + 1
  BY <1>1, <1>2, AssembledImage
<1> QED
  BY <1>1, <1>3, <1>4

LEMMA ThreeImage ==
    ASSUME TypeInvariant, NEW n \in Names, NEW r \in Code, r.sym \in {NodeOf(n), NoSym},
           NEW s \in Code, s.sym \in {NodeOf(n), NoSym}, NEW q \in Code, q.sym \in {NodeOf(n), NoSym}
    PROVE  LET m == Three(n, r, s, q)
           IN  /\ Image(m.table, m.text, data) /\ DOMAIN m.table = DOMAIN lookup_label(n)
               /\ Len(m.text) = Len(text) + 3 /\ Len(text) \in Nat
<1> DEFINE b == Two(n, r, s)
<1>1. /\ Image(b.table, b.text, data) /\ DOMAIN b.table = DOMAIN lookup_label(n)
      /\ Len(b.text) = Len(text) + 2 /\ Len(text) \in Nat
  BY TwoImage
<1>2. q.sym \in DOMAIN b.table \cup {NoSym}
  BY <1>1, LookupFact
<1>3. Three(n, r, s, q) = Assemble(b, q)
  BY DEF Three
<1> HIDE DEF b
<1>4. /\ Image(Assemble(b, q).table, Assemble(b, q).text, data) /\ DOMAIN Assemble(b, q).table = DOMAIN b.table
      /\ Len(Assemble(b, q).text) = Len(b.text) + 1
  BY <1>1, <1>2, AssembledImage
<1> QED
  BY <1>1, <1>3, <1>4

LEMMA EmitType ==
    ASSUME TypeInvariant, NEW m, Image(m.table, m.text, data), Emit(m)
    PROVE  TypeInvariant'
BY DEF TypeInvariant, Emit, Running

(* The instructions of every handler that emits some.                      *)
LEMMA NodeType ==
    ASSUME TypeInvariant, NEW n \in Names
    PROVE  /\ NodeOf(n) \in Node /\ NodeOf(n).name = n /\ lookup_label(NodeOf(n).name) = lookup_label(n)
           /\ lookup_label(n)[NodeOf(n)] \in FullLabel /\ lookup_label(n)[NodeOf(n)].addr \in Nat
           /\ NodeOf(n) # NoSym
           /\ current_text_pc \in Nat /\ current_text_pc >= Half /\ current_text_pc = AddrOf(Len(text) + 1)
<1>1. NodeOf(n) \in Node /\ NodeOf(n).name = n /\ NodeOf(n) # NoSym
  BY NodeFact, AddressAssumption DEF TypeInvariant, Image, Node
<1>2. lookup_label(n)[NodeOf(n)] \in FullLabel
  <2>1. Image(lookup_label(n), text, data) /\ NodeOf(n) \in DOMAIN lookup_label(n)
    BY LookupImage, LookupFact DEF TypeInvariant
  <2> QED
    BY <2>1 DEF Image, TypedTable
<1>3. Len(text) \in Nat
  BY LenProperties DEF TypeInvariant, Image
<1>4. current_text_pc = TextBase + 4 * Len(text)
  BY <1>3, LayoutFact DEF current_text_pc, AddrOf
<1>5. current_text_pc \in Nat /\ current_text_pc >= Half
  BY <1>3, <1>4, LayoutFact, HalfFact
<1> QED
  BY <1>1, <1>2, <1>5 DEF FullLabel, current_text_pc

LEMMA JumpType == ASSUME TypeInvariant, NEW n \in Names, Jump(n) PROVE TypeInvariant'
<1> DEFINE r == Inst("jump", NodeOf(n), 0, 0, "zero", NodeOf(n), 0)
<1>1. r \in Code /\ r.sym \in {NodeOf(n), NoSym} /\ Emit(One(n, r))
  <2>1. NodeOf(n) \in Node \cup {NoSym}
    BY NodeType
  <2>2. r \in Code /\ r.sym = NodeOf(n)
    BY <2>1, NoField DEF Inst, Code, Instruction, Ops
  <2>3. Emit(One(n, r))
    BY DEF Jump
  <2> QED
    BY <2>2, <2>3
<1> HIDE DEF r
<1>2. Image(One(n, r).table, One(n, r).text, data)
  BY <1>1, OneImage
<1> QED
  BY <1>1, <1>2, EmitType

LEMMA BranchType == ASSUME TypeInvariant, NEW n \in Names, NEW moved \in BOOLEAN, Branch(n, moved) PROVE TypeInvariant'
<1> DEFINE r == Inst("branch", NodeOf(n), -current_text_pc, -1, "zero", NodeOf(n), 0)
<1>1. -current_text_pc \in Int
  BY NodeType
<1>2. r \in Code /\ r.sym = NodeOf(n)
  <2>1. NodeOf(n) \in Node \cup {NoSym}
    BY NodeType
  <2> QED
    BY <1>1, <2>1, NoField DEF Inst, Code, Instruction, Ops
<1>3. Emit(Two(n, Other, r)) \/ Emit(One(n, r))
  BY DEF Branch
<1> HIDE DEF r
<1>4. Image(One(n, r).table, One(n, r).text, data) /\ Image(Two(n, Other, r).table, Two(n, Other, r).text, data)
  BY <1>2, OneImage, TwoImage, OtherFact
<1> QED
  BY <1>3, <1>4, EmitType

LEMMA GpOffsetType ==
    ASSUME TypeInvariant, NEW n \in Names, NEW off \in Offsets
    PROVE  off \in Int /\ GpOffset(n, off) \in Int /\ off + lookup_label(n)[NodeOf(n)].addr \in Int
<1>1. off \in Int /\ gp_midpoint \in Int
  BY AddressAssumption, LayoutFact DEF gp_midpoint
<1> QED
  BY <1>1, NodeType DEF GpOffset

LEMMA LoadType ==
    ASSUME TypeInvariant, NEW n \in Names, NEW off \in Offsets, NEW indexed \in BOOLEAN, Load(n, off, indexed)
    PROVE  TypeInvariant'
<1> DEFINE k == NodeOf(n)
           pair == FullWord(k, off)
           r == Inst("load", NoSym, GpOffset(n, off), 0, "gp", k, off)
           value == off + lookup_label(k.name)[k].addr
<1>0. k \in Node /\ off \in Int /\ value \in Int /\ GpOffset(n, off) \in Int
  BY NodeType, GpOffsetType
<1>a. k \in Node \cup {NoSym}
  BY <1>0
<1>1. r \in Code /\ r.sym = NoSym
  BY <1>0, <1>a, NoField DEF Inst, Code, Instruction, Ops
<1>2. pair[1] \in Code /\ pair[1].sym \in {k, NoSym} /\ pair[2] \in Code /\ pair[2].sym \in {k, NoSym}
  <2>1. CASE Defined(k, lookup_label(k.name))
    <3> DEFINE h == High(value)
               w == value % Half
    <3>1. w \in Int /\ h \in Int
      <4> HIDE DEF value
      <4>1. value % Half \in Int /\ (value \div Half) % Half \in Int
        BY <1>0, HalfFacts, HalfFact
      <4> QED
        BY <4>1 DEF High
    <3>2. pair[1] = Inst("lui", NoSym, h, 0, "zero", NoSym, 0) /\ pair[2] = Inst("load", NoSym, w, -1, "at", k, off)
      BY <2>1 DEF FullWord, LoadKnown, Lui
    <3> HIDE DEF pair, h, w, value, k
    <3>3. pair[1] \in Code /\ pair[1].sym = NoSym
      BY <1>0, <1>a, <3>1, <3>2, NoField DEF Inst, Code, Instruction, Ops
    <3>4. pair[2] \in Code /\ pair[2].sym = NoSym
      BY <1>0, <1>a, <3>1, <3>2, NoField DEF Inst, Code, Instruction, Ops
    <3> QED
      BY <3>3, <3>4
  <2>2. CASE ~Defined(k, lookup_label(k.name))
    <3>1. pair[1] = Inst("lui", k, off, 1, "zero", NoSym, 0) /\ pair[2] = Inst("load", k, off, -1, "at", k, off)
      BY <2>2 DEF FullWord, LoadUnknown, Lui
    <3> HIDE DEF pair, k
    <3>2. pair[1] \in Code /\ pair[1].sym = k
      BY <1>0, <1>a, <3>1, NoField DEF Inst, Code, Instruction, Ops
    <3>3. pair[2] \in Code /\ pair[2].sym = k
      BY <1>0, <1>a, <3>1, NoField DEF Inst, Code, Instruction, Ops
    <3> QED
      BY <3>2, <3>3
  <2> QED
    BY <2>1, <2>2
<1>3. Emit(One(n, r)) \/ Emit(Three(n, pair[1], Other, pair[2])) \/ Emit(Two(n, pair[1], pair[2]))
  BY DEF Load
<1> HIDE DEF pair, r
<1>4. Image(One(n, r).table, One(n, r).text, data)
  BY <1>1, OneImage
<1>5. Image(Two(n, pair[1], pair[2]).table, Two(n, pair[1], pair[2]).text, data)
  BY <1>2, TwoImage
<1>6. Image(Three(n, pair[1], Other, pair[2]).table, Three(n, pair[1], Other, pair[2]).text, data)
  BY <1>2, OtherFact, ThreeImage
<1> QED
  BY <1>3, <1>4, <1>5, <1>6, EmitType

LEMMA LoadAddressType == ASSUME TypeInvariant, NEW n \in Names, NEW off \in Offsets, LoadAddress(n, off) PROVE TypeInvariant'
<1> DEFINE k == NodeOf(n)
           r == Inst("addi", NoSym, GpOffset(n, off), 0, "gp", k, off)
           s == Inst("lui", k, off, 1, "zero", NoSym, 0)
           q == Inst("ori", k, off, -1, "at", k, off)
           lone == Inst("lui", k, off, 1, "zero", k, off)
<1>1. k \in Node /\ off \in Int /\ GpOffset(n, off) \in Int
  BY NodeType, GpOffsetType
<1>2. r \in Code /\ r.sym = NoSym /\ s \in Code /\ s.sym = k /\ q \in Code /\ q.sym = k /\ lone \in Code /\ lone.sym = k
  <2>1. k \in Node \cup {NoSym}
    BY <1>1
  <2>2. r \in Code /\ r.sym = NoSym
    BY <1>1, <2>1, NoField DEF Inst, Code, Instruction, Ops
  <2>3. s \in Code /\ s.sym = k
    BY <1>1, <2>1, NoField DEF Inst, Code, Instruction, Ops
  <2>4. q \in Code /\ q.sym = k
    BY <1>1, <2>1, NoField DEF Inst, Code, Instruction, Ops
  <2>5. lone \in Code /\ lone.sym = k
    BY <1>1, <2>1, NoField DEF Inst, Code, Instruction, Ops
  <2> QED
    BY <2>2, <2>3, <2>4, <2>5
<1>3. Emit(One(n, r)) \/ Emit(One(n, lone)) \/ Emit(Two(n, s, q))
  BY DEF LoadAddress, produce_immediate, UpperOnly, Lui, Ori
<1> HIDE DEF r, s, q, lone
<1>4. /\ Image(One(n, r).table, One(n, r).text, data) /\ Image(Two(n, s, q).table, Two(n, s, q).text, data)
      /\ Image(One(n, lone).table, One(n, lone).text, data)
  BY <1>2, OneImage, TwoImage
<1> QED
  BY <1>3, <1>4, EmitType

LEMMA SizeFact ==
    ASSUME NEW size \in ExternSizes \cup LcommSizes \cup CommSizes
    PROVE  size \in Nat \ {0}
BY AddressAssumption

LEMMA LabelType == ASSUME TypeInvariant, NEW n \in Names, Label(n) PROVE TypeInvariant'
<1> DEFINE r == record_label(n, current_pc)
<1>1. current_pc \in Nat
  BY NodeType DEF current_pc, TypeInvariant
<1>2. Image(r.table, r.text, r.data) /\ DOMAIN r.data = DOMAIN data /\ r.locals \in Seq(Node)
  BY <1>1, RecordedImage DEF TypeInvariant
<1>3. complete_table' = r.table /\ local_labels' = r.locals /\ text' = r.text /\ data' = r.data
      /\ UNCHANGED <<text_dir, next_data_pc, next_gp_item_addr, file, crashed>>
  BY DEF Label, Records, Running
<1> HIDE DEF r
<1> QED
  BY <1>2, <1>3 DEF TypeInvariant

(* Data further up leaves the words below it.                              *)
LEMMA DataGrows ==
    ASSUME TypeInvariant, NEW size \in Nat
    PROVE  /\ next_data_pc + size \in Nat /\ next_data_pc + size >= DataBase
           /\ DOMAIN data \subseteq DataBase .. (next_data_pc + size) - 4
<1>1. DataBase \in Nat /\ next_data_pc \in Nat /\ next_data_pc >= DataBase
  BY LayoutFact DEF TypeInvariant
<1>2. \A a \in DOMAIN data : a \in DataBase .. next_data_pc - 4
  BY DEF TypeInvariant
<1> QED
  BY <1>1, <1>2

LEMMA LcommLargeType ==
    ASSUME TypeInvariant, NEW n \in Names, NEW size \in LcommSizes, LcommLarge(n, size) PROVE TypeInvariant'
<1> DEFINE r == record_label(n, next_data_pc)
<1>1. size \in Nat \ {0}
  BY SizeFact
<1>2. Image(r.table, r.text, r.data) /\ DOMAIN r.data = DOMAIN data /\ r.locals \in Seq(Node)
  BY RecordedImage DEF TypeInvariant
<1>3. complete_table' = r.table /\ local_labels' = r.locals /\ text' = r.text /\ data' = r.data
      /\ next_data_pc' = next_data_pc + size /\ UNCHANGED <<text_dir, next_gp_item_addr, file, crashed>>
  BY DEF LcommLarge, Records, Running
<1> HIDE DEF r
<1>4. next_data_pc' \in Nat /\ next_data_pc' >= DataBase /\ DOMAIN data \subseteq DataBase .. next_data_pc' - 4
  BY <1>1, <1>3, DataGrows
<1> QED
  BY <1>2, <1>3, <1>4 DEF TypeInvariant

LEMMA CommType ==
    ASSUME TypeInvariant, NEW n \in Names, NEW size \in CommSizes, Comm(n, size) PROVE TypeInvariant'
<1> DEFINE r == record_label(n, next_data_pc)
           t == lookup_label(n)
<1>1. size \in Nat \ {0}
  BY SizeFact
<1>2. Image(r.table, r.text, r.data) /\ DOMAIN r.data = DOMAIN data /\ r.locals \in Seq(Node) /\ Image(t, text, data)
  BY RecordedImage, LookupImage DEF TypeInvariant
<1>3. /\ \/ complete_table' = t /\ UNCHANGED <<local_labels, text, data>>
         \/ complete_table' = r.table /\ local_labels' = r.locals /\ text' = r.text /\ data' = r.data
      /\ next_data_pc' = next_data_pc + size /\ UNCHANGED <<text_dir, next_gp_item_addr, file, crashed>>
  BY DEF Comm, Records, Running
<1> HIDE DEF r, t
<1>4. next_data_pc' \in Nat /\ next_data_pc' >= DataBase /\ DOMAIN data \subseteq DataBase .. next_data_pc' - 4
  BY <1>1, <1>3, DataGrows
<1> QED
  BY <1>2, <1>3, <1>4 DEF TypeInvariant

(* The field of one label set, its uses kept.                              *)
LEMMA FieldImage ==
    ASSUME NEW t, NEW c, NEW d, Image(t, c, d), NEW k \in DOMAIN t, NEW l \in FullLabel, l.uses = t[k].uses
    PROVE  Image([t EXCEPT ![k] = l], c, d)
<1>1. \A p \in 1 .. Len(l.uses) : PointsAt(k, l.uses[p], c, d)
  BY DEF Image, Points
<1> QED
  BY <1>1, ChangedImage

LEMMA GlobalFact ==
    ASSUME TypeInvariant, NEW n \in Names
    PROVE  LET t == lookup_label(n)
               k == NodeOf(n)
               l == [addr |-> t[k].addr, global |-> TRUE, gp |-> t[k].gp, uses |-> t[k].uses]
           IN  make_label_global(n) = [t EXCEPT ![k] = l] /\ l \in FullLabel
<1> DEFINE t == lookup_label(n)
           k == NodeOf(n)
           r == t[k]
           l == [addr |-> r.addr, global |-> TRUE, gp |-> r.gp, uses |-> r.uses]
<1>1. r \in FullLabel /\ r.addr \in Nat /\ r.gp \in BOOLEAN /\ r.uses \in Seq(Use)
  BY NodeType DEF FullLabel
<1>2. make_label_global(n) = [t EXCEPT ![k] = [r EXCEPT !.global = TRUE]]
  BY DEF make_label_global
<1> HIDE DEF r, t
<1>3. IsLabel(r)
  BY <1>1 DEF FullLabel, IsLabel
<1>4. [r EXCEPT !.global = TRUE] = l
  BY <1>3, FieldSet
<1>5. l \in FullLabel
  BY <1>1 DEF FullLabel
<1> QED
  BY <1>2, <1>4, <1>5 DEF r, t

LEMMA GloblType == ASSUME TypeInvariant, NEW n \in Names, Globl(n) PROVE TypeInvariant'
<1> DEFINE t == lookup_label(n)
           k == NodeOf(n)
           l == [addr |-> t[k].addr, global |-> TRUE, gp |-> t[k].gp, uses |-> t[k].uses]
<1>1. Image(t, text, data) /\ k \in DOMAIN t
  BY LookupImage, LookupFact DEF TypeInvariant
<1>2. make_label_global(n) = [t EXCEPT ![k] = l] /\ l \in FullLabel /\ l.uses = t[k].uses
  BY GlobalFact
<1>3. complete_table' = make_label_global(n)
      /\ UNCHANGED <<local_labels, text, data, text_dir, next_data_pc, next_gp_item_addr, file, crashed>>
  BY DEF Globl, Running
<1> HIDE DEF t, k, l
<1>4. Image([t EXCEPT ![k] = l], text, data)
  BY <1>1, <1>2, FieldImage
<1> QED
  BY <1>2, <1>3, <1>4 DEF TypeInvariant

LEMMA ExternType ==
    ASSUME TypeInvariant, NEW n \in Names, NEW size \in ExternSizes, extern_directive(n, size) PROVE TypeInvariant'
<1> DEFINE t == lookup_label(n)
           k == NodeOf(n)
           g == make_label_global(n)
           a == next_gp_item_addr
           l == [addr |-> t[k].addr, global |-> TRUE, gp |-> t[k].gp, uses |-> t[k].uses]
           u == [addr |-> a, global |-> TRUE, gp |-> TRUE, uses |-> t[k].uses]
<1>1. Image(t, text, data) /\ k \in DOMAIN t /\ size \in Nat \ {0} /\ t[k].uses \in Seq(Use) /\ a \in Nat
  <2>1. Image(t, text, data) /\ k \in DOMAIN t
    BY LookupImage, LookupFact DEF TypeInvariant
  <2>2. size \in Nat \ {0}
    BY SizeFact
  <2>3. t[k].uses \in Seq(Use)
    BY NodeType DEF FullLabel
  <2>4. a \in Nat
    BY LayoutFact DEF TypeInvariant
  <2> QED
    BY <2>1, <2>2, <2>3, <2>4
<1>2. g = [t EXCEPT ![k] = l] /\ l \in FullLabel /\ l.uses = t[k].uses
  BY GlobalFact
<1>3. u \in FullLabel /\ u.uses = t[k].uses
  BY <1>1 DEF FullLabel
<1>4. UNCHANGED <<local_labels, text, data, text_dir, next_data_pc, file, crashed>>
  BY DEF extern_directive, Running
<1>5. Image([t EXCEPT ![k] = l], text, data)
  <2> HIDE DEF t, k, l
  <2> QED
    BY <1>1, <1>2, FieldImage
<1>6. Image([t EXCEPT ![k] = u], text, data)
  <2> HIDE DEF t, k, u
  <2> QED
    BY <1>1, <1>3, FieldImage
<1>7. CASE ~g[k].gp /\ FitsGpArea(size)
  <2>1. complete_table' = [g EXCEPT ![k].gp = TRUE, ![k].addr = a] /\ next_gp_item_addr' = a + size
    BY <1>7 DEF extern_directive
  <2>2. [g EXCEPT ![k].gp = TRUE, ![k].addr = a] = [t EXCEPT ![k] = u]
    <3> DEFINE x == [l EXCEPT !.gp = TRUE]
               y == [addr |-> l.addr, global |-> l.global, gp |-> TRUE, uses |-> l.uses]
    <3>1. IsLabel(l) /\ l.global = TRUE
      BY DEF IsLabel
    <3>2. x = y
      <4> HIDE DEF l
      <4> QED
        BY <3>1, FieldSet
    <3>3. IsLabel(y) /\ y.global = TRUE /\ y.gp = TRUE /\ y.uses = t[k].uses
      BY DEF IsLabel
    <3>4. [y EXCEPT !.addr = a] = u
      <4> HIDE DEF y
      <4>1. [y EXCEPT !.addr = a] = [addr |-> a, global |-> y.global, gp |-> y.gp, uses |-> y.uses]
        BY <3>3, FieldSet
      <4> QED
        BY <3>3, <4>1
    <3>5. t = [j \in DOMAIN t |-> t[j]]
      BY <1>1 DEF Image, TypedTable
    <3> HIDE DEF g, t, k, l, u, y
    <3>6. [g EXCEPT ![k].gp = TRUE, ![k].addr = a] = [g EXCEPT ![k] = [[g[k] EXCEPT !.gp = TRUE] EXCEPT !.addr = a]]
      BY <1>1, <1>2
    <3>7. g[k] = l
      BY <1>1, <1>2
    <3>8. [g EXCEPT ![k] = u] = [t EXCEPT ![k] = u]
      BY <1>1, <1>2, <3>5
    <3> QED
      BY <3>2, <3>4, <3>6, <3>7, <3>8 DEF x
  <2>3. a + size \in GpBase .. GpTop
    BY <1>1, <1>7, LayoutFact DEF FitsGpArea, TypeInvariant
  <2> HIDE DEF g, t, k, u
  <2> QED
    BY <1>4, <1>6, <2>1, <2>2, <2>3 DEF TypeInvariant
<1>8. CASE ~(~g[k].gp /\ FitsGpArea(size))
  <2>1. complete_table' = g /\ next_gp_item_addr' = a
    BY <1>8 DEF extern_directive
  <2> HIDE DEF g, t, k, l
  <2> QED
    BY <1>2, <1>4, <1>5, <2>1 DEF TypeInvariant
<1> QED
  BY <1>7, <1>8

LEMMA LcommSmallType ==
    ASSUME TypeInvariant, NEW n \in Names, NEW size \in LcommSizes, LcommSmall(n, size) PROVE TypeInvariant'
<1> DEFINE k == NodeOf(n)
           r == record_label(n, next_gp_item_addr)
           t == r.table
           c == r.text
           d == r.data
           m == t[k]
           l == [m EXCEPT !.gp = TRUE]
<1>1. size \in Nat \ {0} /\ next_gp_item_addr \in Nat
  <2>1. size \in Nat \ {0}
    BY SizeFact
  <2>2. next_gp_item_addr \in Nat
    BY LayoutFact DEF TypeInvariant
  <2> QED
    BY <2>1, <2>2
<1>2. Image(t, c, d) /\ k \in DOMAIN t /\ DOMAIN d = DOMAIN data /\ r.locals \in Seq(Node)
  BY <1>1, RecordedImage DEF TypeInvariant
<1>3. complete_table' = [t EXCEPT ![k] = l]
  <2>1. r = [table |-> r.table, text |-> r.text, data |-> r.data, locals |-> r.locals]
    BY DEF record_label
  <2>2. complete_table' = [r EXCEPT !.table[k].gp = TRUE].table
    BY DEF LcommSmall, Records
  <2> HIDE DEF r, k
  <2>3. [r EXCEPT !.table[k].gp = TRUE].table = [r.table EXCEPT ![k].gp = TRUE]
    BY <2>1
  <2> QED
    BY <2>2, <2>3
<1>4. local_labels' = r.locals /\ text' = c /\ data' = d
  <2>1. r = [table |-> r.table, text |-> r.text, data |-> r.data, locals |-> r.locals]
    BY DEF record_label
  <2>2. LET s == [r EXCEPT !.table[k].gp = TRUE]
        IN  local_labels' = s.locals /\ text' = s.text /\ data' = s.data
    BY DEF LcommSmall, Records
  <2> HIDE DEF r, k
  <2> QED
    BY <2>1, <2>2
<1>5. /\ next_gp_item_addr' = next_gp_item_addr + size /\ FitsGpArea(size)
      /\ UNCHANGED <<text_dir, next_data_pc, file, crashed>>
  BY DEF LcommSmall, Running
<1> HIDE DEF r, k, t, c, d
<1>6. m \in FullLabel
  BY <1>2 DEF Image, TypedTable
<1>7. l \in FullLabel /\ l.uses = m.uses
  <2> HIDE DEF m, l
  <2>1. m.uses \in Seq(Use)
    BY <1>6 DEF FullLabel
  <2>2. [m EXCEPT !.gp = TRUE] \in FullLabel
        /\ [m EXCEPT !.gp = TRUE] = [addr |-> m.addr, global |-> m.global, gp |-> TRUE, uses |-> m.uses]
    BY <1>6, <2>1, LabelSet
  <2> QED
    BY <2>2 DEF l
<1> HIDE DEF l
<1>8. Image([t EXCEPT ![k] = l], c, d)
  BY <1>2, <1>7, FieldImage
<1>9. next_gp_item_addr' \in GpBase .. GpTop
  BY <1>1, <1>5, LayoutFact DEF FitsGpArea, TypeInvariant
<1> QED
  BY <1>2, <1>3, <1>4, <1>5, <1>8, <1>9 DEF TypeInvariant

LEMMA WordType == ASSUME TypeInvariant, NEW n \in Names, Word(n) PROVE TypeInvariant'
<1> DEFINE k == NodeOf(n)
           t == lookup_label(n)
           a == next_data_pc
           w == [word |-> t[k].addr, of |-> k]
           d == [x \in DOMAIN data \cup {a} |-> IF x \in DOMAIN data THEN data[x] ELSE w]
           u == [inst |-> FALSE, at |-> a]
<1>1. data' = d /\ complete_table' = (IF Defined(k, t) THEN t ELSE Uses(t, k, u)) /\ next_data_pc' = a + 4
      /\ UNCHANGED <<local_labels, text, text_dir, next_gp_item_addr, file, crashed>>
  BY DEF Word, Running
<1>2. w \in Words /\ w.of = k /\ a \in Nat /\ u \in Use /\ u.at = a /\ u.inst = FALSE
  BY NodeType DEF Words, Use, TypeInvariant
<1>3. Image(t, text, data) /\ k \in DOMAIN t
  BY LookupImage, LookupFact DEF TypeInvariant
<1>4. a \notin DOMAIN data
  BY LayoutFact DEF TypeInvariant
<1>5. DOMAIN d = DOMAIN data \cup {a} /\ d = [x \in DOMAIN data \cup {a} |-> IF x \in DOMAIN data THEN data[x] ELSE w]
  OBVIOUS
<1> HIDE DEF d, w, u, t, k
<1>6. d \in [DOMAIN d -> Words] /\ d[a].of = k /\ \A x \in DOMAIN data : d[x].of = data[x].of
  BY <1>2, <1>3, <1>4, <1>5 DEF Image
<1>7. Image(t, text, d)
  <2>1. text \in Seq(Code) /\ Len(text) \in Nat
    BY <1>3, LenProperties DEF Image
  <2> QED
    BY <1>3, <1>5, <1>6, <2>1, GrownImage
<1>8. Image(Uses(t, k, u), text, d)
  <2>1. PointsAt(k, u, text, d)
    BY <1>2, <1>5, <1>6 DEF PointsAt
  <2> QED
    BY <1>2, <1>3, <1>7, <2>1, UseImage
<1>9. DOMAIN d \subseteq DataBase .. (a + 4) - 4 /\ a + 4 \in Nat /\ a + 4 >= DataBase
  BY <1>2, <1>5, LayoutFact DEF TypeInvariant
<1> QED
  BY <1>1, <1>7, <1>8, <1>9 DEF TypeInvariant

LEMMA DataType == ASSUME TypeInvariant, NEW a \in DataPoints \cup {next_data_pc}, Data(a) PROVE TypeInvariant'
<1>1. a \in Nat /\ a >= next_data_pc
  BY LayoutFact DEF TypeInvariant, Data
<1>2. /\ text_dir' = FALSE /\ next_data_pc' = a
      /\ UNCHANGED <<complete_table, local_labels, text, data, next_gp_item_addr, file, crashed>>
  BY DEF Data, Running
<1>3. a >= DataBase /\ DOMAIN data \subseteq DataBase .. a - 4
  BY <1>1, LayoutFact DEF TypeInvariant
<1> QED
  BY <1>1, <1>2, <1>3 DEF TypeInvariant

LEMMA FlushType == ASSUME TypeInvariant, flush_local_labels PROVE TypeInvariant'
<1>1. /\ complete_table' = [k \in DOMAIN complete_table \ Range(local_labels) |-> complete_table[k]]
      /\ local_labels' = <<>> /\ text_dir' = TRUE /\ file' = file + 1 /\ file < MaxFiles
      /\ crashed' \in {FALSE, ListedTwice} /\ UNCHANGED <<text, data, next_data_pc, next_gp_item_addr>>
  BY DEF flush_local_labels, Restrict
<1>2. file' \in 1 .. MaxFiles /\ crashed' \in BOOLEAN /\ local_labels' \in Seq(Node)
  <2>1. file' \in 1 .. MaxFiles
    BY <1>1, AddressAssumption DEF TypeInvariant
  <2>2. ListedTwice \in BOOLEAN
    BY DEF ListedTwice
  <2>3. <<>> \in Seq(Node)
    OBVIOUS
  <2>4. crashed' \in BOOLEAN
    BY <1>1, <2>2
  <2> QED
    BY <1>1, <2>1, <2>3, <2>4
<1>3. Image(complete_table', text, data)
  BY <1>1 DEF TypeInvariant, Image, TypedTable, Points
<1> QED
  BY <1>1, <1>2, <1>3 DEF TypeInvariant

LEMMA StepTyped == TypeInvariant /\ [Next]_vars => TypeInvariant'
<1> SUFFICES ASSUME TypeInvariant, [Next]_vars PROVE TypeInvariant'
  OBVIOUS
<1>1. CASE \E n \in Names : Label(n) \/ Globl(n) \/ Word(n) \/ Jump(n)
  BY <1>1, LabelType, GloblType, WordType, JumpType
<1>2. CASE \E n \in Names, size \in LcommSizes : lcomm_directive(n, size)
  BY <1>2, LcommSmallType, LcommLargeType DEF lcomm_directive
<1>3. CASE \E n \in Names, size \in CommSizes : Comm(n, size)
  BY <1>3, CommType
<1>4. CASE \E n \in Names, size \in ExternSizes : extern_directive(n, size)
  BY <1>4, ExternType
<1>5. CASE \E n \in Names, moved \in BOOLEAN : Branch(n, moved)
  BY <1>5, BranchType
<1>6. CASE \E n \in Names, off \in Offsets, indexed \in BOOLEAN : Load(n, off, indexed)
  BY <1>6, LoadType
<1>7. CASE \E n \in Names, off \in Offsets : LoadAddress(n, off)
  BY <1>7, LoadAddressType
<1>8. CASE Text
  BY <1>8 DEF Text, Running, TypeInvariant
<1>9. CASE \E a \in DataPoints \cup {next_data_pc} : Data(a)
  BY <1>9, DataType
<1>10. CASE flush_local_labels
  BY <1>10, FlushType
<1>11. CASE UNCHANGED vars
  BY <1>11 DEF vars, TypeInvariant
<1> QED
  BY <1>1, <1>2, <1>3, <1>4, <1>5, <1>6, <1>7, <1>8, <1>9, <1>10, <1>11 DEF Next

LEMMA InitTyped == Init => TypeInvariant
<1> SUFFICES ASSUME Init PROVE TypeInvariant
  OBVIOUS
<1>1. complete_table = <<>> /\ text = <<>> /\ data = <<>> /\ local_labels = <<>>
  BY DEF Init
<1>2. DOMAIN complete_table = {} /\ DOMAIN data = {} /\ complete_table = [k \in {} |-> k] /\ data = [k \in {} |-> k]
  BY <1>1
<1>3. Image(complete_table, text, data)
  BY <1>1, <1>2, EmptySeq DEF Image, TypedTable, Points
<1>4. local_labels \in Seq(Node)
  BY <1>1
<1>5. /\ text_dir = TRUE /\ next_data_pc = DataBase /\ next_gp_item_addr = GpBase /\ file = 1 /\ crashed = FALSE
      /\ MaxFiles \in Nat \ {0} /\ GpBase < GpTop
  BY AddressAssumption DEF Init
<1>6. next_gp_item_addr \in GpBase .. GpTop /\ file \in 1 .. MaxFiles /\ next_data_pc \in Nat
  BY <1>5, LayoutFact
<1>7. text_dir \in BOOLEAN /\ crashed \in BOOLEAN
  BY <1>5
<1>9. next_data_pc >= DataBase
  BY <1>5, LayoutFact
<1>8. DOMAIN data \subseteq DataBase .. next_data_pc - 4
  BY <1>2
<1> QED
  BY <1>3, <1>4, <1>6, <1>7, <1>8, <1>9 DEF TypeInvariant

LEMMA AlwaysTyped == Spec => []TypeInvariant
  BY InitTyped, StepTyped, PTL DEF Spec

(* Every label, field, word and list stays of its type, and one name has at *)
(* most one node, whatever is assembled.                                   *)
THEOREM SymbolsTypes == Spec => []TypeOK
<1>1. TypeInvariant => TypeOK
  <2> SUFFICES ASSUME TypeInvariant PROVE TypeOK
    OBVIOUS
  <2>1. /\ DOMAIN complete_table \subseteq Node
        /\ \A k \in DOMAIN complete_table :
              /\ complete_table[k].addr \in Nat /\ complete_table[k].uses \in Seq(Use)
              /\ \A j \in DOMAIN complete_table : j.name = k.name => j = k
    BY DEF TypeInvariant, Image, TypedTable, FullLabel
  <2>2. \A i \in DOMAIN text : text[i].sym \in Node \cup {NoSym} /\ text[i].field \in Fields(text[i].op)
    <3>1. text \in Seq(Code)
      BY DEF TypeInvariant, Image
    <3>2. \A i \in DOMAIN text : text[i] \in Code
      BY <3>1
    <3> QED
      BY <3>2 DEF Code, Instruction
  <2>3. \A a \in DOMAIN data : data[a].word \in Nat
    BY DEF TypeInvariant, Image, Words
  <2> QED
    BY <2>1, <2>2, <2>3 DEF TypeInvariant, TypeOK
<1> QED
  BY <1>1, AlwaysTyped, PTL

----------------------------------------------------------------------------
(* The list of local labels.                                               *)
(* A list of labels that have an address, none of them twice, over a table   *)
(* whose labels of the $gp area have one.                                  *)
ListedOn(t, s) ==
    /\ \A k \in DOMAIN t : t[k].gp => t[k].addr # 0
    /\ \A i \in 1 .. Len(s) : s[i] \in DOMAIN t /\ t[s[i]].addr # 0
    /\ \A i, j \in 1 .. Len(s) : s[i] = s[j] => i = j
Listed == ListedOn(complete_table, local_labels)

LEMMA LookupListed ==
    ASSUME Listed, NEW n
    PROVE  ListedOn(lookup_label(n), local_labels)
<1> DEFINE t == complete_table
           u == lookup_label(n)
           k == NodeOf(n)
<1>1. /\ DOMAIN u = DOMAIN t \cup {k} /\ \A j \in DOMAIN t : u[j] = t[j]
      /\ k \notin DOMAIN t => ~u[k].gp
  BY LookupFact, NewLabelFact
<1> HIDE DEF u, k
<1>2. ListedOn(u, local_labels)
  BY <1>1 DEF Listed, ListedOn
<1> QED
  BY <1>2 DEF u

(* What changes no address and no gp changes nothing of this.               *)
LEMMA SameListed ==
    ASSUME NEW t, NEW u, NEW s, ListedOn(t, s), SameAddresses(t, u)
    PROVE  ListedOn(u, s)
BY DEF ListedOn, SameAddresses

LEMMA OneListed ==
    ASSUME NEW t, NEW s, ListedOn(t, s), NEW k \in DOMAIN t, NEW l,
           (l.gp \/ t[k].addr # 0) => l.addr # 0
    PROVE  ListedOn([t EXCEPT ![k] = l], s)
<1> DEFINE u == [t EXCEPT ![k] = l]
<1>1. DOMAIN u = DOMAIN t /\ u[k] = l /\ \A j \in DOMAIN t \ {k} : u[j] = t[j]
  OBVIOUS
<1> HIDE DEF u
<1>2. ListedOn(u, s)
  BY <1>1 DEF ListedOn
<1> QED
  BY <1>2 DEF u

LEMMA PrependedListed ==
    ASSUME NEW t, NEW s \in Seq(Node), ListedOn(t, s), NEW k \in DOMAIN t, k \in Node, t[k].addr # 0,
           \A i \in 1 .. Len(s) : s[i] # k
    PROVE  ListedOn(t, <<k>> \o s)
<1> DEFINE v == <<k>>
           w == v \o s
<1>1. v \in Seq(Node) /\ Len(v) = 1 /\ v[1] = k /\ Len(s) \in Nat
  BY LenProperties
<1> HIDE DEF v
<1>2. Len(w) = 1 + Len(s) /\ \A p \in 1 .. 1 + Len(s) : w[p] = IF p <= 1 THEN v[p] ELSE s[p - 1]
  <2>1. /\ Len(v \o s) = Len(v) + Len(s)
        /\ \A p \in 1 .. Len(v) + Len(s) : (v \o s)[p] = IF p <= Len(v) THEN v[p] ELSE s[p - Len(v)]
    BY <1>1, ConcatProperties, Zenon
  <2> QED
    BY <1>1, <2>1
<1> HIDE DEF w
<1>3. \A p \in 1 .. Len(w) : (p = 1 /\ w[p] = k) \/ (p # 1 /\ p - 1 \in 1 .. Len(s) /\ w[p] = s[p - 1])
  BY <1>1, <1>2
<1>4. \A p \in 1 .. Len(w) : w[p] \in DOMAIN t /\ t[w[p]].addr # 0
  BY <1>3 DEF ListedOn
<1>5. ASSUME NEW i \in 1 .. Len(w), NEW j \in 1 .. Len(w), w[i] = w[j] PROVE i = j
  <2>1. CASE i = 1 \/ j = 1
    BY <1>3, <1>5, <2>1
  <2>2. CASE i # 1 /\ j # 1
    <3>1. i - 1 \in 1 .. Len(s) /\ j - 1 \in 1 .. Len(s) /\ s[i - 1] = s[j - 1]
      BY <1>3, <1>5, <2>2
    <3>2. i - 1 = j - 1
      BY <3>1 DEF ListedOn
    <3>3. i \in Int /\ j \in Int
      BY <1>1, <1>2
    <3> QED
      BY <3>2, <3>3
  <2> QED
    BY <2>1, <2>2
<1>6. ListedOn(t, w)
  BY <1>4, <1>5 DEF ListedOn
<1> QED
  BY <1>6 DEF w, v

(* A label is recorded at an address of memory, when it is not one of the   *)
(* $gp area, and listed when it had none.                                  *)
LEMMA RecordListed ==
    ASSUME TypeInvariant, Listed, NEW n \in Names, NEW a \in Nat, a # 0, ~lookup_label(n)[NodeOf(n)].gp
    PROVE  LET r == record_label(n, a)
           IN  ListedOn(r.table, r.locals) /\ NodeOf(n) \in DOMAIN r.table
<1> DEFINE k == NodeOf(n)
           t == lookup_label(n)
           l == t[k]
           r == record_label(n, a)
           new == Recorded1(n, a)
           u == [t EXCEPT ![k] = new]
<1>1. k \in DOMAIN t /\ k \in Node /\ TypedTable(t) /\ ~l.gp /\ local_labels \in Seq(Node)
  BY LookupFact, NodeType, LookupImage DEF TypeInvariant, Image
<1>2. ListedOn(t, local_labels)
  BY LookupListed
<1>3. IF SecondDefinition(l)
      THEN r.table = t /\ r.locals = local_labels
      ELSE r.table = u /\ r.locals = IF l.global THEN local_labels ELSE <<k>> \o local_labels
  BY <1>1, RecordFact
<1>4. CASE SecondDefinition(l)
  BY <1>1, <1>2, <1>3, <1>4
<1>5. CASE ~SecondDefinition(l)
  <2>1. l.addr = 0
    BY <1>1, <1>5 DEF SecondDefinition
  <2>2. new.addr = a /\ new.gp = l.gp
    BY <1>1 DEF Recorded1, GivenAddr
  <2> HIDE DEF new, k, t, r
  <2>3. ListedOn(u, local_labels)
    BY <1>1, <1>2, <2>2, OneListed
  <2>4. k \in DOMAIN u /\ u[k].addr # 0
    BY <1>1, <2>2
  <2>5. \A i \in 1 .. Len(local_labels) : local_labels[i] # k
    BY <1>2, <2>1 DEF ListedOn
  <2> HIDE DEF u
  <2>6. ListedOn(u, <<k>> \o local_labels)
    BY <1>1, <2>3, <2>4, <2>5, PrependedListed
  <2>7. ListedOn(r.table, r.locals) /\ k \in DOMAIN r.table
    BY <1>3, <1>5, <2>3, <2>4, <2>6
  <2> QED
    BY <2>7 DEF r, k
<1> QED
  BY <1>4, <1>5

(* Addresses that are given to labels.                                     *)
LEMMA GivenAddresses ==
    ASSUME TypeInvariant
    PROVE  /\ current_pc \in Nat /\ current_pc # 0 /\ next_data_pc \in Nat /\ next_data_pc # 0
           /\ next_gp_item_addr \in Nat /\ next_gp_item_addr # 0
<1>1. Len(text) \in Nat
  BY LenProperties DEF TypeInvariant, Image
<1>2. current_text_pc = TextBase + 4 * Len(text)
  BY <1>1, LayoutFact DEF current_text_pc, AddrOf
<1>3. current_text_pc \in Nat /\ current_text_pc # 0
  BY <1>1, <1>2, LayoutFact, HalfFact
<1>4. next_data_pc \in Nat /\ next_data_pc # 0
  BY LayoutFact, HalfFact DEF TypeInvariant
<1>5. next_gp_item_addr \in Nat /\ next_gp_item_addr # 0
  BY LayoutFact, HalfFact DEF TypeInvariant
<1> QED
  BY <1>3, <1>4, <1>5 DEF current_pc

LEMMA ListedSteps ==
    ASSUME TypeInvariant, Sound(complete_table), Listed, ~GpNamesReused, [Next]_vars
    PROVE  Listed'
<1>1. ASSUME NEW t, ListedOn(t, local_labels), complete_table' = t, UNCHANGED local_labels PROVE Listed'
  BY <1>1 DEF Listed, ListedOn
<1>2. ASSUME NEW n \in Names, Label(n) PROVE Listed'
  <2>1. ~lookup_label(n)[NodeOf(n)].gp
    BY <1>2 DEF Label, OnlyOnce
  <2>2. ListedOn(record_label(n, current_pc).table, record_label(n, current_pc).locals)
    BY <2>1, GivenAddresses, RecordListed
  <2>3. complete_table' = record_label(n, current_pc).table /\ local_labels' = record_label(n, current_pc).locals
    BY <1>2 DEF Label, Records
  <2> QED
    BY <2>2, <2>3 DEF Listed, ListedOn
<1>3. ASSUME NEW n \in Names, Globl(n) PROVE Listed'
  <2> DEFINE t == lookup_label(n)
             k == NodeOf(n)
             l == [addr |-> t[k].addr, global |-> TRUE, gp |-> t[k].gp, uses |-> t[k].uses]
  <2>1. complete_table' = [t EXCEPT ![k] = l] /\ UNCHANGED local_labels
    BY <1>3, GlobalFact DEF Globl
  <2>2. ListedOn(t, local_labels) /\ k \in DOMAIN t /\ l.addr = t[k].addr /\ l.gp = t[k].gp
    BY LookupListed, LookupFact
  <2> HIDE DEF t, k, l
  <2>3. (l.gp \/ t[k].addr # 0) => l.addr # 0
    BY <2>2 DEF ListedOn
  <2>4. ListedOn([t EXCEPT ![k] = l], local_labels)
    BY <2>2, <2>3, OneListed
  <2> QED
    BY <1>1, <2>1, <2>4
<1>4. ASSUME NEW n \in Names, Word(n) PROVE Listed'
  <2> DEFINE t == lookup_label(n)
             k == NodeOf(n)
             u == [inst |-> FALSE, at |-> next_data_pc]
  <2>1. complete_table' = (IF Defined(k, t) THEN t ELSE Uses(t, k, u)) /\ UNCHANGED local_labels
    BY <1>4 DEF Word
  <2>2. ListedOn(t, local_labels) /\ k \in DOMAIN t /\ Sound(t)
    BY LookupListed, LookupFact, LookedUp
  <2> HIDE DEF t, k, u
  <2>3. CASE Defined(k, t)
    BY <1>1, <2>1, <2>2, <2>3
  <2>4. CASE ~Defined(k, t)
    <3>1. SameAddresses(t, Uses(t, k, u))
      BY <2>2, <2>4, UseAdded DEF SameAddresses, Defined
    <3>2. ListedOn(Uses(t, k, u), local_labels)
      BY <2>2, <3>1, SameListed
    <3> QED
      BY <1>1, <2>1, <2>4, <3>2
  <2> QED
    BY <2>3, <2>4
<1>5. ASSUME NEW n \in Names, Assembles(n) PROVE Listed'
  <2>1. SameAddresses(lookup_label(n), complete_table') /\ UNCHANGED local_labels
    BY <1>5, Assembly
  <2>2. ListedOn(lookup_label(n), local_labels)
    BY LookupListed
  <2>3. ListedOn(complete_table', local_labels)
    BY <2>1, <2>2, SameListed
  <2> QED
    BY <1>1, <2>1, <2>3
<1>6. ASSUME NEW n \in Names, NEW size, LcommSmall(n, size) PROVE Listed'
  <2> DEFINE r == record_label(n, next_gp_item_addr)
             k == NodeOf(n)
             t == r.table
             l == [t[k] EXCEPT !.gp = TRUE]
  <2>1. lookup_label(n)[k].addr = 0 /\ ~lookup_label(n)[k].gp
    <3>1. lookup_label(n)[k].addr = 0
      BY <1>6 DEF LcommSmall, NotYet, Defined
    <3> QED
      BY <3>1, LookupListed, LookupFact DEF ListedOn
  <2>2. ListedOn(t, r.locals) /\ k \in DOMAIN t
    BY <2>1, GivenAddresses, RecordListed
  <2>3. t[k].addr # 0 /\ IsLabel(t[k])
    <3>1. TypedTable(lookup_label(n)) /\ k \in DOMAIN lookup_label(n)
      BY LookupImage, LookupFact DEF TypeInvariant, Image
    <3>2. t = [lookup_label(n) EXCEPT ![k] = Recorded1(n, next_gp_item_addr)]
      BY <2>1, <3>1, RecordFact DEF SecondDefinition
    <3>3. Recorded1(n, next_gp_item_addr).addr # 0 /\ IsLabel(Recorded1(n, next_gp_item_addr))
      BY <2>1, GivenAddresses DEF Recorded1, GivenAddr, IsLabel
    <3> HIDE DEF t, k
    <3> QED
      BY <3>1, <3>2, <3>3
  <2>4. complete_table' = [t EXCEPT ![k] = l] /\ local_labels' = r.locals
    <3>1. r = [table |-> r.table, text |-> r.text, data |-> r.data, locals |-> r.locals]
      BY DEF record_label
    <3>2. LET s == [r EXCEPT !.table[k].gp = TRUE]
          IN  complete_table' = s.table /\ local_labels' = s.locals
      BY <1>6 DEF LcommSmall, Records
    <3> HIDE DEF r, k
    <3>3. [r EXCEPT !.table[k].gp = TRUE].table = [r.table EXCEPT ![k].gp = TRUE]
          /\ [r EXCEPT !.table[k].gp = TRUE].locals = r.locals
      BY <3>1
    <3> QED
      BY <3>2, <3>3
  <2> HIDE DEF t, k, l, r
  <2>5. l.addr # 0
    <3> DEFINE m == t[k]
    <3>1. IsLabel(m) /\ m.addr # 0
      BY <2>3
    <3> HIDE DEF m
    <3>2. [m EXCEPT !.gp = TRUE].addr # 0
      BY <3>1, FieldSet
    <3> QED
      BY <3>2 DEF m, l
  <2>6. ListedOn([t EXCEPT ![k] = l], r.locals)
    BY <2>2, <2>5, OneListed
  <2> QED
    BY <2>4, <2>6 DEF Listed, ListedOn
<1>7. ASSUME NEW n \in Names, NEW size, LcommLarge(n, size) PROVE Listed'
  <2>1. ~lookup_label(n)[NodeOf(n)].gp
    BY <1>7 DEF LcommLarge, OnlyOnce
  <2>2. ListedOn(record_label(n, next_data_pc).table, record_label(n, next_data_pc).locals)
    BY <2>1, GivenAddresses, RecordListed
  <2>3. complete_table' = record_label(n, next_data_pc).table /\ local_labels' = record_label(n, next_data_pc).locals
    BY <1>7 DEF LcommLarge, Records
  <2> QED
    BY <2>2, <2>3 DEF Listed, ListedOn
<1>8. ASSUME NEW n \in Names, NEW size, Comm(n, size) PROVE Listed'
  <2>1. CASE Defined(NodeOf(n), lookup_label(n))
    <3>1. complete_table' = lookup_label(n) /\ UNCHANGED local_labels
      BY <1>8, <2>1 DEF Comm
    <3> QED
      BY <1>1, <3>1, LookupListed
  <2>2. CASE ~Defined(NodeOf(n), lookup_label(n))
    <3>1. ~lookup_label(n)[NodeOf(n)].gp
      BY <2>2, LookupListed, LookupFact DEF Defined, ListedOn
    <3>2. ListedOn(record_label(n, next_data_pc).table, record_label(n, next_data_pc).locals)
      BY <3>1, GivenAddresses, RecordListed
    <3>3. /\ complete_table' = record_label(n, next_data_pc).table
          /\ local_labels' = record_label(n, next_data_pc).locals
      BY <1>8, <2>2 DEF Comm, Records
    <3> QED
      BY <3>2, <3>3 DEF Listed, ListedOn
  <2> QED
    BY <2>1, <2>2
<1>9. ASSUME NEW n \in Names, NEW size, extern_directive(n, size) PROVE Listed'
  <2> DEFINE t == lookup_label(n)
             k == NodeOf(n)
             g == make_label_global(n)
             a == next_gp_item_addr
             l == [addr |-> t[k].addr, global |-> TRUE, gp |-> t[k].gp, uses |-> t[k].uses]
  <2>1. g = [t EXCEPT ![k] = l] /\ l.addr = t[k].addr /\ l.gp = t[k].gp /\ IsLabel(l)
    BY GlobalFact DEF IsLabel
  <2>2. ListedOn(t, local_labels) /\ k \in DOMAIN t
    BY LookupListed, LookupFact
  <2>3. UNCHANGED local_labels /\ (complete_table' = g \/ complete_table' = [g EXCEPT ![k].gp = TRUE, ![k].addr = a])
    BY <1>9 DEF extern_directive
  <2>4. a # 0
    BY GivenAddresses
  <2> HIDE DEF t, k, l, g, a
  <2>5. (l.gp \/ t[k].addr # 0) => l.addr # 0
    BY <2>1, <2>2 DEF ListedOn
  <2>6. ListedOn(g, local_labels) /\ k \in DOMAIN g /\ g[k] = l
    BY <2>1, <2>2, <2>5, OneListed
  <2>7. ListedOn([g EXCEPT ![k].gp = TRUE, ![k].addr = a], local_labels)
    <3> DEFINE x == [l EXCEPT !.gp = TRUE]
               y == [x EXCEPT !.addr = a]
    <3>1. [g EXCEPT ![k].gp = TRUE, ![k].addr = a] = [g EXCEPT ![k] = y]
      BY <2>6
    <3>2. y.addr = a
      <4>1. x = [addr |-> l.addr, global |-> l.global, gp |-> TRUE, uses |-> l.uses]
        BY <2>1, FieldSet
      <4> HIDE DEF x
      <4>2. IsLabel(x)
        BY <4>1 DEF IsLabel
      <4> QED
        BY <4>2, FieldSet
    <3> HIDE DEF y
    <3>3. ListedOn([g EXCEPT ![k] = y], local_labels)
      BY <2>4, <2>6, <3>2, OneListed
    <3> QED
      BY <3>1, <3>3
  <2> QED
    BY <1>1, <2>3, <2>6, <2>7
<1>10. ASSUME flush_local_labels PROVE Listed'
  <2>1. /\ complete_table' = [k \in DOMAIN complete_table \ Range(local_labels) |-> complete_table[k]]
        /\ local_labels' = <<>>
    BY <1>10 DEF flush_local_labels, Restrict
  <2> QED
    BY <2>1 DEF Listed, ListedOn
<1>11. ASSUME Text \/ (\E a \in DataPoints \cup {next_data_pc} : Data(a)) \/ UNCHANGED vars PROVE Listed'
  <2>1. UNCHANGED <<complete_table, local_labels>>
    BY <1>11 DEF Text, Data, vars
  <2> QED
    BY <1>1, <2>1 DEF Listed
<1>12. CASE \E n \in Names : Label(n) \/ Globl(n) \/ Word(n) \/ Jump(n)
  BY <1>12, <1>2, <1>3, <1>4, <1>5 DEF Assembles
<1>13. CASE \/ \E n \in Names, moved \in BOOLEAN : Branch(n, moved)
            \/ \E n \in Names, off \in Offsets, indexed \in BOOLEAN : Load(n, off, indexed)
            \/ \E n \in Names, off \in Offsets : LoadAddress(n, off)
  BY <1>13, <1>5 DEF Assembles
<1>14. CASE \/ \E n \in Names, size \in LcommSizes : lcomm_directive(n, size)
            \/ \E n \in Names, size \in CommSizes : Comm(n, size)
            \/ \E n \in Names, size \in ExternSizes : extern_directive(n, size)
  BY <1>14, <1>6, <1>7, <1>8, <1>9 DEF lcomm_directive
<1>15. CASE flush_local_labels
  BY <1>15, <1>10
<1>16. CASE Text \/ (\E a \in DataPoints \cup {next_data_pc} : Data(a)) \/ UNCHANGED vars
  BY <1>16, <1>11
<1> QED
  BY <1>12, <1>13, <1>14, <1>15, <1>16 DEF Next

(* The flush at the end of a file reads every label it destroys once, and    *)
(* while it is alive, when no name of the $gp area is defined a second time. *)
THEOREM LocalsTheorem ==
    ASSUME ~GpNamesReused
    PROVE  Spec => []LocalsListedOnce
<1>1. Init => Listed
  BY DEF Init, Listed, ListedOn
<1>2. TypeInvariant /\ Sound(complete_table) /\ Listed /\ [Next]_vars => Listed'
  BY ListedSteps
<1>3. TypeInvariant /\ Listed => LocalsListedOnce
  <2> SUFFICES ASSUME TypeInvariant, Listed PROVE LocalsListedOnce
    OBVIOUS
  <2>1. local_labels \in Seq(Node) /\ DOMAIN local_labels = 1 .. Len(local_labels)
    BY LenProperties DEF TypeInvariant
  <2>2. IsInjective(local_labels)
    BY <2>1 DEF Listed, ListedOn, IsInjective
  <2>3. Range(local_labels) \subseteq DOMAIN complete_table
    BY <2>1 DEF Listed, ListedOn, Range
  <2> QED
    BY <2>2, <2>3 DEF LocalsListedOnce, ListedTwice
<1> QED
  BY <1>1, <1>2, <1>3, AlwaysTyped, TableSound, PTL DEF Spec

----------------------------------------------------------------------------
(* Where references lead.                                                  *)
(* What the handlers make of an instruction, whatever resolving does to it. *)
Low(c, i) ==
    /\ i >= 2 /\ c[i - 1].op \in {"lui", "other"} /\ LuiOf(c, i) >= 1
    /\ c[LuiOf(c, i)].op = "lui" /\ c[LuiOf(c, i)].sym = c[i].sym
    /\ c[i].op \in {"load", "ori"} /\ c[i].bits = -1 /\ c[i].base = "at"
    /\ c[i].sym # NoSym => c[i].sym = c[i].of /\ c[i].off = c[i].plus /\ c[LuiOf(c, i)].bits = 1
Shape(c, i) ==
    CASE c[i].op = "branch" -> c[i].sym = c[i].of /\ c[i].sym # NoSym /\ c[i].bits = -1 /\ c[i].plus = 0 /\ c[i].base = "zero"
      [] c[i].op = "jump" -> /\ c[i].sym = c[i].of /\ c[i].sym # NoSym /\ c[i].bits = 0
                             /\ c[i].off = 0 /\ c[i].plus = 0 /\ c[i].base = "zero"
      [] c[i].op = "other" -> c[i].of = NoSym /\ c[i].base = "zero"
      [] c[i].op = "lui" -> c[i].of \in {NoSym, c[i].sym} /\ c[i].base = "zero"
      [] OTHER -> Low(c, i) \/ (c[i].op \in {"load", "addi"} /\ c[i].base = "gp" /\ c[i].sym = NoSym)

Listing(t, k, u) == \E p \in 1 .. Len(t[k].uses) : t[k].uses[p] = u
InstUse(i) == [inst |-> TRUE, at |-> i]
DataUse(a) == [inst |-> FALSE, at |-> a]

(* A reference waits at its label, and with it the LUI of its pair, to which *)
(* nothing has been done yet; or it leads to the address of the label.  A   *)
(* LUI that stands for itself is written for an address that is known.      *)
Waits(c, t, i) ==
    /\ c[i].op # "lui" /\ c[i].sym = c[i].of /\ Listing(t, c[i].of, InstUse(i))
    /\ c[i].base = "at" =>
          /\ Listing(t, c[i].of, InstUse(LuiOf(c, i)))
          /\ c[LuiOf(c, i)].off = c[i].plus /\ c[LuiOf(c, i)].field = 0
Arrives(c, t, i) == t[c[i].of].addr # 0 /\ Leads(c, i, t[c[i].of].addr + c[i].plus)
WordHolds(d, t, a) ==
    Listing(t, d[a].of, DataUse(a)) \/ (t[d[a].of].addr # 0 /\ d[a].word = t[d[a].of].addr)

(* The uses of a label, the last recorded first.                            *)
Ordered(t) ==
    \A k \in DOMAIN t : \A p, q \in 1 .. Len(t[k].uses) :
        p < q /\ t[k].uses[p].inst /\ t[k].uses[q].inst => t[k].uses[p].at > t[k].uses[q].at
(* A label that something names is in the table, or was in an earlier file. *)
Alive(t, f, k) == k = NoSym \/ k \in DOMAIN t \/ k.file < f

Referring(c, d, t) ==
    /\ \A i \in 1 .. Len(c) : Shape(c, i)
    /\ \A i \in 1 .. Len(c) : c[i].of # NoSym /\ c[i].of \in DOMAIN t => Waits(c, t, i) \/ Arrives(c, t, i)
    /\ \A a \in DOMAIN d : d[a].of \in DOMAIN t => WordHolds(d, t, a)
    /\ Ordered(t)
Named(c, d, t, f) ==
    /\ \A k \in DOMAIN t : k.file <= f
    /\ \A i \in 1 .. Len(c) : Alive(t, f, c[i].of)
    /\ \A a \in DOMAIN d : Alive(t, f, d[a].of)
GpPlaced(t) == \A k \in DOMAIN t : t[k].gp => t[k].addr \in GpBase .. GpTop
References ==
    /\ Referring(text, data, complete_table)
    /\ Named(text, data, complete_table, file)
    /\ GpPlaced(complete_table)

(* Equal addresses of 32 bits.                                              *)
LEMMA SameFact ==
    ASSUME NEW a \in Int, NEW m \in Int, NEW b, b = a + m * (Half * Half)
    PROVE  SameAddress(b, a)
<1>0. Half \in Nat \ {0}
  BY HalfFact
<1> DEFINE H == Half
           q == a \div H
           r == a % H
           z == m * H
<1>1. H \in Nat \ {0} /\ q \in Int /\ r \in 0 .. H - 1 /\ a = q * H + r /\ z \in Int
  <2> HIDE DEF H, q, r
  <2>1. H \in Nat \ {0}
    BY <1>0 DEF H
  <2>2. a \div H \in Int /\ a % H \in 0 .. H - 1 /\ a = (a \div H) * H + (a % H)
    BY <2>1, IntSplit
  <2> QED
    BY <2>1, <2>2 DEF q, r
<1>2. b = a + z * H
  <2> HIDE DEF H
  <2>1. b = a + m * (H * H)
    BY DEF H
  <2>2. m * (H * H) = z * H
    BY <1>1, Z3
  <2> QED
    BY <2>1, <2>2
<1>3. b % H = a % H
  <2> HIDE DEF H, z
  <2>1. (a + z * H) % H = a % H
    BY <1>1, ModShift
  <2> QED
    BY <1>2, <2>1
<1>4. b \div H = q + z
  <2> HIDE DEF H, z, q, r
  <2>1. b = (q + z) * H + r
    <3>1. (q + z) * H = q * H + z * H
      BY <1>1, Z3
    <3> QED
      BY <3>1, <1>1, <1>2
  <2> QED
    BY <1>1, <2>1, DivUnique
<1>5. (q + z) % H = q % H
  <2> HIDE DEF H, q
  <2> QED
    BY <1>1, ModShift
<1> QED
  BY <1>3, <1>4, <1>5 DEF SameAddress

(* Both halves of an address together are the address, with one more in the  *)
(* upper half when the lower is read as negative.                          *)
LEMMA HalvesFact ==
    ASSUME NEW x \in Int, NEW carry \in {0, 1}, NEW low \in Int, NEW upper \in Int, NEW m \in Int,
           low = (x % Half) - carry * Half, upper = (x \div Half) + carry + m * Half
    PROVE  SameAddress(upper * Half + low, x)
<1> DEFINE H == Half
           q == x \div H
           r == x % H
<1>0. H \in Nat \ {0}
  BY HalfFact
<1> HIDE DEF H
<1>1. q \in Int /\ r \in Int /\ x = q * H + r
  <2>1. x \div H \in Int /\ x % H \in 0 .. H - 1 /\ x = (x \div H) * H + (x % H)
    BY <1>0, IntSplit
  <2> QED
    BY <2>1, <1>0
<1>2. low = r - carry * H /\ upper = q + carry + m * H
  BY DEF H
<1> HIDE DEF q, r
<1>3. upper * H + low = x + m * (H * H)
  <2>1. upper * H = q * H + carry * H + m * (H * H)
    BY <1>0, <1>1, <1>2, Z3
  <2>2. low = r - carry * H /\ x = q * H + r
    BY <1>1, <1>2
  <2> DEFINE qH == q * H
             cH == carry * H
             mHH == m * (H * H)
  <2>3. qH \in Int /\ cH \in Int /\ mHH \in Int
    BY <1>0, <1>1
  <2>4. upper * H = qH + cH + mHH /\ low = r - cH /\ x = qH + r
    BY <2>1, <2>2
  <2> HIDE DEF qH, cH, mHH
  <2>5. upper * H + low = x + mHH
    BY <1>1, <2>3, <2>4
  <2> QED
    BY <2>5 DEF mHH
<1> QED
  BY <1>3, SameFact DEF H

(* A half word read as signed.                                             *)
LEMMA SignedShift ==
    ASSUME NEW v \in Int
    PROVE  \E m \in {0, 1} : /\ Signed16(v) = (v % Half) - m * Half
                             /\ m = IF Negative(v) THEN 1 ELSE 0
<1>1. v % Half \in Int /\ Half \in Int
  BY HalfFact, HalfFacts
<1>2. CASE Negative(v)
  <2>1. Signed16(v) = (v % Half) - 1 * Half
    BY <1>1, <1>2 DEF Signed16
  <2> QED
    BY <1>2, <2>1
<1>3. CASE ~Negative(v)
  <2>1. Signed16(v) = (v % Half) - 0 * Half
    BY <1>1, <1>3 DEF Signed16
  <2> QED
    BY <1>3, <2>1
<1> QED
  BY <1>2, <1>3

(* A half word that is read as signed is the number, but for a multiple.    *)
LEMMA SignedMultiple ==
    ASSUME NEW n \in Int
    PROVE  \E m \in Int : Signed16(n) = n + m * Half
<1>1. PICK k \in {0, 1} : Signed16(n) = (n % Half) - k * Half
  BY SignedShift
<1> DEFINE H == Half
           q == n \div H
           r == n % H
<1>0. H \in Nat \ {0}
  BY HalfFact
<1> HIDE DEF H
<1>2. q \in Int /\ r \in Int /\ n = q * H + r
  <2>1. n \div H \in Int /\ n % H \in 0 .. H - 1 /\ n = (n \div H) * H + (n % H)
    BY <1>0, IntSplit
  <2> QED
    BY <2>1, <1>0
<1>3. Signed16(n) = r - k * H
  BY <1>1 DEF H
<1> HIDE DEF q, r
<1>4. Signed16(n) = n + (-(q + k)) * H /\ -(q + k) \in Int
  <2>1. (-(q + k)) * H = -(q * H) - k * H
    BY <1>0, <1>2, Z3
  <2> QED
    BY <2>1, <1>0, <1>2, <1>3
<1> QED
  BY <1>4 DEF H

(* A half word that is read as signed is what it was made from.             *)
LEMMA SignedUnique ==
    ASSUME NEW y \in -(Half \div 2) .. (Half \div 2) - 1, NEW n \in Int, n % Half = y % Half
    PROVE  Signed16(n) = y
<1> DEFINE H == Half
           h == Half \div 2
           r == n % Half
<1>1. H \in Nat \ {0} /\ h \in Nat \ {0} /\ H = h + h
  BY HalfFact
<1>2. y \in Int /\ -h <= y /\ y < h
  BY <1>1
<1>3. r = IF y < 0 THEN y + H ELSE y
  <2> HIDE DEF H, h
  <2>1. CASE y < 0
    <3>1. y + H \in 0 .. H - 1 /\ y = (-1) * H + (y + H)
      BY <1>1, <1>2, <2>1
    <3>2. y % H = y + H
      BY <3>1, <1>1, <1>2, ModUnique
    <3> QED
      BY <3>2, <2>1 DEF H
  <2>2. CASE ~(y < 0)
    <3>1. y \in 0 .. H - 1 /\ y = 0 * H + y
      BY <1>1, <1>2, <2>2
    <3>2. y % H = y
      BY <3>1, <1>1, <1>2, ModUnique
    <3> QED
      BY <3>2, <2>2 DEF H
  <2> QED
    BY <2>1, <2>2
<1>4. (Negative(n) <=> r >= h) /\ Signed16(n) = IF r >= h THEN r - H ELSE r
  BY DEF Negative, Signed16
<1> HIDE DEF H, h, r
<1> QED
  BY <1>1, <1>2, <1>3, <1>4

LEMMA SameItself == \A a : SameAddress(a, a)
BY DEF SameAddress

(* A branch that is in range, with delayed branches from its delay slot.    *)
LEMMA BranchLeads ==
    ASSUME NEW c, NEW i \in Nat, NEW a \in Int, c[i].op = "branch", c[i].base = "zero",
           c[i].field = FieldOf("branch", (-AddrOf(i) + a) % Half)
    PROVE  Leads(c, i, a)
<1> DEFINE d == IF DelayedBranches THEN 1 ELSE 0
           pc == AddrOf(i)
           x == a - pc
           h == Half \div 2
<1> SUFFICES ASSUME InRange(c, i, a) PROVE SameAddress(Target(c, i), a)
  BY DEF Leads
<1>1. a % 4 = 0 /\ x \in -h .. h - 1
  BY DEF InRange
<1>2. pc \in Int /\ pc % 4 = 0
  <2>1. TextBase \in Nat /\ TextBase % 4 = 0
    BY AddressAssumption
  <2> QED
    BY <2>1 DEF AddrOf
<1>3. Half \in Nat \ {0} /\ h \in Nat \ {0} /\ Half = h + h /\ Half > 4
  BY HalfFact
<1>4. x \in Int /\ x % 4 = 0 /\ -pc + a = x
  <2> HIDE DEF pc
  <2> QED
    BY <1>1, <1>2
<1>5. d \in {0, 1}
  OBVIOUS
<1> DEFINE w == x \div 4
<1>6. w \in Int /\ x = 4 * w
  <2> HIDE DEF x
  <2> QED
    BY <1>4
<1>7. w - d \in -h .. h - 1
  <2> HIDE DEF x, w, d, h
  <2> QED
    BY <1>1, <1>3, <1>5, <1>6
<1>8. Signed16(x % Half) = x
  <2> HIDE DEF x, h
  <2>1. Signed16(x % Half) = Signed16(x)
    BY <1>4, HalfFacts
  <2>2. Signed16(x) = x
    BY <1>1, <1>4, SignedUnique DEF h
  <2> QED
    BY <2>1, <2>2
<1>9. BranchField(x % Half) = (w % Half) - d
  BY <1>8 DEF BranchField
<1>10. Signed16((w % Half) - d) = w - d
  <2> HIDE DEF w, d, h
  <2>1. w % Half \in Int /\ d \in Int /\ (w % Half) - d \in Int
    BY <1>3, <1>5, <1>6
  <2>2. ((w % Half) - d) % Half = (w - d) % Half
    <3> DEFINE H == Half
               e == -d
    <3>1. H \in Nat \ {0} /\ e \in Int
      BY <1>3, <1>5
    <3>2. w % H \in Int
      BY <2>1
    <3> HIDE DEF H, e
    <3>3. (e + (w % H)) % H = (e + w) % H
      BY <1>6, <3>1, ModAdd
    <3>4. e + (w % H) = (w % H) - d /\ e + w = w - d
      BY <1>5, <1>6, <3>1, <3>2 DEF e
    <3> QED
      BY <3>3, <3>4 DEF H
  <2> QED
    BY <1>7, <2>1, <2>2, SignedUnique DEF h
<1>11. c[i].field = w - d
  BY <1>4, <1>9, <1>10 DEF FieldOf
<1>12. Target(c, i) = pc + 4 * (c[i].field + d)
  BY DEF Target
<1>13. Target(c, i) = a
  <2> HIDE DEF w, d, x, pc
  <2>1. pc + 4 * ((w - d) + d) = pc + x
    BY <1>2, <1>5, <1>6
  <2>2. pc + x = a
    BY <1>2 DEF x
  <2> QED
    BY <1>11, <1>12, <2>1, <2>2
<1> QED
  BY <1>13, SameItself

LEMMA JumpLeads ==
    ASSUME NEW c, NEW i \in Nat, NEW a \in Nat, c[i].op = "jump", c[i].base = "zero", c[i].field = FieldOf("jump", a)
    PROVE  Leads(c, i, a)
<1> SUFFICES ASSUME InRange(c, i, a) PROVE SameAddress(Target(c, i), a)
  BY DEF Leads
<1>1. a % 4 = 0 /\ a < 4096 * Half
  BY DEF InRange
<1> DEFINE M == 4096 * Half
<1>2. M \in Nat \ {0}
  BY HalfFact
<1>3. a % M = a
  <2> HIDE DEF M
  <2>1. a \in 0 .. M - 1 /\ a = 0 * M + a
    BY <1>1, <1>2 DEF M
  <2> QED
    BY <1>2, <2>1, ModUnique
<1>4. c[i].field = a \div 4
  BY <1>3 DEF FieldOf, JumpField
<1>5. Target(c, i) = 4 * (a \div 4)
  BY <1>4 DEF Target
<1>6. 4 * (a \div 4) = a
  BY <1>1
<1> QED
  BY <1>5, <1>6, SameItself

LEMMA GpLeads ==
    ASSUME NEW c, NEW i \in Nat, NEW a \in Int, c[i].op \in {"load", "addi"}, c[i].base = "gp",
           GpBase <= a, a < GpBase + Half, c[i].field = Signed16(a - gp_midpoint)
    PROVE  Leads(c, i, a)
<1>1. GpBase \in Nat /\ gp_midpoint = GpBase + (Half \div 2)
  BY AddressAssumption DEF gp_midpoint, Half
<1> DEFINE h == Half \div 2
           mid == gp_midpoint
<1>2. Half \in Nat \ {0} /\ h \in Nat \ {0} /\ Half = h + h
  BY HalfFact
<1>3. a - mid \in -h .. h - 1 /\ mid \in Int
  <2> HIDE DEF h, mid
  <2>1. mid = GpBase + h
    BY <1>1 DEF mid, h
  <2> QED
    BY <1>1, <1>2, <2>1
<1>4. Signed16(a - mid) = a - mid
  <2> HIDE DEF mid
  <2>1. a - mid \in Int /\ a - mid \in -(Half \div 2) .. (Half \div 2) - 1
    BY <1>3
  <2> QED
    BY <2>1, SignedUnique
<1>5. Target(c, i) = mid + c[i].field
  BY DEF Target
<1>6. Target(c, i) = a
  <2>1. c[i].field = a - mid
    BY <1>4
  <2> HIDE DEF mid
  <2> QED
    BY <1>3, <1>5, <2>1
<1> QED
  BY <1>6, SameItself DEF Leads

(* A pair, when its LUI has the upper half and, before a load whose lower    *)
(* half is negative, one more.                                             *)
LEMMA PairLeads ==
    ASSUME NEW c, NEW i \in Nat, NEW a \in Int, c[i].op \in {"load", "ori"}, c[i].base = "at",
           NEW v \in Int, v % Half = a % Half, c[i].field = Signed16(v),
           NEW u \in Int, c[LuiOf(c, i)].field = Signed16(u),
           NEW carry, carry = (IF c[i].op = "load" /\ Negative(v) THEN 1 ELSE 0),
           NEW m \in Int, u = (a \div Half) + carry + m * Half
    PROVE  Leads(c, i, a)
<1> DEFINE H == Half
           low == IF c[i].op = "load" THEN c[i].field ELSE c[i].field % Half
           upper == Signed16(u)
           r == a % H
           q == a \div H
<1>1. H \in Nat \ {0}
  BY HalfFact
<1>2. Target(c, i) = upper * H + low
  <2>1. CASE c[i].op = "load"
    BY <2>1 DEF Target, Upper
  <2>2. CASE c[i].op = "ori"
    BY <2>2 DEF Target, Upper
  <2> QED
    BY <2>1, <2>2
<1>3. carry \in {0, 1} /\ low = r - carry * H
  <2>1. PICK k \in {0, 1} : Signed16(v) = (v % Half) - k * Half /\ k = IF Negative(v) THEN 1 ELSE 0
    BY SignedShift
  <2>2. r \in 0 .. H - 1 /\ v % Half = r
    BY <1>1, HalfFacts
  <2>3. CASE c[i].op = "load"
    BY <2>1, <2>2, <2>3
  <2>4. CASE c[i].op = "ori"
    <3>1. low = Signed16(v) % H /\ carry = 0
      BY <2>4
    <3>2. Signed16(v) % H = r
      <4> HIDE DEF H, r
      <4>1. Signed16(v) = r + (-k) * H /\ r \in Int /\ -k \in Int /\ r % H = r
        <5>1. Signed16(v) = r - k * H
          BY <2>1, <2>2 DEF H
        <5>2. r \in Int /\ r % H = r
          BY <1>1, <2>2
        <5> QED
          BY <1>1, <2>1, <5>1, <5>2
      <4>2. (r + (-k) * H) % H = r % H
        BY <1>1, <4>1, ModShift
      <4> QED
        BY <4>1, <4>2
    <3> HIDE DEF low, H, r
    <3> QED
      BY <1>1, <2>2, <3>1, <3>2
  <2> QED
    BY <2>3, <2>4
<1>4. PICK j \in Int : upper = u + j * H
  BY SignedMultiple
<1>5. upper = q + carry + (m + j) * H
  <2>1. q \in Int
    BY <1>1, HalfFacts
  <2>2. u = q + carry + m * H
    OBVIOUS
  <2> HIDE DEF H, upper, q
  <2>3. (m + j) * H = m * H + j * H /\ m * H \in Int /\ j * H \in Int
    BY <1>1, <1>4, Z3
  <2> QED
    BY <1>3, <1>4, <2>1, <2>2, <2>3
<1>6. SameAddress(upper * H + low, a)
  <2>1. upper \in Int /\ low \in Int /\ m + j \in Int
    <3>1. r \in Int
      BY <1>1, HalfFacts
    <3>2. upper \in Int
      BY <1>1, <1>4
    <3>3. low \in Int
      <4> HIDE DEF H, r, low
      <4> QED
        BY <1>1, <1>3, <3>1
    <3> QED
      BY <1>4, <3>2, <3>3
  <2>2. low = (a % Half) - carry * Half /\ upper = (a \div Half) + carry + (m + j) * Half
    BY <1>3, <1>5
  <2> HIDE DEF upper, low
  <2>3. SameAddress(upper * Half + low, a)
    BY <1>3, <2>1, <2>2, HalvesFact
  <2> QED
    BY <2>3
<1> QED
  BY <1>2, <1>6 DEF Leads

(* What one patch of an instruction does, instruction by instruction.       *)
LEMMA PatchedInst ==
    ASSUME NEW image, Patched(image), NEW table, NEW k, table[k].addr \in Nat, k # NoSym, NEW u,
           PointsAt(k, u, text, data), u.inst
    PROVE  LET c == image.text
               d == Patch(image, u, k, table).text
               x == u.at
               v == ValueAt(c, x, table)
           IN  /\ x \in 1 .. Len(text) /\ text[x].sym = k /\ x \in 1 .. Len(c) /\ v \in Int
               /\ Patch(image, u, k, table).data = image.data
               /\ \A j \in 1 .. Len(text) :
                     /\ d[j].field = IF j = x THEN FieldOf(text[x].op, v) ELSE c[j].field
                     /\ j # x => d[j].off = c[j].off + IF text[x].op = "load" /\ Negative(v) THEN Carry(c, x, j) ELSE 0
                     /\ j = x /\ text[x].op # "branch" => d[j].off = c[j].off
<1> DEFINE c == image.text
           x == u.at
           d == resolve_a_label_sub(c, x, table)
           v == ValueAt(c, x, table)
           a == table[k].addr
<1>1. /\ image = [text |-> c, data |-> image.data] /\ c \in Seq(Code) /\ Len(c) = Len(text)
      /\ \A i \in 1 .. Len(text) : Alike(c[i], text[i])
  BY DEF Patched
<1>2. x \in 1 .. Len(text) /\ text[x].sym = k
  BY DEF PointsAt
<1>3. Patch(image, u, k, table) = [image EXCEPT !.text = d]
  BY DEF Patch
<1>4. Patch(image, u, k, table).text = d /\ Patch(image, u, k, table).data = image.data
  <2> HIDE DEF d, c
  <2> QED
    BY <1>1, <1>3
<1>5. x \in 1 .. Len(c) /\ c[x].sym = k /\ c[x].op = text[x].op
  BY <1>1, <1>2 DEF Alike
<1>6. v \in Int
  <2>1. a \in Int /\ a = IF c[x].sym = NoSym THEN 0 ELSE table[c[x].sym].addr
    BY <1>5
  <2> HIDE DEF a, x, c
  <2> QED
    BY <1>1, <1>5, <2>1, ValueFact
<1>7. \A j \in 1 .. Len(c) :
          /\ d[j].field = IF j = x THEN FieldOf(c[x].op, v) ELSE c[j].field
          /\ j # x => d[j].off = c[j].off + IF c[x].op = "load" /\ Negative(v) THEN Carry(c, x, j) ELSE 0
          /\ j = x /\ c[x].op # "branch" => d[j].off = c[j].off
  <2> HIDE DEF x, c
  <2> QED
    BY <1>1, <1>5, <1>6, ResolvedCode
<1> HIDE DEF c, x, d, v
<1> QED
  BY <1>1, <1>2, <1>4, <1>5, <1>6, <1>7 DEF c, x, v

(* The value of an expression at i, of which a is the address and off the   *)
(* offset.                                                                 *)
ValueHas(c, i, t, a, off) ==
    /\ ValueAt(c, i, t) \in Int
    /\ c[i].bits = 0 => ValueAt(c, i, t) = off + a
    /\ c[i].bits = 1 => ValueAt(c, i, t) = ((off + a) \div Half) % Half
    /\ c[i].bits = -1 => ValueAt(c, i, t) = (off + a) % Half

LEMMA ValueIs ==
    ASSUME NEW c \in Seq(Code), NEW i \in 1 .. Len(c), NEW t, NEW a \in Int,
           a = IF c[i].sym = NoSym THEN 0 ELSE t[c[i].sym].addr
    PROVE  ValueHas(c, i, t, a, IF c[i].op = "branch" THEN -AddrOf(i) ELSE c[i].off)
BY ValueFact DEF ValueHas

(* The value of an expression depends on what resolving others leaves.      *)
LEMMA ValueSame ==
    ASSUME NEW c \in Seq(Code), NEW e \in Seq(Code), NEW i \in 1 .. Len(c), i \in 1 .. Len(e), NEW t,
           Alike(c[i], e[i]), c[i].op # "branch" => c[i].off = e[i].off,
           c[i].sym # NoSym => t[c[i].sym].addr \in Int
    PROVE  ValueAt(c, i, t) = ValueAt(e, i, t) /\ ValueAt(e, i, t) \in Int
<1> DEFINE a == IF c[i].sym = NoSym THEN 0 ELSE t[c[i].sym].addr
           off(s) == IF s.op = "branch" THEN -AddrOf(i) ELSE s.off
           x == off(c[i])
           y == off(e[i])
           v == ValueAt(c, i, t)
           w == ValueAt(e, i, t)
<1>1. a \in Int /\ a = IF e[i].sym = NoSym THEN 0 ELSE t[e[i].sym].addr
  BY DEF Alike
<1>2. /\ v \in Int
      /\ c[i].bits = 0 => v = x + a
      /\ c[i].bits = 1 => v = ((x + a) \div Half) % Half
      /\ c[i].bits = -1 => v = (x + a) % Half
  <2> a = IF c[i].sym = NoSym THEN 0 ELSE t[c[i].sym].addr
    OBVIOUS
  <2> HIDE DEF a
  <2>2. ValueHas(c, i, t, a, x)
    BY <1>1, ValueIs
  <2> HIDE DEF x
  <2> QED
    BY <2>2 DEF ValueHas
<1>3. /\ w \in Int
      /\ e[i].bits = 0 => w = y + a
      /\ e[i].bits = 1 => w = ((y + a) \div Half) % Half
      /\ e[i].bits = -1 => w = (y + a) % Half
  <2>1. a \in Int /\ a = IF e[i].sym = NoSym THEN 0 ELSE t[e[i].sym].addr
    BY <1>1
  <2> HIDE DEF a
  <2>2. ValueHas(e, i, t, a, y)
    BY <2>1, ValueIs
  <2> HIDE DEF y
  <2> QED
    BY <2>2 DEF ValueHas
<1>4. x = y /\ c[i].bits = e[i].bits
  BY DEF Alike
<1>5. c[i].bits \in {-1, 0, 1}
  <2>1. c[i] \in Code
    BY ElementOfSeq
  <2> QED
    BY <2>1 DEF Code, Instruction
<1> HIDE DEF v, w, x, y, a
<1>6. v = w
  BY <1>2, <1>3, <1>4, <1>5
<1> QED
  BY <1>3, <1>6 DEF v, w

(* A use among the first n that have been patched.                          *)
Among(uses, n, u) == \E p \in 1 .. n : uses[p] = u

LEMMA AmongStep ==
    ASSUME NEW uses, NEW n \in Nat, NEW u
    PROVE  Among(uses, n + 1, u) <=> Among(uses, n, u) \/ uses[n + 1] = u
<1>1. n + 1 \in 1 .. n + 1 /\ \A p \in 1 .. n + 1 : p \in 1 .. n \/ p = n + 1
  OBVIOUS
<1>2. \A p \in 1 .. n : p \in 1 .. n + 1
  OBVIOUS
<1> QED
  BY <1>1, <1>2 DEF Among

LatestFirst(uses) ==
    \A p, q \in 1 .. Len(uses) : p < q /\ uses[p].inst /\ uses[q].inst => uses[p].at > uses[q].at

(* When the use of x is next, those of later instructions have been patched, *)
(* its own and those of earlier ones have not.                             *)
LEMMA AmongOrder ==
    ASSUME NEW uses, Len(uses) \in Nat, LatestFirst(uses), NEW n \in Nat, n + 1 <= Len(uses),
           NEW x \in Nat, uses[n + 1] = InstUse(x), NEW y \in Nat
    PROVE  /\ y <= x => ~Among(uses, n, InstUse(y))
           /\ y > x /\ Among(uses, Len(uses), InstUse(y)) => Among(uses, n, InstUse(y))
<1>1. \A z : InstUse(z).inst /\ InstUse(z).at = z
  BY DEF InstUse
<1>2. n + 1 \in 1 .. Len(uses)
  OBVIOUS
<1>3. ASSUME y <= x, NEW p \in 1 .. n, uses[p] = InstUse(y) PROVE FALSE
  <2>1. p \in 1 .. Len(uses) /\ p < n + 1
    OBVIOUS
  <2>2. uses[p].at > uses[n + 1].at
    BY <1>1, <1>2, <1>3, <2>1 DEF LatestFirst
  <2> QED
    BY <1>1, <1>3, <2>2
<1>4. ASSUME y > x, NEW p \in 1 .. Len(uses), uses[p] = InstUse(y) PROVE p \in 1 .. n
  <2>1. CASE p > n + 1
    <3>1. uses[n + 1].at > uses[p].at
      BY <1>1, <1>2, <1>4, <2>1 DEF LatestFirst
    <3> QED
      BY <1>1, <1>4, <3>1
  <2>2. CASE p = n + 1
    BY <1>1, <1>4, <2>2
  <2> QED
    BY <2>1, <2>2
<1> QED
  BY <1>3, <1>4 DEF Among

(* What the shape of the text says of the pair that ends at i.              *)
LEMMA LowFact ==
    ASSUME NEW c \in Seq(Code), NEW i \in 1 .. Len(c), Shape(c, i), c[i].base = "at"
    PROVE  LET j == LuiOf(c, i)
           IN  /\ Low(c, i) /\ j \in 1 .. Len(c) /\ j \in Nat /\ j < i /\ c[j].op = "lui" /\ c[j].sym = c[i].sym
               /\ c[i].op \in {"load", "ori"} /\ c[i].op \notin {"lui", "other", "branch", "jump"}
<1>1. c[i] \in Code
  BY ElementOfSeq
<1>2. c[i].op \in Ops
  BY <1>1 DEF Code, Instruction
<1>3. CASE c[i].op \in {"lui", "other"}
  BY <1>3 DEF Shape
<1>4. CASE c[i].op \notin {"lui", "other"}
  <2>1. c[i].op \notin {"branch", "jump"}
    BY DEF Shape
  <2>2. Low(c, i)
    BY <1>4, <2>1 DEF Shape
  <2> DEFINE j == LuiOf(c, i)
  <2>3. j \in {i - 1, i - 2} /\ j >= 1 /\ c[j].op = "lui" /\ c[j].sym = c[i].sym
    BY <2>2 DEF Low, LuiOf
  <2> HIDE DEF j
  <2>4. j \in 1 .. Len(c) /\ j \in Nat /\ j < i
    BY <2>3
  <2>5. c[i].op \in {"load", "ori"} /\ c[i].op \notin {"lui", "other", "branch", "jump"}
    BY <2>2 DEF Low
  <2> QED
    BY <2>2, <2>3, <2>4, <2>5 DEF j
<1> QED
  BY <1>3, <1>4

(* The LUI that resolving a load compensates is its own.                    *)
LEMMA CompensatedLui ==
    ASSUME text \in Seq(Code), NEW d, \A y \in 1 .. Len(text) : Alike(d[y], text[y]),
           \A y \in 1 .. Len(text) : Shape(text, y), NEW k, k # NoSym,
           NEW x \in 1 .. Len(text), text[x].op = "load", text[x].sym = k,
           NEW i \in 1 .. Len(text), text[i].base = "at", text[i].sym = k
    PROVE  LET j == LuiOf(text, i)
           IN  /\ j = CompensatedAt(d, x) /\ Unresolved(d, j, k) => x = i
               /\ x = i /\ d[j].field = 0 => j = CompensatedAt(d, x) /\ Unresolved(d, j, k)
<1> DEFINE j == LuiOf(text, i)
           u == CompensatedAt(d, x)
<1>1. /\ Low(text, i) /\ j \in 1 .. Len(text) /\ j < i /\ text[j].op = "lui" /\ text[j].sym = k
      /\ text[i].op \in {"load", "ori"}
  BY LowFact
<1>2. text[x].base = "at" /\ Low(text, x)
  BY DEF Shape, Low
<1>3. /\ i >= 2 /\ text[i - 1].op \in {"lui", "other"} /\ x >= 2 /\ text[x - 1].op \in {"lui", "other"}
      /\ i - 1 \in 1 .. Len(text) /\ x - 1 \in 1 .. Len(text)
  BY <1>1, <1>2 DEF Low
<1>4. /\ j = IF text[i - 1].op = "lui" THEN i - 1 ELSE i - 2
      /\ d[x].sym = k /\ u = IF Unresolved(d, x - 1, k) THEN x - 1 ELSE x - 2
  BY DEF LuiOf, CompensatedAt, Alike
<1>5. /\ \A y \in 1 .. Len(text) : d[y].op = text[y].op /\ d[y].sym = text[y].sym
      /\ \A y \in 1 .. Len(text) : Unresolved(d, y, k) <=> text[y].op = "lui" /\ text[y].sym = k /\ d[y].field = 0
  BY DEF Alike, Unresolved
<1> HIDE DEF j, u
<1>6. ASSUME j = u, Unresolved(d, j, k), x # i PROVE FALSE
  <2>1. CASE u = x - 1
    <3>1. i = x \/ i = x + 1
      BY <1>4, <1>6, <2>1
    <3> QED
      BY <1>3, <1>6, <3>1
  <2>2. CASE u = x - 2
    <3>1. i = x - 1 \/ i = x
      BY <1>4, <1>6, <2>2
    <3>2. text[x - 1].op \in {"load", "ori"}
      BY <1>1, <1>6, <3>1
    <3> QED
      BY <1>3, <3>2
  <2> QED
    BY <1>4, <2>1, <2>2
<1>7. ASSUME x = i, d[j].field = 0 PROVE j = u /\ Unresolved(d, j, k)
  <2>1. Unresolved(d, j, k)
    BY <1>1, <1>5, <1>7
  <2>2. CASE j = i - 1
    BY <1>4, <1>7, <2>1, <2>2
  <2>3. CASE j = i - 2
    <3>1. text[i - 1].op # "lui"
      BY <1>3, <1>4, <2>3
    <3>2. ~Unresolved(d, x - 1, k)
      BY <1>3, <1>5, <1>7, <3>1
    <3> QED
      BY <1>4, <1>7, <2>1, <2>3, <3>2
  <2> QED
    BY <1>4, <2>2, <2>3
<1> QED
  BY <1>6, <1>7 DEF j, u

(* The fold over the uses of a label k whose address t has: what is known   *)
(* when it starts, and of a reference i that waits.                         *)
Walk(uses, k, t) ==
    /\ text \in Seq(Code) /\ \A y \in 1 .. Len(text) : Shape(text, y)
    /\ k # NoSym /\ t[k].addr \in Nat
    /\ Len(uses) \in Nat /\ LatestFirst(uses)
    /\ \A p \in 1 .. Len(uses) : uses[p] \in Use /\ PointsAt(k, uses[p], text, data)
Waiting(uses, k, i) ==
    /\ i \in 1 .. Len(text) /\ text[i].of = k /\ text[i].sym = k /\ text[i].op # "lui"
    /\ Among(uses, Len(uses), InstUse(i))
    /\ text[i].base = "at" =>
          /\ Among(uses, Len(uses), InstUse(LuiOf(text, i)))
          /\ text[LuiOf(text, i)].off = text[i].plus /\ text[LuiOf(text, i)].field = 0

(* What a load owes its LUI, and how far both are after n patches.          *)
Owed(t, i) == IF text[i].op = "load" /\ Negative(ValueAt(text, i, t)) THEN Half ELSE 0
LuiStaged(c, uses, n, t, i, j) ==
    IF Among(uses, n, InstUse(j))
    THEN c[j].field = Signed16(((text[i].plus + Owed(t, i) + t[text[i].of].addr) \div Half) % Half)
    ELSE c[j].field = 0 /\ c[j].off = text[i].plus + IF Among(uses, n, InstUse(i)) THEN Owed(t, i) ELSE 0
Staged(c, uses, n, t, i) ==
    /\ text[i].op # "branch" => c[i].off = text[i].off
    /\ Among(uses, n, InstUse(i)) => c[i].field = FieldOf(text[i].op, ValueAt(text, i, t))
    /\ text[i].base = "at" => LuiStaged(c, uses, n, t, i, LuiOf(text, i))

LEMMA ReferenceFact ==
    ASSUME text \in Seq(Code), NEW i \in 1 .. Len(text), Shape(text, i), text[i].of # NoSym, text[i].op # "lui"
    PROVE  /\ text[i].op \notin {"lui", "other"} /\ text[i].off \in Int /\ text[i].plus \in Int
           /\ text[i].base = "at" =>
                 LET j == LuiOf(text, i)
                 IN  /\ j \in 1 .. Len(text) /\ j < i /\ text[j].op = "lui" /\ text[j].sym = text[i].sym
                     /\ text[i].sym # NoSym => text[j].bits = 1
<1>1. text[i] \in Code
  BY ElementOfSeq
<1>2. text[i].off \in Int /\ text[i].plus \in Int
  BY <1>1 DEF Code, Instruction
<1>3. text[i].op \notin {"lui", "other"}
  BY DEF Shape
<1>4. ASSUME text[i].base = "at"
      PROVE  LET j == LuiOf(text, i)
             IN  /\ j \in 1 .. Len(text) /\ j < i /\ text[j].op = "lui" /\ text[j].sym = text[i].sym
                 /\ text[i].sym # NoSym => text[j].bits = 1
  BY <1>4, LowFact DEF Low
<1> QED
  BY <1>2, <1>3, <1>4

LEMMA StageStart ==
    ASSUME NEW uses, NEW k, NEW t, Walk(uses, k, t), NEW i, Waiting(uses, k, i)
    PROVE  Staged(text, uses, 0, t, i)
<1>1. \A u : ~Among(uses, 0, u)
  BY DEF Among
<1>2. text[i].plus \in Int
  BY ReferenceFact DEF Walk, Waiting
<1> QED
  BY <1>1, <1>2 DEF Waiting, Staged, LuiStaged

LEMMA StageStep ==
    ASSUME NEW uses, NEW k, NEW t, Walk(uses, k, t), NEW n \in Nat, n + 1 <= Len(uses),
           NEW image, Patched(image), NEW i, Waiting(uses, k, i), Staged(image.text, uses, n, t, i)
    PROVE  Staged(Patch(image, uses[n + 1], k, t).text, uses, n + 1, t, i)
<1> DEFINE u == uses[n + 1]
           c == image.text
           d == Patch(image, u, k, t).text
           x == u.at
           j == LuiOf(text, i)
           a == t[k].addr
<1>1. /\ text \in Seq(Code) /\ c \in Seq(Code) /\ Len(c) = Len(text) /\ \A y \in 1 .. Len(text) : Alike(c[y], text[y])
      /\ image = [text |-> c, data |-> image.data] /\ image.data \in [DOMAIN data -> Words]
      /\ \A y \in 1 .. Len(text) : Shape(text, y)
      /\ k # NoSym /\ a \in Nat
  BY DEF Patched, Walk
<1>2. u \in Use /\ PointsAt(k, u, text, data)
  BY DEF Walk
<1>3. /\ i \in 1 .. Len(text) /\ text[i].of = k /\ text[i].sym = k /\ Among(uses, Len(uses), InstUse(i))
      /\ text[i].base = "at" => Among(uses, Len(uses), InstUse(j))
      /\ text[i].op # "lui"
  BY DEF Waiting
<1>4. /\ text[i].op \notin {"lui", "other"} /\ text[i].off \in Int /\ text[i].plus \in Int
      /\ text[i].base = "at" =>
            j \in 1 .. Len(text) /\ j \in Nat /\ j < i /\ text[j].op = "lui" /\ text[j].sym = k /\ text[j].bits = 1
  BY <1>1, <1>3, ReferenceFact
<1>5. \A y : Among(uses, n + 1, InstUse(y)) <=> Among(uses, n, InstUse(y)) \/ u = InstUse(y)
  BY AmongStep
<1>6. CASE ~u.inst
  <2>1. \A y : u # InstUse(y)
    BY <1>6 DEF InstUse
  <2>2. d = c
    <3> DEFINE e == image.data
               f == [e EXCEPT ![u.at] = [word |-> t[k].addr, of |-> e[u.at].of]]
    <3>1. u.at \in DOMAIN e /\ e \in [DOMAIN e -> Words]
      BY <1>1, <1>2, <1>6 DEF PointsAt
    <3>2. image = [text |-> c, data |-> e]
      BY <1>1
    <3> HIDE DEF c, u, e
    <3>3. Patch([text |-> c, data |-> e], u, k, t)
            = [text |-> IF u.inst THEN resolve_a_label_sub(c, u.at, t) ELSE c, data |-> IF u.inst THEN e ELSE f]
      BY <3>1, PatchFact
    <3> HIDE DEF f
    <3>4. Patch(image, u, k, t) = [text |-> c, data |-> f]
      BY <1>6, <3>2, <3>3
    <3> QED
      BY <3>4
  <2> HIDE DEF c, d, u
  <2> QED
    BY <1>5, <2>1, <2>2 DEF Staged, LuiStaged, c, d, u
<1>7. CASE u.inst
  <2> DEFINE v == ValueAt(c, x, t)
             w == ValueAt(text, i, t)
  <2>1. /\ x \in 1 .. Len(text) /\ x \in Nat /\ text[x].sym = k /\ v \in Int
        /\ \A y \in 1 .. Len(text) :
              /\ d[y].field = IF y = x THEN FieldOf(text[x].op, v) ELSE c[y].field
              /\ y # x => d[y].off = c[y].off + IF text[x].op = "load" /\ Negative(v) THEN Carry(c, x, y) ELSE 0
              /\ y = x /\ text[x].op # "branch" => d[y].off = c[y].off
    <3> HIDE DEF u
    <3> QED
      BY <1>1, <1>2, <1>7, PatchedInst
  <2>2. u = InstUse(x)
    BY <1>2, <1>7 DEF Use, InstUse
  <2>3. \A y, z : InstUse(y) = InstUse(z) => y = z
    BY DEF InstUse
  <2>4. \A y \in Nat : /\ y <= x => ~Among(uses, n, InstUse(y))
                       /\ y > x /\ Among(uses, Len(uses), InstUse(y)) => Among(uses, n, InstUse(y))
    <3>1. Len(uses) \in Nat /\ LatestFirst(uses)
      BY DEF Walk
    <3> HIDE DEF x
    <3> QED
      BY <2>1, <2>2, <3>1, AmongOrder
  <2>5. /\ text[i].op # "branch" => c[i].off = text[i].off
        /\ Among(uses, n, InstUse(i)) => c[i].field = FieldOf(text[i].op, w)
        /\ text[i].base = "at" => LuiStaged(c, uses, n, t, i, j)
    BY DEF Staged
  <2>6. x = i => v = w
    <3> HIDE DEF x, c
    <3> SUFFICES ASSUME x = i PROVE ValueAt(c, i, t) = ValueAt(text, i, t)
      OBVIOUS
    <3>1. i \in 1 .. Len(c) /\ i \in 1 .. Len(text) /\ Alike(c[i], text[i])
      BY <1>1, <1>3
    <3>2. c[i].op # "branch" => c[i].off = text[i].off
      BY <2>5, <3>1 DEF Alike
    <3>3. c[i].sym = k /\ t[c[i].sym].addr \in Int
      BY <1>1, <1>3, <3>1 DEF Alike
    <3> QED
      BY <1>1, <3>1, <3>2, <3>3, ValueSame
  <2> HIDE DEF u, c, d, x, v, w, j
  <2>7. text[i].op # "branch" => d[i].off = text[i].off
    <3>1. Carry(c, x, i) = 0
      BY <1>1, <1>3, <1>4 DEF Carry, Unresolved, Alike
    <3> QED
      BY <1>3, <1>4, <2>1, <2>5, <3>1
  <2>8. Among(uses, n + 1, InstUse(i)) => d[i].field = FieldOf(text[i].op, w)
    BY <1>3, <1>5, <2>1, <2>2, <2>3, <2>5, <2>6
  <2>9. ASSUME text[i].base = "at" PROVE LuiStaged(d, uses, n + 1, t, i, j)
    <3>1. /\ j \in 1 .. Len(text) /\ j \in Nat /\ j < i /\ i \in Nat /\ text[j].op = "lui" /\ text[j].sym = k
          /\ text[j].bits = 1 /\ Among(uses, Len(uses), InstUse(j)) /\ LuiStaged(c, uses, n, t, i, j)
      BY <1>3, <1>4, <2>5, <2>9
    <3>2. Owed(t, i) = (IF text[i].op = "load" /\ Negative(w) THEN Half ELSE 0) /\ Owed(t, i) \in Int
      BY HalfFact DEF Owed, w
    <3>3. CASE x = i
      <4>1. /\ ~Among(uses, n, InstUse(i)) /\ ~Among(uses, n, InstUse(j))
            /\ Among(uses, n + 1, InstUse(i)) /\ ~Among(uses, n + 1, InstUse(j))
        BY <1>5, <2>2, <2>3, <2>4, <3>1, <3>3
      <4>2. c[j].field = 0 /\ c[j].off = text[i].plus
        BY <1>4, <3>1, <4>1 DEF LuiStaged
      <4>3. text[x].op = "load" => Carry(c, x, j) = Half
        <5> SUFFICES ASSUME text[x].op = "load" PROVE Carry(c, x, j) = Half
          OBVIOUS
        <5>1. j = CompensatedAt(c, x) /\ Unresolved(c, j, k)
          BY <1>1, <1>3, <2>1, <2>9, <3>3, <4>2, CompensatedLui DEF j
        <5>2. c[x].sym = k
          BY <1>1, <2>1 DEF Alike
        <5> QED
          BY <5>1, <5>2 DEF Carry
      <4>4. d[j].field = 0 /\ d[j].off = text[i].plus + Owed(t, i)
        BY <2>1, <2>6, <3>1, <3>2, <3>3, <4>2, <4>3
      <4> QED
        BY <4>1, <4>4 DEF LuiStaged
    <3>4. CASE x = j
      <4>1. /\ Among(uses, n, InstUse(i)) /\ ~Among(uses, n, InstUse(j)) /\ Among(uses, n + 1, InstUse(j))
        BY <1>3, <1>5, <2>2, <2>4, <3>1, <3>4
      <4>2. c[j].field = 0 /\ c[j].off = text[i].plus + Owed(t, i)
        BY <3>1, <4>1 DEF LuiStaged
      <4>3. c[j].op = "lui" /\ c[j].bits = 1 /\ c[j].sym = k /\ j \in 1 .. Len(c)
        BY <1>1, <3>1 DEF Alike
      <4>4. v = ((c[j].off + a) \div Half) % Half
        <5>1. a \in Int /\ a = IF c[j].sym = NoSym THEN 0 ELSE t[c[j].sym].addr
          BY <1>1, <4>3
        <5> HIDE DEF a
        <5>2. ValueAt(c, j, t) = ((c[j].off + a) \div Half) % Half
          BY <1>1, <4>3, <5>1, ValueFact
        <5> QED
          BY <3>4, <5>2 DEF v
      <4>5. d[j].field = Signed16(v)
        BY <2>1, <3>1, <3>4 DEF FieldOf
      <4>6. d[j].field = Signed16(((text[i].plus + Owed(t, i) + t[text[i].of].addr) \div Half) % Half)
        BY <1>3, <4>2, <4>4, <4>5
      <4> QED
        BY <4>1, <4>6 DEF LuiStaged
    <3>5. CASE x # i /\ x # j
      <4>1. /\ Among(uses, n + 1, InstUse(i)) <=> Among(uses, n, InstUse(i))
            /\ Among(uses, n + 1, InstUse(j)) <=> Among(uses, n, InstUse(j))
        BY <1>5, <2>2, <2>3, <3>5
      <4>2. text[x].op = "load" => Carry(c, x, j) = 0
        <5> SUFFICES ASSUME text[x].op = "load" PROVE Carry(c, x, j) = 0
          OBVIOUS
        <5>1. ~(j = CompensatedAt(c, x) /\ Unresolved(c, j, k))
          BY <1>1, <1>3, <2>1, <2>9, <3>5, CompensatedLui DEF j
        <5>2. c[x].sym = k
          BY <1>1, <2>1 DEF Alike
        <5> QED
          BY <5>1, <5>2 DEF Carry
      <4>3. d[j].field = c[j].field /\ d[j].off = c[j].off + 0
        BY <2>1, <3>1, <3>5, <4>2
      <4>4. c[j].off \in Int
        <5>1. c[j] \in Code
          BY <1>1, <3>1, ElementOfSeq
        <5> QED
          BY <5>1 DEF Code, Instruction
      <4> QED
        BY <3>1, <4>1, <4>3, <4>4 DEF LuiStaged
    <3> QED
      BY <3>3, <3>4, <3>5
  <2> QED
    BY <2>7, <2>8, <2>9 DEF Staged, d, w, j, u
<1> QED
  BY <1>6, <1>7

(* One patch more leaves what names other labels, and sets the word it is at. *)
LEMMA FrameStep ==
    ASSUME NEW uses, NEW k, NEW t, Walk(uses, k, t), NEW n \in Nat, n + 1 <= Len(uses),
           NEW image, Patched(image), NEW y \in 1 .. Len(text), text[y].sym # k
    PROVE  LET d == Patch(image, uses[n + 1], k, t).text
           IN  d[y].field = image.text[y].field /\ d[y].off = image.text[y].off
<1> DEFINE u == uses[n + 1]
           c == image.text
           d == Patch(image, u, k, t).text
           x == u.at
           v == ValueAt(c, x, t)
           e == image.data
           f == [e EXCEPT ![u.at] = [word |-> t[k].addr, of |-> e[u.at].of]]
<1>1. /\ c \in Seq(Code) /\ Len(c) = Len(text) /\ \A z \in 1 .. Len(text) : Alike(c[z], text[z])
      /\ image = [text |-> c, data |-> e] /\ e \in [DOMAIN data -> Words]
      /\ k # NoSym /\ t[k].addr \in Nat
  BY DEF Patched, Walk
<1>2. u \in Use /\ PointsAt(k, u, text, data)
  BY DEF Walk
<1>3. CASE ~u.inst
  <2>1. u.at \in DOMAIN e /\ e \in [DOMAIN e -> Words]
    BY <1>1, <1>2, <1>3 DEF PointsAt
  <2> HIDE DEF c, u, e
  <2>2. Patch([text |-> c, data |-> e], u, k, t)
          = [text |-> IF u.inst THEN resolve_a_label_sub(c, u.at, t) ELSE c, data |-> IF u.inst THEN e ELSE f]
    BY <2>1, PatchFact
  <2> HIDE DEF f
  <2>3. Patch(image, u, k, t) = [text |-> c, data |-> f]
    BY <1>1, <1>3, <2>2
  <2>4. d = c
    BY <2>3
  <2> QED
    BY <2>4 DEF c, u
<1>4. CASE u.inst
  <2>1. /\ x \in 1 .. Len(text) /\ text[x].sym = k
        /\ \A z \in 1 .. Len(text) :
              /\ d[z].field = IF z = x THEN FieldOf(text[x].op, v) ELSE c[z].field
              /\ z # x => d[z].off = c[z].off + IF text[x].op = "load" /\ Negative(v) THEN Carry(c, x, z) ELSE 0
    <3> HIDE DEF u
    <3> QED
      BY <1>1, <1>2, <1>4, PatchedInst
  <2>2. c[y].off \in Int
    <3>1. c[y] \in Code
      BY <1>1, ElementOfSeq
    <3> QED
      BY <3>1 DEF Code, Instruction
  <2>3. Carry(c, x, y) = 0
    <3> HIDE DEF c, x
    <3> QED
      BY <1>1, <2>1 DEF Carry, Unresolved, Alike
  <2> HIDE DEF x, v, d, c, u
  <2>4. y # x
    BY <2>1
  <2> QED
    BY <2>1, <2>2, <2>3, <2>4 DEF d, c, u
<1> QED
  BY <1>3, <1>4

LEMMA WordStep ==
    ASSUME NEW uses, NEW k, NEW t, Walk(uses, k, t), NEW n \in Nat, n + 1 <= Len(uses),
           NEW image, Patched(image), NEW b \in DOMAIN data
    PROVE  Patch(image, uses[n + 1], k, t).data[b].word
             = IF uses[n + 1] = DataUse(b) THEN t[k].addr ELSE image.data[b].word
<1> DEFINE u == uses[n + 1]
           c == image.text
           e == image.data
           f == [e EXCEPT ![u.at] = [word |-> t[k].addr, of |-> e[u.at].of]]
<1>1. image = [text |-> c, data |-> e] /\ e \in [DOMAIN data -> Words] /\ k # NoSym /\ t[k].addr \in Nat
  BY DEF Patched, Walk
<1>2. u \in Use /\ PointsAt(k, u, text, data)
  BY DEF Walk
<1>3. u = DataUse(b) <=> ~u.inst /\ u.at = b
  <2> HIDE DEF u
  <2> QED
    BY <1>2 DEF Use, DataUse
<1>4. CASE ~u.inst
  <2>1. u.at \in DOMAIN e /\ e \in [DOMAIN e -> Words]
    BY <1>1, <1>2, <1>4 DEF PointsAt
  <2> HIDE DEF c, u, e
  <2>2. Patch([text |-> c, data |-> e], u, k, t)
          = [text |-> IF u.inst THEN resolve_a_label_sub(c, u.at, t) ELSE c, data |-> IF u.inst THEN e ELSE f]
    BY <2>1, PatchFact
  <2>3. f[b].word = IF u.at = b THEN t[k].addr ELSE e[b].word
    BY <1>1, <2>1
  <2> HIDE DEF f
  <2>4. Patch(image, u, k, t) = [text |-> c, data |-> f]
    BY <1>1, <1>4, <2>2
  <2>5. Patch(image, u, k, t).data[b].word = f[b].word
    BY <2>4
  <2> QED
    BY <1>3, <1>4, <2>3, <2>5 DEF e, u
<1>5. CASE u.inst
  <2>1. Patch(image, u, k, t).data = e
    <3> HIDE DEF u
    <3> QED
      BY <1>1, <1>2, <1>5, PatchedInst
  <2> QED
    BY <1>3, <1>5, <2>1
<1> QED
  BY <1>4, <1>5

(* The fold as a whole.                                                    *)
Walked(image, uses, n, k, t) ==
    /\ Patched(image)
    /\ \A i : Waiting(uses, k, i) => Staged(image.text, uses, n, t, i)
    /\ \A y \in 1 .. Len(text) :
          text[y].sym # k => image.text[y].field = text[y].field /\ image.text[y].off = text[y].off
    /\ \A b \in DOMAIN data :
          image.data[b].word = IF Among(uses, n, DataUse(b)) THEN t[k].addr ELSE data[b].word

LEMMA WalkedUses ==
    ASSUME NEW uses, NEW k, NEW t, Walk(uses, k, t), data \in [DOMAIN data -> Words]
    PROVE  Walked(AfterUses(uses, k, t)[Len(uses)], uses, Len(uses), k, t)
<1> DEFINE f == AfterUses(uses, k, t)
           S == {n \in Nat : n <= Len(uses) => Walked(f[n], uses, n, k, t)}
<1>0. f[0] = [text |-> text, data |-> data] /\ \A n \in Nat : f[n + 1] = Patch(f[n], uses[n + 1], k, t)
  BY AfterUsesSteps
<1>00. Len(uses) \in Nat
  BY DEF Walk
<1> HIDE DEF f
<1>1. 0 \in S
  <2>1. Patched(f[0])
    BY <1>0 DEF Patched, Alike, Walk
  <2>2. f[0].text = text /\ f[0].data = data
    BY <1>0
  <2>3. \A u : ~Among(uses, 0, u)
    BY DEF Among
  <2>4. \A i : Waiting(uses, k, i) => Staged(text, uses, 0, t, i)
    BY StageStart
  <2> QED
    BY <2>1, <2>2, <2>3, <2>4 DEF Walked
<1>2. ASSUME NEW n \in Nat, n \in S PROVE n + 1 \in S
  <2> SUFFICES ASSUME n + 1 <= Len(uses) PROVE Walked(f[n + 1], uses, n + 1, k, t)
    OBVIOUS
  <2> DEFINE g == f[n]
             h == f[n + 1]
  <2>1. n + 1 \in 1 .. Len(uses) /\ Walked(g, uses, n, k, t)
    BY <1>2, <1>00
  <2>2. h = Patch(g, uses[n + 1], k, t)
    BY <1>0
  <2> HIDE DEF g, h
  <2>3. Patched(g)
    BY <2>1 DEF Walked
  <2>4. PointsAt(k, uses[n + 1], text, data) /\ t[k].addr \in Nat /\ k # NoSym
    BY <2>1 DEF Walk
  <2>5. Patched(h)
    <3> DEFINE u == uses[n + 1]
    <3> HIDE DEF u
    <3>1. PointsAt(k, u, text, data)
      BY <2>4 DEF u
    <3>2. Patched(Patch(g, u, k, t))
      BY <2>3, <2>4, <3>1, PatchedUse
    <3> QED
      BY <2>2, <3>2 DEF u
  <2>6. \A i : Waiting(uses, k, i) => Staged(h.text, uses, n + 1, t, i)
    BY <2>1, <2>2, <2>3, StageStep DEF Walked
  <2>7. \A y \in 1 .. Len(text) :
            text[y].sym # k => h.text[y].field = text[y].field /\ h.text[y].off = text[y].off
    <3> SUFFICES ASSUME NEW y \in 1 .. Len(text), text[y].sym # k
                 PROVE  h.text[y].field = text[y].field /\ h.text[y].off = text[y].off
      OBVIOUS
    <3>1. g.text[y].field = text[y].field /\ g.text[y].off = text[y].off
      BY <2>1 DEF Walked
    <3>2. h.text[y].field = g.text[y].field /\ h.text[y].off = g.text[y].off
      BY <2>1, <2>2, <2>3, FrameStep
    <3> QED
      BY <3>1, <3>2
  <2>8. \A b \in DOMAIN data :
            h.data[b].word = IF Among(uses, n + 1, DataUse(b)) THEN t[k].addr ELSE data[b].word
    <3> SUFFICES ASSUME NEW b \in DOMAIN data
                 PROVE  h.data[b].word = IF Among(uses, n + 1, DataUse(b)) THEN t[k].addr ELSE data[b].word
      OBVIOUS
    <3>1. g.data[b].word = IF Among(uses, n, DataUse(b)) THEN t[k].addr ELSE data[b].word
      BY <2>1 DEF Walked
    <3>2. h.data[b].word = IF uses[n + 1] = DataUse(b) THEN t[k].addr ELSE g.data[b].word
      BY <2>1, <2>2, <2>3, WordStep
    <3>3. Among(uses, n + 1, DataUse(b)) <=> Among(uses, n, DataUse(b)) \/ uses[n + 1] = DataUse(b)
      BY AmongStep
    <3> QED
      BY <3>1, <3>2, <3>3
  <2>9. Walked(h, uses, n + 1, k, t)
    BY <2>5, <2>6, <2>7, <2>8 DEF Walked
  <2> QED
    BY <2>9 DEF h
<1> HIDE DEF S
<1>3. Nat \subseteq S
  BY <1>1, <1>2, SetInduction
<1> QED
  BY <1>3, <1>00 DEF S, f

(* The upper half that an LUI gets, with or without the one it is owed.     *)
LEMMA UpperFact ==
    ASSUME NEW a \in Int, NEW carry \in {0, 1}, NEW b, b = a + (IF carry = 1 THEN Half ELSE 0)
    PROVE  (b \div Half) % Half \in Int /\ \E m \in Int : (b \div Half) % Half = (a \div Half) + carry + m * Half
<1> DEFINE H == Half
           q == a \div H
           r == a % H
           z == q + carry
<1>0. H \in Nat \ {0}
  BY HalfFact
<1> HIDE DEF H
<1>1. q \in Int /\ r \in 0 .. H - 1 /\ a = q * H + r
  <2>1. a \div H \in Int /\ a % H \in 0 .. H - 1 /\ a = (a \div H) * H + (a % H)
    BY <1>0, IntSplit
  <2> QED
    BY <2>1
<1>2. b = a + (IF carry = 1 THEN H ELSE 0)
  BY DEF H
<1> HIDE DEF q, r
<1>3. b = z * H + r /\ z \in Int /\ b \in Int
  <2>1. CASE carry = 1
    <3>1. z = q + 1 /\ (q + 1) * H = q * H + H
      BY <1>0, <1>1, <2>1, Z3
    <3> QED
      BY <1>0, <1>1, <1>2, <2>1, <3>1
  <2>2. CASE carry = 0
    <3>1. z = q
      BY <1>1, <2>2
    <3> QED
      BY <1>0, <1>1, <1>2, <2>2, <3>1
  <2> QED
    BY <2>1, <2>2
<1> HIDE DEF z
<1>4. b \div H = z
  BY <1>0, <1>1, <1>3, DivUnique
<1>5. z % H \in Int /\ \E m \in Int : z % H = z + m * H
  <2>1. z \div H \in Int /\ z % H \in 0 .. H - 1 /\ z = (z \div H) * H + (z % H)
    BY <1>0, <1>3, IntSplit
  <2> DEFINE p == z \div H
             s == z % H
  <2>2. p \in Int /\ s \in Int /\ z = p * H + s
    BY <1>0, <2>1
  <2> HIDE DEF p, s
  <2>3. -p \in Int /\ (-p) * H = -(p * H) /\ p * H \in Int
    BY <1>0, <2>2, Z3
  <2>4. s = z + (-p) * H
    <3> DEFINE pH == p * H
    <3> HIDE DEF pH
    <3>1. pH \in Int /\ z = pH + s /\ (-p) * H = -pH
      BY <2>2, <2>3 DEF pH
    <3> QED
      BY <2>2, <3>1
  <2> QED
    BY <2>2, <2>3, <2>4 DEF s
<1> QED
  BY <1>4, <1>5 DEF H, z, q

(* When all uses have been patched, everything that waited arrives.         *)
LEMMA WalkedArrives ==
    ASSUME NEW uses, NEW k, NEW t, Walk(uses, k, t), NEW image, Walked(image, uses, Len(uses), k, t),
           NEW i, Waiting(uses, k, i)
    PROVE  Leads(image.text, i, t[k].addr + text[i].plus)
<1> DEFINE c == image.text
           a == t[k].addr
           v == ValueAt(text, i, t)
           j == LuiOf(text, i)
           p == text[i].plus
<1>1. /\ text \in Seq(Code) /\ i \in 1 .. Len(text) /\ i \in Nat /\ Shape(text, i) /\ k # NoSym /\ a \in Nat
      /\ text[i].of = k /\ text[i].sym = k /\ Among(uses, Len(uses), InstUse(i)) /\ text[i].op # "lui"
      /\ text[i].base = "at" => Among(uses, Len(uses), InstUse(j))
  BY DEF Walk, Waiting
<1>2. /\ c \in Seq(Code) /\ Len(c) = Len(text) /\ \A y \in 1 .. Len(text) : Alike(c[y], text[y])
      /\ Staged(c, uses, Len(uses), t, i)
  BY DEF Walked, Patched
<1>3. /\ text[i].op \notin {"lui", "other"} /\ text[i].off \in Int /\ p \in Int
      /\ text[i].base = "at" => j \in 1 .. Len(text)
  BY <1>1, ReferenceFact
<1>4. LET off == IF text[i].op = "branch" THEN -AddrOf(i) ELSE text[i].off
      IN  /\ v \in Int /\ off \in Int
          /\ text[i].bits = 0 => v = off + a
          /\ text[i].bits = -1 => v = (off + a) % Half
  <2>1. a \in Int /\ a = IF text[i].sym = NoSym THEN 0 ELSE t[text[i].sym].addr
    BY <1>1
  <2> HIDE DEF a
  <2> QED
    BY <1>1, <2>1, ValueFact
<1>5. c[i].field = FieldOf(text[i].op, v) /\ c[i].op = text[i].op /\ c[i].base = text[i].base
  BY <1>1, <1>2 DEF Staged, Alike
<1> HIDE DEF c, a, v, p
<1>6. CASE text[i].op = "branch"
  <2>1. p = 0 /\ text[i].bits = -1 /\ text[i].base = "zero"
    BY <1>1, <1>6 DEF Shape, p
  <2>2. c[i].field = FieldOf("branch", (-AddrOf(i) + a) % Half)
    BY <1>4, <1>5, <1>6, <2>1
  <2>3. Leads(c, i, a)
    BY <1>1, <1>5, <1>6, <2>1, <2>2, BranchLeads
  <2>4. a + p = a
    BY <1>1, <2>1
  <2> QED
    BY <2>3, <2>4 DEF c, a, p
<1>7. CASE text[i].op = "jump"
  <2>1. p = 0 /\ text[i].bits = 0 /\ text[i].off = 0 /\ text[i].base = "zero"
    BY <1>1, <1>7 DEF Shape, p
  <2>2. v = a
    BY <1>1, <1>4, <1>7, <2>1
  <2>3. Leads(c, i, a)
    BY <1>1, <1>5, <1>7, <2>1, <2>2, JumpLeads
  <2>4. a + p = a
    BY <1>1, <2>1
  <2> QED
    BY <2>3, <2>4 DEF c, a, p
<1>8. CASE text[i].op \notin {"branch", "jump"}
  <2>1. Low(text, i)
    BY <1>1, <1>3, <1>8 DEF Shape
  <2>2. text[i].base = "at" /\ text[i].bits = -1 /\ text[i].off = p /\ text[i].op \in {"load", "ori"}
    BY <1>1, <2>1 DEF Low, p
  <2>3. v \in Int /\ v = (p + a) % Half /\ p + a = a + p /\ a + p \in Int
    BY <1>1, <1>3, <1>4, <1>8, <2>2
  <2>4. v % Half = (a + p) % Half
    <3> DEFINE b == a + p
    <3> HIDE DEF b
    <3>1. v = b % Half /\ b \in Int
      BY <2>3 DEF b
    <3>2. b % Half \in 0 .. Half - 1
      BY <3>1, HalfFacts
    <3>3. v % Half = v
      <4> DEFINE H == Half
      <4> HIDE DEF H
      <4>0. H \in Nat \ {0}
        BY HalfFact DEF H
      <4>1. v \in 0 .. H - 1 /\ v = 0 * H + v
        BY <3>1, <3>2, <2>3, <4>0 DEF H
      <4>2. v % H = v
        BY <2>3, <4>0, <4>1, ModUnique
      <4> QED
        BY <4>2 DEF H
    <3> QED
      BY <3>1, <3>3 DEF b
  <2>5. i - 1 \in 1 .. Len(text)
    BY <1>1, <2>1 DEF Low
  <2>6. LuiOf(c, i) = j
    BY <1>2, <2>5 DEF LuiOf, Alike
  <2> DEFINE carry == IF text[i].op = "load" /\ Negative(v) THEN 1 ELSE 0
             b == p + Owed(t, i) + a
             u == (b \div Half) % Half
  <2>7. c[j].field = Signed16(u)
    <3>1. LuiStaged(c, uses, Len(uses), t, i, j)
      BY <1>2, <2>2 DEF Staged
    <3>2. Among(uses, Len(uses), InstUse(j))
      BY <1>1, <2>2
    <3>3. c[j].field = Signed16(((text[i].plus + Owed(t, i) + t[text[i].of].addr) \div Half) % Half)
      BY <3>1, <3>2 DEF LuiStaged
    <3>4. text[i].plus + Owed(t, i) + t[text[i].of].addr = b
      BY <1>1 DEF a, p
    <3> QED
      BY <3>3, <3>4
  <2>8. carry \in {0, 1} /\ b = (a + p) + (IF carry = 1 THEN Half ELSE 0)
    <3>1. Owed(t, i) = IF carry = 1 THEN Half ELSE 0
      BY DEF Owed, v
    <3> DEFINE o == Owed(t, i)
    <3>2. carry \in {0, 1} /\ o \in Int
      BY <3>1, HalfFact
    <3>3. b = p + o + a
      OBVIOUS
    <3> HIDE DEF o, b, carry
    <3>4. b = (a + p) + o
      BY <1>1, <1>3, <3>2, <3>3
    <3> QED
      BY <3>1, <3>2, <3>4 DEF o
  <2> HIDE DEF carry, b, j
  <2>9. u \in Int /\ \E m \in Int : u = ((a + p) \div Half) + carry + m * Half
    <3> DEFINE z == a + p
    <3>1. z \in Int /\ carry \in {0, 1} /\ b = z + (IF carry = 1 THEN Half ELSE 0)
      BY <2>3, <2>8
    <3> HIDE DEF z
    <3>2. (b \div Half) % Half \in Int /\ \E m \in Int : (b \div Half) % Half = (z \div Half) + carry + m * Half
      BY <3>1, UpperFact
    <3> QED
      BY <3>2 DEF z
  <2>10. PICK m \in Int : u = ((a + p) \div Half) + carry + m * Half
    BY <2>9
  <2> HIDE DEF u
  <2>11. carry = (IF c[i].op = "load" /\ Negative(v) THEN 1 ELSE 0)
    BY <1>5 DEF carry
  <2>12. c[i].field = Signed16(v)
    BY <1>5, <1>8 DEF FieldOf
  <2> DEFINE b2 == a + p
  <2>13. b2 \in Int /\ v % Half = b2 % Half /\ u = (b2 \div Half) + carry + m * Half
    BY <2>3, <2>4, <2>10
  <2> HIDE DEF b2
  <2>14. Leads(c, i, b2)
    BY <1>1, <1>5, <2>2, <2>3, <2>6, <2>7, <2>9, <2>11, <2>12, <2>13, PairLeads
  <2> QED
    BY <2>14 DEF b2, a, c, p
<1> QED
  BY <1>6, <1>7, <1>8

(* Whether an instruction leads somewhere depends on its own field and on    *)
(* that of its LUI.                                                        *)
LEMMA LeadsSame ==
    ASSUME NEW c, NEW d, NEW i \in 1 .. Len(c), Len(c) \in Nat, Shape(c, i), c[i].of # NoSym, c[i].op \in Ops,
           \A y \in 1 .. Len(c) : Alike(d[y], c[y]),
           d[i].field = c[i].field,
           c[i].base = "at" => d[LuiOf(c, i)].field = c[LuiOf(c, i)].field,
           NEW a, Leads(c, i, a)
    PROVE  Leads(d, i, a)
<1>1. d[i].op = c[i].op /\ d[i].base = c[i].base
  BY DEF Alike
<1>2. InRange(d, i, a) <=> InRange(c, i, a)
  BY <1>1 DEF InRange
<1>3. CASE c[i].base = "at"
  <2>1. i - 1 \in 1 .. Len(c)
    <3>1. i >= 2
      BY <1>3 DEF Shape, Low
    <3> QED
      BY <3>1
  <2>2. LuiOf(d, i) = LuiOf(c, i)
    BY <2>1 DEF LuiOf, Alike
  <2>3. Upper(d, i) = Upper(c, i)
    BY <1>3, <2>2 DEF Upper
  <2> QED
    BY <1>1, <1>2, <2>3 DEF Leads, Target
<1>4. c[i].op # "other"
  BY DEF Shape
<1>5. CASE c[i].base # "at"
  <2>1. c[i].op \in {"branch", "jump", "lui"} \/ c[i].base = "gp"
    BY <1>4, <1>5 DEF Shape, Low
  <2>2. c[i].op \in {"branch", "jump", "lui"} => c[i].base = "zero"
    BY DEF Shape
  <2>3. Target(d, i) = Target(c, i)
    BY <1>1, <1>5, <2>1, <2>2 DEF Target
  <2> QED
    BY <1>2, <2>3 DEF Leads
<1> QED
  BY <1>3, <1>5

(* Nothing that was assembled names label k.                               *)
Unnamed(c, d, k) == (\A i \in 1 .. Len(c) : c[i].of # k) /\ \A a \in DOMAIN d : d[a].of # k

(* What leaves the uses and the addresses of the labels leaves where         *)
(* references lead; new labels have no uses and nothing names them.        *)
LEMMA KeptReferring ==
    ASSUME NEW c, NEW d, NEW t, NEW u, Referring(c, d, t),
           \A k \in DOMAIN t \cap DOMAIN u :
               u[k].uses = t[k].uses /\ (t[k].addr # 0 => u[k].addr = t[k].addr),
           \A k \in DOMAIN u \ DOMAIN t : k # NoSym /\ Unnamed(c, d, k) /\ Len(u[k].uses) = 0
    PROVE  Referring(c, d, u)
<1>1. \A i \in 1 .. Len(c) : Shape(c, i)
  BY DEF Referring
<1>2. ASSUME NEW i \in 1 .. Len(c), c[i].of # NoSym, c[i].of \in DOMAIN u
      PROVE  Waits(c, u, i) \/ Arrives(c, u, i)
  <2>1. c[i].of \in DOMAIN t /\ (Waits(c, t, i) \/ Arrives(c, t, i))
    BY <1>2 DEF Referring, Unnamed
  <2>2. u[c[i].of].uses = t[c[i].of].uses /\ (t[c[i].of].addr # 0 => u[c[i].of].addr = t[c[i].of].addr)
    BY <1>2, <2>1
  <2>3. CASE Waits(c, t, i)
    <3>1. \A v : Listing(t, c[i].of, v) => Listing(u, c[i].of, v)
      BY <2>2 DEF Listing
    <3> QED
      BY <2>3, <3>1 DEF Waits
  <2>4. CASE Arrives(c, t, i)
    BY <2>2, <2>4 DEF Arrives
  <2> QED
    BY <2>1, <2>3, <2>4
<1>3. ASSUME NEW a \in DOMAIN d, d[a].of \in DOMAIN u
      PROVE  WordHolds(d, u, a)
  <2>1. d[a].of \in DOMAIN t /\ WordHolds(d, t, a)
    BY <1>3 DEF Referring, Unnamed
  <2>2. u[d[a].of].uses = t[d[a].of].uses /\ (t[d[a].of].addr # 0 => u[d[a].of].addr = t[d[a].of].addr)
    BY <1>3, <2>1
  <2> QED
    BY <2>1, <2>2 DEF WordHolds, Listing
<1>4. Ordered(u)
  <2> SUFFICES ASSUME NEW k \in DOMAIN u, NEW p \in 1 .. Len(u[k].uses), NEW q \in 1 .. Len(u[k].uses),
                      p < q, u[k].uses[p].inst, u[k].uses[q].inst
               PROVE  u[k].uses[p].at > u[k].uses[q].at
    BY DEF Ordered
  <2>1. k \in DOMAIN t
    OBVIOUS
  <2>2. u[k].uses = t[k].uses
    BY <2>1
  <2> QED
    BY <2>1, <2>2 DEF Referring, Ordered
<1> QED
  BY <1>1, <1>2, <1>3, <1>4 DEF Referring

LEMMA SameNamed ==
    ASSUME NEW c, NEW d, NEW t, NEW u, NEW f, Named(c, d, t, f), DOMAIN u = DOMAIN t
    PROVE  Named(c, d, u, f)
BY DEF Named, Alive

(* A label that is looked up.                                              *)
LEMMA LookupReferring ==
    ASSUME TypeInvariant, References, NEW n \in Names
    PROVE  /\ Referring(text, data, lookup_label(n))
           /\ Named(text, data, lookup_label(n), file)
           /\ GpPlaced(lookup_label(n))
<1> DEFINE t == complete_table
           u == lookup_label(n)
           k == NodeOf(n)
<1>1. /\ k # NoSym /\ DOMAIN u = DOMAIN t \cup {k} /\ \A j \in DOMAIN t : u[j] = t[j]
      /\ k \notin DOMAIN t => u[k] = NewLabel
  BY NodeType, LookupFact
<1>2. k \notin DOMAIN t => k.file = file
  <2>1. TypedTable(complete_table) /\ file \in 1 .. MaxFiles
    BY DEF TypeInvariant, Image
  <2> QED
    BY <2>1, NodeFact
<1>3. file \in Nat
  BY AddressAssumption DEF TypeInvariant
<1>4. Referring(text, data, t) /\ Named(text, data, t, file) /\ GpPlaced(t)
  BY DEF References
<1> HIDE DEF t, u, k
<1>5. k \notin DOMAIN t => Unnamed(text, data, k)
  BY <1>1, <1>2, <1>3, <1>4 DEF Named, Alive, Unnamed
<1>6. Referring(text, data, u)
  <2>1. \A j \in DOMAIN t \cap DOMAIN u :
            u[j].uses = t[j].uses /\ (t[j].addr # 0 => u[j].addr = t[j].addr)
    BY <1>1
  <2>2. \A j \in DOMAIN u \ DOMAIN t : j # NoSym /\ Unnamed(text, data, j) /\ Len(u[j].uses) = 0
    BY <1>1, <1>5, NewLabelFact
  <2> QED
    BY <1>4, <2>1, <2>2, KeptReferring
<1>7. Named(text, data, u, file)
  BY <1>1, <1>2, <1>3, <1>4 DEF Named, Alive
<1>8. GpPlaced(u)
  BY <1>1, <1>4, NewLabelFact DEF GpPlaced
<1> QED
  BY <1>6, <1>7, <1>8 DEF u

(* One label changed, its uses kept, its address as well when it has one.   *)
LEMMA OneReferring ==
    ASSUME NEW c, NEW d, NEW t, NEW f, Referring(c, d, t), Named(c, d, t, f), GpPlaced(t),
           NEW k \in DOMAIN t, NEW l, l.uses = t[k].uses, t[k].addr # 0 => l.addr = t[k].addr,
           l.gp => l.addr \in GpBase .. GpTop
    PROVE  LET u == [t EXCEPT ![k] = l]
           IN  Referring(c, d, u) /\ Named(c, d, u, f) /\ GpPlaced(u)
<1> DEFINE u == [t EXCEPT ![k] = l]
<1>1. DOMAIN u = DOMAIN t /\ \A j \in DOMAIN t : u[j] = IF j = k THEN l ELSE t[j]
  OBVIOUS
<1> HIDE DEF u
<1>2. Referring(c, d, u)
  <2>1. \A j \in DOMAIN t \cap DOMAIN u :
            u[j].uses = t[j].uses /\ (t[j].addr # 0 => u[j].addr = t[j].addr)
    BY <1>1
  <2>2. \A j \in DOMAIN u \ DOMAIN t : j # NoSym /\ Unnamed(c, d, j) /\ Len(u[j].uses) = 0
    BY <1>1
  <2> QED
    BY <2>1, <2>2, KeptReferring
<1>3. Named(c, d, u, f)
  BY <1>1, SameNamed
<1>4. GpPlaced(u)
  BY <1>1 DEF GpPlaced
<1> QED
  BY <1>2, <1>3, <1>4 DEF u

(* What resolving leaves of the shape of an instruction.                   *)
LEMMA ShapeSame ==
    ASSUME NEW c, NEW d, Len(c) \in Nat, NEW i \in 1 .. Len(c), Shape(c, i),
           \A y \in 1 .. Len(c) : Alike(d[y], c[y]),
           c[i].op \notin {"lui", "other", "branch"} /\ c[i].sym # NoSym => d[i].off = c[i].off
    PROVE  Shape(d, i)
<1>1. /\ d[i].op = c[i].op /\ d[i].sym = c[i].sym /\ d[i].bits = c[i].bits /\ d[i].base = c[i].base
      /\ d[i].of = c[i].of /\ d[i].plus = c[i].plus
  BY DEF Alike
<1>2. CASE c[i].op \in {"branch", "lui", "other"}
  BY <1>1, <1>2 DEF Shape
<1>3. CASE c[i].op = "jump"
  BY <1>1, <1>3 DEF Shape
<1>4. CASE c[i].op \notin {"branch", "jump", "lui", "other"}
  <2>1. Low(c, i) \/ (c[i].op \in {"load", "addi"} /\ c[i].base = "gp" /\ c[i].sym = NoSym)
    BY <1>4 DEF Shape
  <2>2. ASSUME Low(c, i)
        PROVE  Low(d, i)
    <3>1. i - 1 \in 1 .. Len(c) /\ LuiOf(c, i) \in 1 .. Len(c)
      BY <2>2 DEF Low, LuiOf
    <3>2. LuiOf(d, i) = LuiOf(c, i) /\ d[i - 1].op = c[i - 1].op
      BY <3>1 DEF LuiOf, Alike
    <3>3. /\ d[LuiOf(c, i)].op = c[LuiOf(c, i)].op /\ d[LuiOf(c, i)].sym = c[LuiOf(c, i)].sym
          /\ d[LuiOf(c, i)].bits = c[LuiOf(c, i)].bits
      BY <3>1 DEF Alike
    <3> HIDE DEF Shape, Alike
    <3> QED
      BY <1>1, <1>4, <2>2, <3>2, <3>3 DEF Low
  <2> QED
    BY <1>1, <1>4, <2>1, <2>2 DEF Shape
<1> QED
  BY <1>2, <1>3, <1>4

(* record_label, of a label without address: all that waited for it arrives, *)
(* and what names others stays.                                            *)
LEMMA PatchedReferring ==
    ASSUME NEW uses, NEW k, NEW t, NEW u, NEW w, Walk(uses, k, w),
           data \in [DOMAIN data -> Words], NEW image, Walked(image, uses, Len(uses), k, w),
           Referring(text, data, t), k \in DOMAIN t, t[k].uses = uses, t[k].addr = 0, w[k].addr # 0,
           Points(t, text, data),
           u = [t EXCEPT ![k] = u[k]], u[k].addr = w[k].addr, Len(u[k].uses) = 0
    PROVE  Referring(image.text, image.data, u)
<1> DEFINE c == image.text
           d == image.data
<1>1. /\ Len(c) = Len(text) /\ Len(text) \in Nat /\ DOMAIN d = DOMAIN data
      /\ \A y \in 1 .. Len(text) : Alike(c[y], text[y])
      /\ \A y \in DOMAIN data : d[y].of = data[y].of
      /\ \A y \in 1 .. Len(text) :
            text[y].sym # k => c[y].field = text[y].field /\ c[y].off = text[y].off
      /\ \A y \in DOMAIN data :
            d[y].word = IF Among(uses, Len(uses), DataUse(y)) THEN w[k].addr ELSE data[y].word
  BY LenProperties DEF Walked, Patched, Walk
<1>2. DOMAIN u = DOMAIN t /\ k # NoSym /\ \A j \in DOMAIN t : j # k => u[j] = t[j]
  BY DEF Walk
<1>3. \A y \in 1 .. Len(text) : Shape(text, y)
  BY DEF Walk
<1>4. \A v : Listing(t, k, v) <=> Among(uses, Len(uses), v)
  BY DEF Listing, Among
<1>5. ASSUME NEW i \in 1 .. Len(text), text[i].of = k
      PROVE  Waiting(uses, k, i)
  <2>1. Waits(text, t, i)
    BY <1>2, <1>5 DEF Referring, Arrives
  <2> QED
    BY <1>4, <1>5, <2>1 DEF Waits, Waiting
<1>6. ASSUME NEW i \in 1 .. Len(text), text[i].of = k
      PROVE  Leads(c, i, w[k].addr + text[i].plus) /\ (text[i].op # "branch" => c[i].off = text[i].off)
  <2>1. Waiting(uses, k, i)
    BY <1>5, <1>6
  <2>2. Leads(c, i, w[k].addr + text[i].plus)
    BY <2>1, WalkedArrives
  <2>3. Staged(c, uses, Len(uses), w, i)
    BY <2>1 DEF Walked
  <2> QED
    BY <2>2, <2>3 DEF Staged
<1>7. \A i \in 1 .. Len(text) : text[i].of \in {k, NoSym} \/ text[i].sym # k
  BY <1>2, <1>3 DEF Shape, Low
<1> HIDE DEF c, d
<1>8. ASSUME NEW i \in 1 .. Len(c)
      PROVE  Shape(c, i)
  <2>1. i \in 1 .. Len(text)
    BY <1>1
  <2>2. ASSUME text[i].op \notin {"lui", "other", "branch"}, text[i].sym # NoSym
        PROVE  c[i].off = text[i].off
    <3>1. text[i].sym = text[i].of
      BY <1>3, <2>1, <2>2 DEF Shape, Low
    <3> QED
      BY <1>1, <1>6, <2>1, <2>2, <3>1
  <2> QED
    BY <1>1, <1>3, <2>1, <2>2, ShapeSame
<1>9. ASSUME NEW i \in 1 .. Len(c), c[i].of # NoSym, c[i].of \in DOMAIN u
      PROVE  Waits(c, u, i) \/ Arrives(c, u, i)
  <2>1. i \in 1 .. Len(text) /\ c[i].of = text[i].of /\ c[i].plus = text[i].plus /\ c[i].sym = text[i].sym
        /\ c[i].base = text[i].base
    BY <1>1 DEF Alike
  <2>2. CASE text[i].of = k
    <3>1. Leads(c, i, w[k].addr + text[i].plus)
      BY <1>6, <2>1, <2>2
    <3> QED
      BY <2>1, <2>2, <3>1 DEF Arrives
  <2>3. CASE text[i].of # k
    <3> DEFINE j == LuiOf(text, i)
    <3>1. text[i].sym # k /\ text[i].of \in DOMAIN t /\ u[text[i].of] = t[text[i].of]
      BY <1>2, <1>7, <1>9, <2>1, <2>3
    <3>2. text[i].base = "at" =>
            /\ i - 1 \in 1 .. Len(text) /\ j \in 1 .. Len(text) /\ text[j].sym = text[i].sym
      <4>1. text[i].base = "at" => Low(text, i)
        BY <1>3, <2>1 DEF Shape
      <4> QED
        BY <2>1, <4>1, <1>1 DEF Low, LuiOf
    <3>3. text[i].base = "at" => LuiOf(c, i) = j
      BY <1>1, <3>2 DEF LuiOf, Alike
    <3> HIDE DEF j
    <3>4. /\ c[i].field = text[i].field
          /\ text[i].base = "at" => c[j].field = text[j].field /\ c[j].off = text[j].off
      BY <1>1, <2>1, <3>1, <3>2
    <3>5. CASE Waits(text, t, i)
      <4>1. \A v : Listing(t, text[i].of, v) => Listing(u, text[i].of, v)
        BY <3>1 DEF Listing
      <4>2. /\ text[i].sym = text[i].of /\ Listing(t, text[i].of, InstUse(i)) /\ c[i].op # "lui"
            /\ text[i].base = "at" =>
                 Listing(t, text[i].of, InstUse(j)) /\ text[j].off = text[i].plus /\ text[j].field = 0
        BY <1>1, <2>1, <3>5 DEF Waits, j, Alike
      <4> QED
        BY <2>1, <3>3, <3>4, <4>1, <4>2 DEF Waits
    <3>6. CASE Arrives(text, t, i)
      <4> DEFINE b == t[text[i].of].addr + text[i].plus
      <4>1. t[text[i].of].addr # 0 /\ Leads(text, i, b)
        BY <3>6 DEF Arrives
      <4> HIDE DEF b
      <4>2. Shape(text, i) /\ text[i].of # NoSym /\ text[i].op \in Ops
        <5>1. text[i] \in Code
          BY <2>1, ElementOfSeq DEF Walk
        <5> QED
          BY <1>3, <1>9, <2>1, <5>1 DEF Code, Instruction
      <4>3. text[i].base = "at" => c[LuiOf(text, i)].field = text[LuiOf(text, i)].field
        BY <3>4 DEF j
      <4>4. Leads(c, i, b)
        BY <1>1, <2>1, <3>4, <4>1, <4>2, <4>3, LeadsSame
      <4> QED
        BY <2>1, <3>1, <4>1, <4>4 DEF Arrives, b
    <3> QED
      BY <1>9, <2>1, <3>1, <3>5, <3>6 DEF Referring
  <2> QED
    BY <2>2, <2>3
<1>10. ASSUME NEW y \in DOMAIN d, d[y].of \in DOMAIN u
       PROVE  WordHolds(d, u, y)
  <2>1. y \in DOMAIN data /\ d[y].of = data[y].of /\ WordHolds(data, t, y)
    BY <1>1, <1>2, <1>10 DEF Referring
  <2>2. CASE data[y].of = k
    <3>1. Among(uses, Len(uses), DataUse(y))
      BY <1>4, <2>1, <2>2 DEF WordHolds
    <3> QED
      BY <1>1, <2>1, <2>2, <3>1 DEF WordHolds
  <2>3. CASE data[y].of # k
    <3>1. ~Among(uses, Len(uses), DataUse(y))
      <4> SUFFICES ASSUME NEW p \in 1 .. Len(uses), uses[p] = DataUse(y) PROVE FALSE
        BY DEF Among
      <4>1. PointsAt(k, uses[p], text, data)
        BY DEF Points
      <4> QED
        BY <2>3, <4>1 DEF PointsAt, DataUse
    <3>2. d[y].word = data[y].word /\ u[data[y].of] = t[data[y].of]
      BY <1>1, <1>2, <1>10, <2>1, <2>3, <3>1
    <3> QED
      BY <2>1, <3>2 DEF WordHolds, Listing
  <2> QED
    BY <2>2, <2>3
<1>11. Ordered(u)
  <2> SUFFICES ASSUME NEW j \in DOMAIN u, NEW p \in 1 .. Len(u[j].uses), NEW q \in 1 .. Len(u[j].uses),
                      p < q, u[j].uses[p].inst, u[j].uses[q].inst
               PROVE  u[j].uses[p].at > u[j].uses[q].at
    BY DEF Ordered
  <2>1. j # k
    OBVIOUS
  <2>2. j \in DOMAIN t /\ u[j] = t[j]
    BY <1>2, <2>1
  <2> QED
    BY <2>2 DEF Referring, Ordered
<1> QED
  BY <1>8, <1>9, <1>10, <1>11 DEF Referring, c, d

Refers(c, d, t, f) == Referring(c, d, t) /\ Named(c, d, t, f) /\ GpPlaced(t)

(* record_label, of a label outside of the $gp area.                       *)
LEMMA RecordRefers ==
    ASSUME TypeInvariant, References, NEW n \in Names, NEW a \in Nat, a # 0,
           ~lookup_label(n)[NodeOf(n)].gp
    PROVE  LET r == record_label(n, a)
           IN  Refers(r.text, r.data, r.table, file)
<1> DEFINE k == NodeOf(n)
           t == lookup_label(n)
           r == record_label(n, a)
           l == t[k]
           uses == l.uses
           w == Given(n, a)
           new == Recorded1(n, a)
           u == [t EXCEPT ![k] = new]
           image == PatchedImage(n, a)
<1>1. /\ k \in DOMAIN t /\ k \in Node /\ k # NoSym /\ TypedTable(t) /\ ~l.gp
      /\ text \in Seq(Code) /\ data \in [DOMAIN data -> Words] /\ Points(t, text, data)
  BY LookupFact, NodeType, LookupImage DEF TypeInvariant, Image
<1>2. Refers(text, data, t, file)
  BY LookupReferring DEF Refers
<1>3. IF SecondDefinition(l)
      THEN r.table = t /\ r.text = text /\ r.data = data
      ELSE r.table = u /\ r.text = image.text /\ r.data = image.data
  BY <1>1, RecordFact
<1>4. CASE SecondDefinition(l)
  BY <1>2, <1>3, <1>4
<1>5. CASE ~SecondDefinition(l)
  <2>1. l.addr = 0
    BY <1>1, <1>5 DEF SecondDefinition
  <2>2. new.addr = a /\ new.gp = l.gp /\ new.uses = <<>> /\ w[k].addr = a
    BY <1>1 DEF Recorded1, GivenAddr, Given
  <2>3. l \in FullLabel /\ uses \in Seq(Use) /\ Len(uses) \in Nat
    <3>1. l \in FullLabel
      BY <1>1 DEF TypedTable
    <3> HIDE DEF l
    <3>2. l.uses \in Seq(Use)
      BY <3>1 DEF FullLabel
    <3> QED
      BY <3>1, <3>2, LenProperties
  <2>4. image = AfterUses(uses, k, w)[Len(uses)]
    BY DEF PatchedImage
  <2> HIDE DEF w, new, image, r
  <2>5. Walk(uses, k, w)
    <3>1. \A y \in 1 .. Len(text) : Shape(text, y)
      BY <1>2 DEF Refers, Referring
    <3>2. LatestFirst(uses)
      BY <1>1, <1>2 DEF Refers, Referring, Ordered, LatestFirst
    <3>3. \A p \in 1 .. Len(uses) : uses[p] \in Use /\ PointsAt(k, uses[p], text, data)
      <4>1. \A p \in 1 .. Len(uses) : PointsAt(k, uses[p], text, data)
        BY <1>1 DEF Points
      <4>2. \A p \in 1 .. Len(uses) : uses[p] \in Use
        BY <2>3, ElementOfSeq
      <4> QED
        BY <4>1, <4>2
    <3> QED
      BY <1>1, <2>2, <2>3, <3>1, <3>2, <3>3 DEF Walk
  <2>6. Walked(image, uses, Len(uses), k, w)
    BY <1>1, <2>4, <2>5, WalkedUses
  <2>7. u = [t EXCEPT ![k] = u[k]] /\ u[k] = new /\ DOMAIN u = DOMAIN t
    BY <1>1
  <2>8. Len(u[k].uses) = 0
    BY <2>2, <2>7
  <2> DEFINE v == uses
  <2>9. t[k].uses = v /\ Walk(v, k, w) /\ Walked(image, v, Len(v), k, w)
    BY <2>5, <2>6
  <2> HIDE DEF v, u, t, k
  <2>10. Referring(image.text, image.data, u)
    <3>1. Referring(text, data, t) /\ t[k].addr = 0 /\ w[k].addr # 0 /\ u[k].addr = w[k].addr
      BY <1>2, <2>1, <2>2, <2>7 DEF Refers
    <3> QED
      BY <1>1, <2>7, <2>8, <2>9, <3>1, PatchedReferring
  <2>11. Named(image.text, image.data, u, file)
    <3>1. Patched(image)
      BY <2>6 DEF Walked
    <3>2. Named(text, data, t, file)
      BY <1>2 DEF Refers
    <3>3. /\ Len(image.text) = Len(text) /\ DOMAIN image.data = DOMAIN data
          /\ \A y \in 1 .. Len(text) : image.text[y].of = text[y].of
          /\ \A y \in DOMAIN data : image.data[y].of = data[y].of
      BY <3>1 DEF Patched, Alike
    <3> QED
      BY <2>7, <3>2, <3>3 DEF Named, Alive
  <2>12. GpPlaced(u)
    BY <1>1, <1>2, <2>2, <2>7 DEF Refers, GpPlaced
  <2>13. r.table = u /\ r.text = image.text /\ r.data = image.data
    BY <1>3, <1>5
  <2> QED
    BY <2>10, <2>11, <2>12, <2>13 DEF Refers, r
<1> QED
  BY <1>4, <1>5

(* The table after .globl, and its fields.                                 *)
LEMMA GlobalRefers ==
    ASSUME TypeInvariant, References, NEW n \in Names
    PROVE  Refers(text, data, make_label_global(n), file)
<1> DEFINE t == lookup_label(n)
           k == NodeOf(n)
           l == [addr |-> t[k].addr, global |-> TRUE, gp |-> t[k].gp, uses |-> t[k].uses]
<1>1. make_label_global(n) = [t EXCEPT ![k] = l] /\ k \in DOMAIN t
      /\ l.uses = t[k].uses /\ l.addr = t[k].addr /\ l.gp = t[k].gp
  BY GlobalFact, LookupFact
<1>2. Refers(text, data, t, file)
  BY LookupReferring DEF Refers
<1> HIDE DEF t, k, l
<1>3. l.gp => l.addr \in GpBase .. GpTop
  BY <1>1, <1>2 DEF Refers, GpPlaced
<1>4. Referring(text, data, t) /\ Named(text, data, t, file) /\ GpPlaced(t)
  BY <1>2 DEF Refers
<1>5. Refers(text, data, [t EXCEPT ![k] = l], file)
  BY <1>1, <1>3, <1>4, OneReferring DEF Refers
<1> QED
  BY <1>1, <1>5

(* The directives that define or declare labels.                           *)
LEMMA LabelReferences ==
    ASSUME TypeInvariant, Sound(complete_table), Listed, References, ~GpNamesReused, NEW n \in Names,
           \/ Label(n) \/ Globl(n) \/ \E size \in LcommSizes : LcommLarge(n, size)
           \/ \E size \in CommSizes : Comm(n, size)
    PROVE  References'
<1>1. CASE Label(n)
  <2>1. ~lookup_label(n)[NodeOf(n)].gp
    BY <1>1 DEF Label, OnlyOnce
  <2>2. LET r == record_label(n, current_pc)
        IN  Refers(r.text, r.data, r.table, file)
    BY <2>1, GivenAddresses, RecordRefers
  <2> QED
    BY <1>1, <2>2 DEF Label, Records, References, Refers
<1>2. CASE Globl(n)
  BY <1>2, GlobalRefers DEF Globl, References, Refers
<1>3. ASSUME NEW size \in LcommSizes, LcommLarge(n, size)
      PROVE  References'
  <2>1. ~lookup_label(n)[NodeOf(n)].gp
    BY <1>3 DEF LcommLarge, OnlyOnce
  <2>2. LET r == record_label(n, next_data_pc)
        IN  Refers(r.text, r.data, r.table, file)
    BY <2>1, GivenAddresses, RecordRefers
  <2> QED
    BY <1>3, <2>2 DEF LcommLarge, Records, References, Refers
<1>4. ASSUME NEW size \in CommSizes, Comm(n, size)
      PROVE  References'
  <2>1. CASE Defined(NodeOf(n), lookup_label(n))
    <3>1. complete_table' = lookup_label(n) /\ UNCHANGED <<text, data, file>>
      BY <1>4, <2>1 DEF Comm
    <3> QED
      BY <3>1, LookupReferring DEF References
  <2>2. CASE ~Defined(NodeOf(n), lookup_label(n))
    <3>1. ~lookup_label(n)[NodeOf(n)].gp
      BY <2>2, LookupListed, LookupFact DEF Defined, ListedOn
    <3>2. LET r == record_label(n, next_data_pc)
          IN  Refers(r.text, r.data, r.table, file)
      BY <3>1, GivenAddresses, RecordRefers
    <3> QED
      BY <1>4, <2>2, <3>2 DEF Comm, Records, References, Refers
  <2> QED
    BY <2>1, <2>2
<1> QED
  BY <1>1, <1>2, <1>3, <1>4

LEMMA LcommSmallReferences ==
    ASSUME TypeInvariant, Sound(complete_table), Listed, References, ~GpNamesReused, NEW n \in Names,
           NEW size, LcommSmall(n, size)
    PROVE  References'
<1> DEFINE r == record_label(n, next_gp_item_addr)
           k == NodeOf(n)
           t == r.table
           l == [t[k] EXCEPT !.gp = TRUE]
<1>1. lookup_label(n)[k].addr = 0 /\ ~lookup_label(n)[k].gp
  <2>1. lookup_label(n)[k].addr = 0
    BY DEF LcommSmall, NotYet, Defined
  <2> QED
    BY <2>1, LookupListed, LookupFact DEF ListedOn
<1>2. Refers(r.text, r.data, t, file)
  BY <1>1, GivenAddresses, RecordRefers
<1>3. t[k].addr = next_gp_item_addr /\ IsLabel(t[k]) /\ k \in DOMAIN t
  <2>1. TypedTable(lookup_label(n)) /\ k \in DOMAIN lookup_label(n)
    BY LookupImage, LookupFact DEF TypeInvariant, Image
  <2>2. t = [lookup_label(n) EXCEPT ![k] = Recorded1(n, next_gp_item_addr)]
    BY <1>1, <2>1, RecordFact DEF SecondDefinition
  <2>3. Recorded1(n, next_gp_item_addr).addr = next_gp_item_addr /\ IsLabel(Recorded1(n, next_gp_item_addr))
    BY <1>1 DEF Recorded1, GivenAddr, IsLabel
  <2> HIDE DEF t, k
  <2> QED
    BY <2>1, <2>2, <2>3
<1>4. complete_table' = [t EXCEPT ![k] = l] /\ text' = r.text /\ data' = r.data /\ UNCHANGED file
  <2>1. r = [table |-> r.table, text |-> r.text, data |-> r.data, locals |-> r.locals]
    BY DEF record_label
  <2>2. LET s == [r EXCEPT !.table[k].gp = TRUE]
        IN  complete_table' = s.table /\ text' = s.text /\ data' = s.data
    BY DEF LcommSmall, Records
  <2> HIDE DEF r, k
  <2>3. LET s == [r EXCEPT !.table[k].gp = TRUE]
        IN  s.table = [r.table EXCEPT ![k].gp = TRUE] /\ s.text = r.text /\ s.data = r.data
    BY <2>1
  <2> QED
    BY <2>2, <2>3 DEF LcommSmall
<1> HIDE DEF t, k, l, r
<1>5. l.addr = t[k].addr /\ l.uses = t[k].uses
  <2> DEFINE m == t[k]
  <2>1. IsLabel(m)
    BY <1>3
  <2> HIDE DEF m
  <2>2. [m EXCEPT !.gp = TRUE].addr = m.addr /\ [m EXCEPT !.gp = TRUE].uses = m.uses
    BY <2>1, FieldSet
  <2> QED
    BY <2>2 DEF m, l
<1>6. l.addr \in GpBase .. GpTop
  BY <1>3, <1>5 DEF TypeInvariant
<1>7. Refers(r.text, r.data, [t EXCEPT ![k] = l], file)
  BY <1>2, <1>3, <1>5, <1>6, OneReferring DEF Refers
<1> QED
  BY <1>4, <1>7 DEF References, Refers

LEMMA ExternReferences ==
    ASSUME TypeInvariant, Sound(complete_table), Listed, References, ~GpNamesReused, NEW n \in Names,
           NEW size, extern_directive(n, size)
    PROVE  References'
<1> DEFINE t == lookup_label(n)
           k == NodeOf(n)
           g == make_label_global(n)
           a == next_gp_item_addr
           l == [addr |-> t[k].addr, global |-> TRUE, gp |-> t[k].gp, uses |-> t[k].uses]
<1>1. g = [t EXCEPT ![k] = l] /\ l.addr = t[k].addr /\ l.gp = t[k].gp /\ IsLabel(l) /\ k \in DOMAIN t
  BY GlobalFact, LookupFact DEF IsLabel
<1>2. Refers(text, data, g, file)
  BY GlobalRefers
<1>3. /\ UNCHANGED <<text, data, file>>
      /\ complete_table' = g \/ (t[k].addr = 0 /\ complete_table' = [g EXCEPT ![k].gp = TRUE, ![k].addr = a])
  BY DEF extern_directive, NotYet, Defined
<1>4. a \in GpBase .. GpTop
  BY DEF TypeInvariant
<1> HIDE DEF t, k, l, g, a
<1>5. k \in DOMAIN g /\ g[k] = l
  BY <1>1
<1>6. ASSUME t[k].addr = 0
      PROVE  Refers(text, data, [g EXCEPT ![k].gp = TRUE, ![k].addr = a], file)
  <2> DEFINE x == [l EXCEPT !.gp = TRUE]
             y == [x EXCEPT !.addr = a]
  <2>1. [g EXCEPT ![k].gp = TRUE, ![k].addr = a] = [g EXCEPT ![k] = y]
    BY <1>5
  <2>2. y.addr = a /\ y.uses = l.uses
    <3>1. x = [addr |-> l.addr, global |-> l.global, gp |-> TRUE, uses |-> l.uses]
      BY <1>1, FieldSet
    <3> HIDE DEF x
    <3>2. IsLabel(x) /\ x.uses = l.uses
      BY <3>1 DEF IsLabel
    <3> QED
      BY <3>2, FieldSet
  <2> HIDE DEF y
  <2>3. g[k].addr = 0 /\ y.uses = g[k].uses
    BY <1>1, <1>5, <1>6, <2>2
  <2>4. Refers(text, data, [g EXCEPT ![k] = y], file)
    BY <1>2, <1>4, <1>5, <2>2, <2>3, OneReferring DEF Refers
  <2> QED
    BY <2>1, <2>4
<1> QED
  BY <1>2, <1>3, <1>6 DEF References, Refers

(* The end of a file: what it erases is of an earlier file from then on.    *)
LEMMA FlushReferences ==
    ASSUME TypeInvariant, References, flush_local_labels
    PROVE  References'
<1> DEFINE t == complete_table
           u == complete_table'
<1>1. /\ u = [k \in DOMAIN t \ Range(local_labels) |-> t[k]]
      /\ UNCHANGED <<text, data>> /\ file' = file + 1 /\ file \in Nat
  BY AddressAssumption DEF flush_local_labels, Restrict, TypeInvariant
<1>2. DOMAIN u \subseteq DOMAIN t /\ \A k \in DOMAIN u : u[k] = t[k]
  BY <1>1
<1>3. Referring(text, data, t) /\ Named(text, data, t, file) /\ GpPlaced(t)
  BY DEF References
<1>4. \A k \in DOMAIN t : k.file \in Nat
  BY AddressAssumption DEF TypeInvariant, Image, TypedTable, Node
<1> HIDE DEF t, u
<1>5. Referring(text, data, u)
  <2>1. \A k \in DOMAIN t \cap DOMAIN u :
            u[k].uses = t[k].uses /\ (t[k].addr # 0 => u[k].addr = t[k].addr)
    BY <1>2
  <2>2. \A k \in DOMAIN u \ DOMAIN t : k # NoSym /\ Unnamed(text, data, k) /\ Len(u[k].uses) = 0
    BY <1>2
  <2> QED
    BY <1>3, <2>1, <2>2, KeptReferring
<1>6. Named(text, data, u, file + 1)
  <2>1. ASSUME NEW k \in Node \cup {NoSym}, Alive(t, file, k)
        PROVE  Alive(u, file + 1, k)
    <3>1. CASE k = NoSym
      BY <3>1 DEF Alive
    <3>2. CASE k \in DOMAIN t
      <4>1. k.file <= file /\ k.file \in Nat
        BY <1>3, <1>4, <3>2 DEF Named
      <4> QED
        BY <1>1, <4>1 DEF Alive
    <3>3. CASE k \in Node /\ k.file < file
      <4>1. k.file \in Nat
        BY <3>3, AddressAssumption DEF Node
      <4> QED
        BY <1>1, <3>3, <4>1 DEF Alive
    <3> QED
      BY <2>1, <3>1, <3>2, <3>3 DEF Alive
  <2>2. \A i \in 1 .. Len(text) : text[i].of \in Node \cup {NoSym}
    <3> SUFFICES ASSUME NEW i \in 1 .. Len(text) PROVE text[i].of \in Node \cup {NoSym}
      OBVIOUS
    <3>1. text[i] \in Code
      BY ElementOfSeq DEF TypeInvariant, Image
    <3> QED
      BY <3>1 DEF Code, Instruction
  <2>3. \A b \in DOMAIN data : data[b].of \in Node
    BY DEF TypeInvariant, Image, Words
  <2>4. \A k \in DOMAIN u : k.file <= file + 1
    BY <1>1, <1>2, <1>3, <1>4 DEF Named
  <2> QED
    BY <1>3, <2>1, <2>2, <2>3, <2>4 DEF Named
<1>7. GpPlaced(u)
  BY <1>2, <1>3 DEF GpPlaced
<1> QED
  BY <1>1, <1>5, <1>6, <1>7 DEF References, u

(* The uses of a label, and one more.                                      *)
LEMMA UseListing ==
    ASSUME NEW t, NEW c, NEW d, Image(t, c, d), NEW k \in DOMAIN t, NEW u \in Use, Ordered(t),
           u.inst => \A p \in 1 .. Len(t[k].uses) : t[k].uses[p].inst => t[k].uses[p].at < u.at
    PROVE  LET w == Uses(t, k, u)
           IN  /\ DOMAIN w = DOMAIN t /\ Ordered(w)
               /\ \A j \in DOMAIN t : /\ w[j].addr = t[j].addr /\ w[j].gp = t[j].gp
                                      /\ \A v : Listing(t, j, v) => Listing(w, j, v)
               /\ Listing(w, k, u)
<1> DEFINE w == Uses(t, k, u)
           s == t[k].uses
           z == <<u>> \o s
<1>1. s \in Seq(Use)
  <2> DEFINE l == t[k]
  <2>1. l \in FullLabel
    BY DEF Image, TypedTable
  <2> HIDE DEF l
  <2>2. l.uses \in Seq(Use)
    BY <2>1 DEF FullLabel
  <2> QED
    BY <2>2 DEF l
<1>2. /\ DOMAIN w = DOMAIN t /\ \A j \in DOMAIN t : j # k => w[j] = t[j]
      /\ w[k].addr = t[k].addr /\ w[k].gp = t[k].gp /\ w[k].uses = z
  <2> DEFINE l == t[k]
             y == <<u>> \o l.uses
             m == [l EXCEPT !.uses = y]
  <2>1. w = [t EXCEPT ![k] = m]
    BY DEF Uses
  <2>2. IsLabel(l) /\ y = z
    BY DEF Image, TypedTable, FullLabel, IsLabel
  <2> HIDE DEF l, w, z, y, m
  <2>5. m.addr = l.addr /\ m.gp = l.gp /\ m.uses = z
    <3>1. m = [l EXCEPT !.uses = y]
      BY DEF m
    <3> QED
      BY <2>2, <3>1, FieldSet
  <2>6. t = [j \in DOMAIN t |-> t[j]]
    BY DEF Image, TypedTable
  <2> QED
    BY <2>1, <2>5, <2>6 DEF l
<1>3. /\ Len(z) = Len(s) + 1 /\ Len(s) \in Nat /\ z[1] = u
      /\ \A p \in 1 .. Len(s) : z[p + 1] = s[p]
      /\ \A p \in 1 .. Len(s) + 1 : p = 1 \/ (p - 1 \in 1 .. Len(s) /\ z[p] = s[p - 1])
  BY <1>1, UsePrepended
<1> HIDE DEF w, z
<1>4. Listing(w, k, u)
  BY <1>2, <1>3 DEF Listing
<1>5. ASSUME NEW v, Listing(t, k, v)
      PROVE  Listing(w, k, v)
  <2>1. PICK p \in 1 .. Len(s) : s[p] = v
    BY <1>5 DEF Listing
  <2>2. p + 1 \in 1 .. Len(z) /\ z[p + 1] = v
    BY <1>3, <2>1
  <2> QED
    BY <1>2, <2>2 DEF Listing
<1>6. \A j \in DOMAIN t : \A v : Listing(t, j, v) => Listing(w, j, v)
  BY <1>2, <1>5 DEF Listing
<1>7. \A p, q \in 1 .. Len(s) : p < q /\ s[p].inst /\ s[q].inst => s[p].at > s[q].at
  BY DEF Ordered
<1>8. \A p \in 1 .. Len(s) : s[p].at \in Nat
  <2> SUFFICES ASSUME NEW p \in 1 .. Len(s) PROVE s[p].at \in Nat
    OBVIOUS
  <2>1. s[p] \in Use
    BY <1>1, ElementOfSeq
  <2> QED
    BY <2>1 DEF Use
<1>9. \A p, q \in 1 .. Len(z) : p < q /\ z[p].inst /\ z[q].inst => z[p].at > z[q].at
  <2> SUFFICES ASSUME NEW p \in 1 .. Len(z), NEW q \in 1 .. Len(z), p < q, z[p].inst, z[q].inst
               PROVE  z[p].at > z[q].at
    OBVIOUS
  <2>1. q - 1 \in 1 .. Len(s) /\ z[q] = s[q - 1]
    BY <1>3
  <2>2. CASE p = 1
    <3>1. s[q - 1].at < u.at /\ u.at \in Nat
      BY <1>3, <2>1, <2>2 DEF Use
    <3> QED
      BY <1>3, <1>8, <2>1, <2>2, <3>1
  <2>3. CASE p # 1
    <3>1. p - 1 \in 1 .. Len(s) /\ z[p] = s[p - 1] /\ p - 1 < q - 1
      BY <1>3, <2>3
    <3> QED
      BY <1>7, <2>1, <3>1
  <2> QED
    BY <2>2, <2>3
<1>10. Ordered(w)
  <2> SUFFICES ASSUME NEW j \in DOMAIN w, NEW p \in 1 .. Len(w[j].uses), NEW q \in 1 .. Len(w[j].uses),
                      p < q, w[j].uses[p].inst, w[j].uses[q].inst
               PROVE  w[j].uses[p].at > w[j].uses[q].at
    BY DEF Ordered
  <2>1. CASE j = k
    BY <1>2, <1>9, <2>1
  <2>2. CASE j # k
    BY <1>2, <2>2 DEF Ordered
  <2> QED
    BY <2>1, <2>2
<1> QED
  BY <1>2, <1>4, <1>6, <1>10 DEF w

(* What assembling an instruction gives, when loads that name a label wait.  *)
LEMMA AssembledAt ==
    ASSUME NEW m, NEW d, Image(m.table, m.text, d), NEW r \in Code, r.sym \in DOMAIN m.table \cup {NoSym},
           r.op = "load" /\ r.sym # NoSym => m.table[r.sym].addr = 0
    PROVE  LET A == Assemble(m, r)
               c == m.text
               e == A.text
               x == Len(c) + 1
           IN  /\ e \in Seq(Code) /\ Len(e) = x /\ Len(c) \in Nat
               /\ \A y \in 1 .. Len(c) : /\ Alike(e[y], c[y]) /\ e[y].field = c[y].field
                                         /\ c[y].sym # NoSym => e[y].off = c[y].off
               /\ Alike(e[x], r) /\ (r.op # "branch" => e[x].off = r.off)
               /\ IF r.sym # NoSym /\ m.table[r.sym].addr = 0
                  THEN e[x].field = r.field /\ A.table = Uses(m.table, r.sym, InstUse(x))
                  ELSE e[x].field = FieldOf(r.op, ValueAt(Append(c, r), x, m.table)) /\ A.table = m.table
<1> DEFINE t == m.table
           c == m.text
           code == Append(c, r)
           x == Len(c) + 1
           A == Assemble(m, r)
           e == A.text
<1>1. c \in Seq(Code)
  BY DEF Image
<1>2. /\ code \in Seq(Code) /\ Len(code) = x /\ Len(c) \in Nat /\ x \in 1 .. Len(code)
      /\ \A j \in 1 .. Len(c) : code[j] = c[j]
      /\ code[x] = r
  BY <1>1, AppendedCode
<1>3. CASE r.sym # NoSym /\ t[r.sym].addr = 0
  <2>1. e = code /\ A.table = Uses(t, r.sym, InstUse(x))
    BY <1>2, <1>3 DEF Assemble, Defined, InstUse
  <2> HIDE DEF t, c, code, x, A, e
  <2>2. e \in Seq(Code) /\ Len(e) = x /\ Len(c) \in Nat
    BY <1>2, <2>1
  <2>3. \A y \in 1 .. Len(c) : /\ Alike(e[y], c[y]) /\ e[y].field = c[y].field
                               /\ c[y].sym # NoSym => e[y].off = c[y].off
    BY <1>2, <2>1 DEF Alike
  <2>4. Alike(e[x], r) /\ (r.op # "branch" => e[x].off = r.off) /\ e[x].field = r.field
    BY <1>2, <2>1 DEF Alike
  <2> QED
    BY <1>3, <2>1, <2>2, <2>3, <2>4 DEF t, c, e, A, x
<1>4. CASE ~(r.sym # NoSym /\ t[r.sym].addr = 0)
  <2> DEFINE f == resolve_a_label_sub(code, x, t)
             a == IF r.sym = NoSym THEN 0 ELSE t[r.sym].addr
             v == ValueAt(code, x, t)
  <2>1. e = f /\ A.table = t
    BY <1>2, <1>4 DEF Assemble, Defined
  <2>2. a \in Int
    BY DEF Image, TypedTable, FullLabel
  <2>3. r.op = "load" => r.sym = NoSym
    BY <1>4
  <2> HIDE DEF t, c, code, x, A, a, e
  <2>4. a = IF code[x].sym = NoSym THEN 0 ELSE t[code[x].sym].addr
    BY <1>2 DEF a
  <2>5. v \in Int
    BY <1>2, <2>2, <2>4, ValueFact
  <2>6. /\ f \in Seq(Code) /\ Len(f) = Len(code)
        /\ \A j \in 1 .. Len(code) :
              /\ Alike(f[j], code[j])
              /\ f[j].field = IF j = x THEN FieldOf(code[x].op, v) ELSE code[j].field
              /\ j # x => f[j].off = code[j].off + IF code[x].op = "load" /\ Negative(v) THEN Carry(code, x, j) ELSE 0
              /\ j = x /\ code[x].op # "branch" => f[j].off = code[x].off
    BY <1>2, <2>5, ResolvedCode
  <2> HIDE DEF f, v
  <2>7. \A y \in 1 .. Len(c) : y \in 1 .. Len(code) /\ y # x /\ code[y].off \in Int
    <3> SUFFICES ASSUME NEW y \in 1 .. Len(c) PROVE y \in 1 .. Len(code) /\ y # x /\ code[y].off \in Int
      OBVIOUS
    <3>1. y \in 1 .. Len(code) /\ y # x
      BY <1>2 DEF x
    <3>2. code[y] \in Code
      BY <1>2, <3>1, ElementOfSeq
    <3> QED
      BY <3>1, <3>2 DEF Code, Instruction
  <2>8. ASSUME NEW y \in 1 .. Len(c)
        PROVE  /\ Alike(f[y], c[y]) /\ f[y].field = c[y].field
               /\ c[y].sym # NoSym => f[y].off = c[y].off
    <3>1. /\ y \in 1 .. Len(code) /\ y # x /\ code[y] = c[y] /\ code[y].off \in Int
      BY <1>2, <2>7
    <3>2. ASSUME c[y].sym # NoSym
          PROVE  f[y].off = c[y].off
      <4>1. CASE code[x].op = "load" /\ Negative(v)
        <5>1. code[x].sym = NoSym
          BY <1>2, <2>3, <4>1
        <5>2. Carry(code, x, y) = 0
          BY <3>1, <3>2, <5>1 DEF Carry, Unresolved
        <5> QED
          BY <2>6, <3>1, <4>1, <5>2
      <4>2. CASE ~(code[x].op = "load" /\ Negative(v))
        <5>1. f[y].off = code[y].off + 0
          BY <2>6, <3>1, <4>2
        <5> QED
          BY <3>1, <5>1
      <4> QED
        BY <4>1, <4>2
    <3> QED
      BY <2>6, <3>1, <3>2
  <2>9. Alike(f[x], r) /\ (r.op # "branch" => f[x].off = r.off) /\ f[x].field = FieldOf(r.op, v)
    BY <1>2, <2>6
  <2> QED
    BY <1>2, <1>4, <2>1, <2>6, <2>8, <2>9 DEF e, A, t, c, v, code, x
<1> QED
  BY <1>3, <1>4

OffsetAt(r, x) == IF r.op = "branch" THEN -AddrOf(x) ELSE r.off
BaseOf(r, t) == IF r.sym = NoSym THEN 0 ELSE t[r.sym].addr
Valued(r, v, off, a) ==
    /\ v \in Int /\ off \in Int
    /\ r.bits = 0 => v = off + a
    /\ r.bits = 1 => v = ((off + a) \div Half) % Half
    /\ r.bits = -1 => v = (off + a) % Half

LEMMA AssembledValue ==
    ASSUME NEW c \in Seq(Code), NEW r \in Code, NEW t, BaseOf(r, t) \in Int
    PROVE  Valued(r, ValueAt(Append(c, r), Len(c) + 1, t), OffsetAt(r, Len(c) + 1), BaseOf(r, t))
<1> DEFINE code == Append(c, r)
           x == Len(c) + 1
           a == BaseOf(r, t)
<1>1. code \in Seq(Code) /\ x \in 1 .. Len(code) /\ code[x] = r
  BY AppendedCode
<1>2. a \in Int /\ a = IF r.sym = NoSym THEN 0 ELSE t[r.sym].addr
  BY DEF BaseOf
<1> HIDE DEF code, x, a
<1>3. a = IF code[x].sym = NoSym THEN 0 ELSE t[code[x].sym].addr
  BY <1>1, <1>2
<1>4. LET w == IF code[x].op = "branch" THEN -AddrOf(x) ELSE code[x].off
      IN  /\ ValueAt(code, x, t) \in Int /\ w \in Int
          /\ code[x].bits = 0 => ValueAt(code, x, t) = w + a
          /\ code[x].bits = 1 => ValueAt(code, x, t) = ((w + a) \div Half) % Half
          /\ code[x].bits = -1 => ValueAt(code, x, t) = (w + a) % Half
  BY <1>1, <1>2, <1>3, ValueFact
<1>5. Valued(r, ValueAt(code, x, t), OffsetAt(r, x), a)
  BY <1>1, <1>4 DEF Valued, OffsetAt
<1> QED
  BY <1>5 DEF code, x, a

(* Assembling one that is of a good shape and waits or arrives.             *)
LEMMA AssembledReferring ==
    ASSUME NEW m, NEW d, Image(m.table, m.text, d), Referring(m.text, d, m.table),
           NEW r \in Code, r.sym \in DOMAIN m.table \cup {NoSym},
           r.op = "load" /\ r.sym # NoSym => m.table[r.sym].addr = 0,
           NEW e, e = Assemble(m, r).text, NEW u, u = Assemble(m, r).table,
           NEW x, x = Len(m.text) + 1,
           Shape(e, x), r.of # NoSym => Waits(e, u, x) \/ Arrives(e, u, x)
    PROVE  Referring(e, d, u)
<1> DEFINE t == m.table
           c == m.text
<1>1. /\ e \in Seq(Code) /\ Len(e) = x /\ Len(c) \in Nat /\ x = Len(c) + 1
      /\ \A y \in 1 .. Len(c) : /\ Alike(e[y], c[y]) /\ e[y].field = c[y].field
                                /\ c[y].sym # NoSym => e[y].off = c[y].off
      /\ Alike(e[x], r)
      /\ u = t \/ (r.sym # NoSym /\ u = Uses(t, r.sym, InstUse(x)))
  BY AssembledAt
<1>2. Image(t, c, d) /\ Referring(c, d, t) /\ c \in Seq(Code) /\ Ordered(t)
  BY DEF Image, Referring
<1>3. /\ DOMAIN u = DOMAIN t /\ Ordered(u)
      /\ \A j \in DOMAIN t : u[j].addr = t[j].addr /\ \A v : Listing(t, j, v) => Listing(u, j, v)
  <2>1. CASE u = t
    BY <1>2, <2>1
  <2>2. CASE r.sym # NoSym /\ u = Uses(t, r.sym, InstUse(x))
    <3> DEFINE k == r.sym
               w == InstUse(x)
    <3> HIDE DEF t, c
    <3>1. k \in DOMAIN t /\ w \in Use
      BY <1>1, <2>2 DEF Use, InstUse, t
    <3>2. \A p \in 1 .. Len(t[k].uses) : t[k].uses[p].inst => t[k].uses[p].at < w.at
      <4> SUFFICES ASSUME NEW p \in 1 .. Len(t[k].uses), t[k].uses[p].inst PROVE t[k].uses[p].at < w.at
        OBVIOUS
      <4>1. PointsAt(k, t[k].uses[p], c, d)
        BY <1>2, <3>1 DEF Image, Points
      <4>2. t[k].uses[p].at \in 1 .. Len(c)
        BY <4>1 DEF PointsAt
      <4> QED
        BY <1>1, <4>2 DEF InstUse
    <3> HIDE DEF k, w
    <3>3. /\ DOMAIN Uses(t, k, w) = DOMAIN t /\ Ordered(Uses(t, k, w))
          /\ \A j \in DOMAIN t : /\ Uses(t, k, w)[j].addr = t[j].addr
                                 /\ \A v : Listing(t, j, v) => Listing(Uses(t, k, w), j, v)
      BY <1>2, <3>1, <3>2, UseListing
    <3> QED
      BY <2>2, <3>3 DEF k, w
  <2> QED
    BY <1>1, <2>1, <2>2
<1> HIDE DEF t, c
<1>4. ASSUME NEW i \in 1 .. Len(c)
      PROVE  Shape(e, i)
  <2>1. Shape(c, i)
    BY <1>2 DEF Referring
  <2> QED
    BY <1>1, <2>1, ShapeSame
<1>5. ASSUME NEW i \in 1 .. Len(c), e[i].of # NoSym, e[i].of \in DOMAIN u
      PROVE  Waits(e, u, i) \/ Arrives(e, u, i)
  <2>1. /\ c[i].of = e[i].of /\ e[i].sym = c[i].sym /\ e[i].base = c[i].base /\ e[i].plus = c[i].plus
        /\ e[i].field = c[i].field /\ e[i].op = c[i].op
    BY <1>1 DEF Alike
  <2>2. c[i].of # NoSym /\ c[i].of \in DOMAIN t /\ (Waits(c, t, i) \/ Arrives(c, t, i)) /\ Shape(c, i)
    BY <1>2, <1>3, <1>5, <2>1 DEF Referring
  <2> DEFINE j == LuiOf(c, i)
  <2>3. c[i].base = "at" => /\ i - 1 \in 1 .. Len(c) /\ j \in 1 .. Len(c) /\ c[j].sym = c[i].sym
    <3>1. c[i].base = "at" => Low(c, i)
      BY <2>2 DEF Shape
    <3> QED
      BY <3>1, <1>1 DEF Low, LuiOf
  <2>4. c[i].base = "at" => LuiOf(e, i) = j
    BY <1>1, <2>3 DEF LuiOf, Alike
  <2>5. CASE Waits(c, t, i)
    <3> HIDE DEF j
    <3>1. /\ c[i].sym = c[i].of /\ Listing(t, c[i].of, InstUse(i)) /\ c[i].op # "lui"
          /\ c[i].base = "at" => Listing(t, c[i].of, InstUse(j)) /\ c[j].off = c[i].plus /\ c[j].field = 0
      BY <2>5 DEF Waits, j
    <3>2. /\ Listing(u, e[i].of, InstUse(i)) /\ e[i].sym = e[i].of /\ e[i].op # "lui"
          /\ c[i].base = "at" => /\ Listing(u, e[i].of, InstUse(j)) /\ e[j].off = c[i].plus /\ e[j].field = 0
      BY <1>1, <1>3, <2>1, <2>2, <2>3, <3>1
    <3> QED
      BY <2>1, <2>4, <3>2 DEF Waits
  <2>6. CASE Arrives(c, t, i)
    <3> DEFINE b == t[c[i].of].addr + c[i].plus
    <3>1. t[c[i].of].addr # 0 /\ Leads(c, i, b)
      BY <2>6 DEF Arrives
    <3> HIDE DEF b
    <3>2. c[i].op \in Ops
      <4>1. c[i] \in Code
        BY <1>2, ElementOfSeq
      <4> QED
        BY <4>1 DEF Code, Instruction
    <3>3. c[i].base = "at" => e[LuiOf(c, i)].field = c[LuiOf(c, i)].field
      BY <1>1, <2>3 DEF j
    <3>4. Leads(e, i, b)
      BY <1>1, <2>1, <2>2, <3>1, <3>2, <3>3, LeadsSame
    <3> QED
      BY <1>3, <2>1, <2>2, <3>1, <3>4 DEF Arrives, b
  <2> QED
    BY <2>2, <2>5, <2>6
<1>6. ASSUME NEW a \in DOMAIN d, d[a].of \in DOMAIN u
      PROVE  WordHolds(d, u, a)
  <2>1. WordHolds(d, t, a) /\ d[a].of \in DOMAIN t
    BY <1>2, <1>3, <1>6 DEF Referring
  <2> QED
    BY <1>3, <2>1 DEF WordHolds
<1>7. \A i \in 1 .. Len(e) : i = x \/ i \in 1 .. Len(c)
  BY <1>1
<1>8. e[x].of = r.of
  BY <1>1 DEF Alike
<1> QED
  BY <1>3, <1>4, <1>5, <1>6, <1>7, <1>8 DEF Referring

(* What the handler of an instruction that names n has assembled so far.     *)
Good(m, n) ==
    /\ Image(m.table, m.text, data) /\ Refers(m.text, data, m.table, file)
    /\ SameAddresses(lookup_label(n), m.table) /\ Sound(m.table)
AddressOf(n) == lookup_label(n)[NodeOf(n)].addr

LEMMA StartGood ==
    ASSUME TypeInvariant, Sound(complete_table), References, NEW n \in Names
    PROVE  Good(Start(n), n)
<1>1. Image(lookup_label(n), text, data)
  BY LookupImage DEF TypeInvariant
<1>2. Refers(text, data, lookup_label(n), file)
  BY LookupReferring DEF Refers
<1>3. Start(n).text = text /\ Start(n).table = lookup_label(n)
  BY DEF Start
<1>4. Sound(lookup_label(n))
  BY LookedUp
<1> QED
  BY <1>1, <1>2, <1>3, <1>4 DEF Good, SameAddresses

LEMMA GoodEmit ==
    ASSUME NEW n, NEW m, Good(m, n), Emit(m)
    PROVE  References'
<1>1. text' = m.text /\ complete_table' = m.table /\ data' = data /\ file' = file
  BY DEF Emit
<1> QED
  BY <1>1 DEF Good, References, Refers

(* The instruction that is assembled, and those before it.                  *)
NewAt(m, n, r, e, u, x) ==
    /\ e \in Seq(Code) /\ Len(e) = x /\ Len(m.text) \in Nat /\ x \in Nat
    /\ \A y \in 1 .. Len(m.text) :
          /\ Alike(e[y], m.text[y]) /\ e[y].field = m.text[y].field
          /\ m.text[y].sym # NoSym => e[y].off = m.text[y].off
    /\ Alike(e[x], r) /\ (r.op # "branch" => e[x].off = r.off)
    /\ \A v : Listing(m.table, NodeOf(n), v) => Listing(u, NodeOf(n), v)
    /\ u[NodeOf(n)].addr = AddressOf(n)
    /\ IF r.sym # NoSym /\ AddressOf(n) = 0
       THEN e[x].field = r.field /\ Listing(u, NodeOf(n), InstUse(x))
       ELSE LET a == IF r.sym = NoSym THEN 0 ELSE AddressOf(n)
            IN  \E v \in Int : e[x].field = FieldOf(r.op, v) /\ Valued(r, v, OffsetAt(r, x), a)

LEMMA NewInst ==
    ASSUME TypeInvariant, NEW n \in Names, NEW m, Good(m, n), NEW r \in Code, r.sym \in {NodeOf(n), NoSym},
           r.op = "load" /\ r.sym # NoSym => AddressOf(n) = 0,
           NEW e, e = Assemble(m, r).text, NEW u, u = Assemble(m, r).table,
           NEW x, x = Len(m.text) + 1
    PROVE  NewAt(m, n, r, e, u, x)
<1> DEFINE t == m.table
           c == m.text
           k == NodeOf(n)
           s == AddressOf(n)
<1>1. k \in DOMAIN t /\ k # NoSym /\ t[k].addr = s /\ s \in Nat
  BY NodeType, LookupFact DEF Good, SameAddresses, AddressOf
<1>2. Image(t, c, data) /\ r.sym \in DOMAIN t \cup {NoSym} /\ c \in Seq(Code) /\ Ordered(t)
  BY <1>1 DEF Good, Image, Refers, Referring
<1>3. r.op = "load" /\ r.sym # NoSym => t[r.sym].addr = 0
  BY <1>1
<1>4. /\ e \in Seq(Code) /\ Len(e) = x /\ Len(c) \in Nat
      /\ \A y \in 1 .. Len(c) : /\ Alike(e[y], c[y]) /\ e[y].field = c[y].field
                                /\ c[y].sym # NoSym => e[y].off = c[y].off
      /\ Alike(e[x], r) /\ (r.op # "branch" => e[x].off = r.off)
      /\ IF r.sym # NoSym /\ t[r.sym].addr = 0
         THEN e[x].field = r.field /\ u = Uses(t, r.sym, InstUse(x))
         ELSE e[x].field = FieldOf(r.op, ValueAt(Append(c, r), x, t)) /\ u = t
  BY <1>2, <1>3, AssembledAt
<1>5. CASE r.sym # NoSym /\ s = 0
  <2> DEFINE w == InstUse(x)
  <2> HIDE DEF t, c, k, s
  <2>1. w \in Use
    BY <1>4 DEF Use, InstUse, c
  <2>2. \A p \in 1 .. Len(t[k].uses) : t[k].uses[p].inst => t[k].uses[p].at < w.at
    <3> SUFFICES ASSUME NEW p \in 1 .. Len(t[k].uses), t[k].uses[p].inst PROVE t[k].uses[p].at < w.at
      OBVIOUS
    <3>1. PointsAt(k, t[k].uses[p], c, data)
      BY <1>1, <1>2 DEF Image, Points
    <3>2. t[k].uses[p].at \in 1 .. Len(c)
      BY <3>1 DEF PointsAt
    <3> QED
      BY <1>4, <3>2 DEF InstUse, c
  <2>3. r.sym = k
    BY <1>5 DEF k
  <2> HIDE DEF w
  <2>4. /\ \A j \in DOMAIN t : /\ Uses(t, k, w)[j].addr = t[j].addr
                               /\ \A v : Listing(t, j, v) => Listing(Uses(t, k, w), j, v)
        /\ Listing(Uses(t, k, w), k, w)
    BY <1>1, <1>2, <2>1, <2>2, UseListing
  <2>5. u = Uses(t, k, w) /\ e[x].field = r.field
    BY <1>1, <1>4, <1>5, <2>3 DEF w
  <2>6. u[k].addr = s /\ (\A v : Listing(t, k, v) => Listing(u, k, v)) /\ Listing(u, k, InstUse(x))
    BY <1>1, <2>4, <2>5 DEF w
  <2> QED
    BY <1>4, <1>5, <2>5, <2>6 DEF t, c, k, s, NewAt
<1>6. CASE ~(r.sym # NoSym /\ s = 0)
  <2> DEFINE a == IF r.sym = NoSym THEN 0 ELSE s
             v == ValueAt(Append(c, r), x, t)
  <2>1. a \in Int /\ a = BaseOf(r, t)
    BY <1>1 DEF BaseOf
  <2>2. x = Len(c) + 1
    OBVIOUS
  <2> HIDE DEF a, c, t
  <2>3. Valued(r, ValueAt(Append(c, r), Len(c) + 1, t), OffsetAt(r, Len(c) + 1), BaseOf(r, t))
    BY <1>2, <2>1, AssembledValue
  <2>4. Valued(r, v, OffsetAt(r, x), a)
    BY <2>1, <2>2, <2>3
  <2>5. e[x].field = FieldOf(r.op, v) /\ u = t
    BY <1>1, <1>4, <1>6
  <2> HIDE DEF v
  <2>6. \E z \in Int : e[x].field = FieldOf(r.op, z) /\ Valued(r, z, OffsetAt(r, x), a)
    BY <2>4, <2>5 DEF Valued
  <2>7. u[k].addr = s /\ \A z : Listing(t, k, z) => Listing(u, k, z)
    BY <1>1, <2>5
  <2> QED
    BY <1>4, <1>6, <2>2, <2>6, <2>7 DEF t, c, a, NewAt
<1> QED
  BY <1>5, <1>6

LEMMA AssembledGood ==
    ASSUME TypeInvariant, NEW n \in Names, NEW m, Good(m, n), NEW r \in Code, r.sym \in {NodeOf(n), NoSym},
           r.of \in {NodeOf(n), NoSym}, r.op = "load" /\ r.sym # NoSym => AddressOf(n) = 0,
           NEW e, e = Assemble(m, r).text, NEW u, u = Assemble(m, r).table,
           NEW x, x = Len(m.text) + 1,
           Shape(e, x), r.of # NoSym => Waits(e, u, x) \/ Arrives(e, u, x)
    PROVE  Good(Assemble(m, r), n)
<1> DEFINE t == m.table
           c == m.text
           k == NodeOf(n)
           s == AddressOf(n)
<1>1. k \in DOMAIN t /\ k # NoSym /\ t[k].addr = s
  BY NodeType, LookupFact DEF Good, SameAddresses, AddressOf
<1>2. Image(t, c, data) /\ r.sym \in DOMAIN t \cup {NoSym} /\ Referring(c, data, t) /\ Sound(t)
  <2>1. Image(t, c, data) /\ Referring(c, data, t)
    BY DEF Good, Refers
  <2> QED
    BY <1>1, <2>1 DEF Good
<1>3. r.op = "load" /\ r.sym # NoSym => t[r.sym].addr = 0
  BY <1>1
<1>4. Referring(e, data, u)
  BY <1>2, <1>3, AssembledReferring
<1>5. Image(u, e, data) /\ Len(e) = x /\ Len(c) \in Nat
  BY <1>2, AssembledImage
<1>6. Sound(u) /\ SameAddresses(t, u)
  BY <1>2, Assembled DEF Knows
<1>7. /\ \A y \in 1 .. Len(c) : e[y].of = c[y].of
      /\ e[x].of = r.of
  <2>1. Alike(e[x], r) /\ \A y \in 1 .. Len(c) : Alike(e[y], c[y])
    BY NewInst DEF NewAt
  <2> QED
    BY <2>1 DEF Alike
<1>8. Named(c, data, t, file) /\ GpPlaced(t) /\ SameAddresses(lookup_label(n), t)
  BY DEF Good, Refers
<1> HIDE DEF t, c, k, s
<1>9. SameAddresses(lookup_label(n), u)
  BY <1>6, <1>8 DEF SameAddresses
<1>10. GpPlaced(u)
  BY <1>6, <1>8 DEF GpPlaced, SameAddresses
<1>11. Named(e, data, u, file)
  <2>1. DOMAIN u = DOMAIN t
    BY <1>6 DEF SameAddresses
  <2>2. Named(c, data, u, file)
    BY <1>8, <2>1, SameNamed
  <2>3. \A y \in 1 .. Len(e) : y \in 1 .. Len(c) \/ y = x
    BY <1>5 DEF c
  <2>4. Alive(u, file, e[x].of)
    BY <1>1, <1>7, <2>1 DEF Alive, k
  <2> QED
    BY <1>7, <2>2, <2>3, <2>4 DEF Named
<1> QED
  BY <1>4, <1>5, <1>6, <1>9, <1>10, <1>11 DEF Good, Refers

(* An instruction that names no label.                                     *)
LEMMA PlainGood ==
    ASSUME TypeInvariant, NEW n \in Names, NEW m, Good(m, n), NEW r \in Code, r.sym \in {NodeOf(n), NoSym},
           r.of = NoSym, r.op \in {"lui", "other"}, r.base = "zero"
    PROVE  Good(Assemble(m, r), n)
<1> DEFINE e == Assemble(m, r).text
           u == Assemble(m, r).table
           x == Len(m.text) + 1
<1>1. Alike(e[x], r)
  BY NewInst DEF NewAt
<1> HIDE DEF e, u, x
<1>2. Shape(e, x)
  BY <1>1 DEF Alike, Shape
<1>3. e = Assemble(m, r).text /\ u = Assemble(m, r).table /\ x = Len(m.text) + 1
  BY DEF e, u, x
<1> QED
  BY <1>2, <1>3, AssembledGood

(* A jump.                                                                 *)
LEMMA JumpGood ==
    ASSUME TypeInvariant, NEW n \in Names, NEW m, Good(m, n), NEW r \in Code, r.sym = NodeOf(n),
           r.of = NodeOf(n), r.op = "jump", r.bits = 0, r.off = 0, r.plus = 0, r.base = "zero"
    PROVE  Good(Assemble(m, r), n)
<1> DEFINE e == Assemble(m, r).text
           u == Assemble(m, r).table
           x == Len(m.text) + 1
           k == NodeOf(n)
           s == AddressOf(n)
<1>1. s \in Nat /\ k # NoSym
  BY NodeType DEF AddressOf
<1>2. /\ Alike(e[x], r) /\ e[x].off = 0 /\ x \in Nat /\ u[k].addr = s
      /\ IF s = 0 THEN Listing(u, k, InstUse(x))
         ELSE \E v \in Int : e[x].field = FieldOf("jump", v) /\ Valued(r, v, OffsetAt(r, x), s)
  BY <1>1, NewInst DEF NewAt
<1> HIDE DEF e, u, x, k, s
<1>3. /\ e[x].op = "jump" /\ e[x].sym = k /\ e[x].of = k /\ e[x].bits = 0 /\ e[x].plus = 0 /\ e[x].base = "zero"
  BY <1>2 DEF Alike, k
<1>4. Shape(e, x)
  BY <1>1, <1>2, <1>3 DEF Shape
<1>5. CASE s = 0
  <2>1. Waits(e, u, x)
    BY <1>2, <1>3, <1>5 DEF Waits
  <2> QED
    BY <1>4, <2>1, AssembledGood DEF e, u, x
<1>6. CASE s # 0
  <2>1. PICK v \in Int : e[x].field = FieldOf("jump", v) /\ Valued(r, v, OffsetAt(r, x), s)
    BY <1>2, <1>6
  <2>2. v = s
    BY <1>1, <2>1 DEF Valued, OffsetAt
  <2>3. Leads(e, x, s)
    BY <1>1, <1>2, <1>3, <2>1, <2>2, JumpLeads
  <2>4. u[e[x].of].addr + e[x].plus = s
    BY <1>1, <1>2, <1>3
  <2>5. Arrives(e, u, x)
    BY <1>2, <1>3, <1>6, <2>3, <2>4 DEF Arrives
  <2> QED
    BY <1>4, <2>5, AssembledGood DEF e, u, x
<1> QED
  BY <1>5, <1>6

(* A branch, wherever its expression was built.                            *)
LEMMA BranchGood ==
    ASSUME TypeInvariant, NEW n \in Names, NEW m, Good(m, n), NEW r \in Code, r.sym = NodeOf(n),
           r.of = NodeOf(n), r.op = "branch", r.bits = -1, r.plus = 0, r.base = "zero"
    PROVE  Good(Assemble(m, r), n)
<1> DEFINE e == Assemble(m, r).text
           u == Assemble(m, r).table
           x == Len(m.text) + 1
           k == NodeOf(n)
           s == AddressOf(n)
<1>1. s \in Nat /\ k # NoSym
  BY NodeType DEF AddressOf
<1>2. /\ Alike(e[x], r) /\ x \in Nat /\ u[k].addr = s
      /\ IF s = 0 THEN Listing(u, k, InstUse(x))
         ELSE \E v \in Int : e[x].field = FieldOf("branch", v) /\ Valued(r, v, OffsetAt(r, x), s)
  BY <1>1, NewInst DEF NewAt
<1> HIDE DEF e, u, x, k, s
<1>3. /\ e[x].op = "branch" /\ e[x].sym = k /\ e[x].of = k /\ e[x].bits = -1 /\ e[x].plus = 0 /\ e[x].base = "zero"
  BY <1>2 DEF Alike, k
<1>4. Shape(e, x)
  BY <1>1, <1>2, <1>3 DEF Shape
<1>5. CASE s = 0
  <2>1. Waits(e, u, x)
    BY <1>2, <1>3, <1>5 DEF Waits
  <2> QED
    BY <1>4, <2>1, AssembledGood DEF e, u, x
<1>6. CASE s # 0
  <2>1. PICK v \in Int : e[x].field = FieldOf("branch", v) /\ Valued(r, v, OffsetAt(r, x), s)
    BY <1>2, <1>6
  <2>2. v = (-AddrOf(x) + s) % Half
    BY <2>1 DEF Valued, OffsetAt
  <2>3. e[x].field = FieldOf("branch", (-AddrOf(x) + s) % Half)
    BY <2>1, <2>2
  <2>4. Leads(e, x, s)
    BY <1>1, <1>2, <1>3, <2>3, BranchLeads
  <2>5. u[e[x].of].addr + e[x].plus = s
    BY <1>1, <1>2, <1>3
  <2>6. Arrives(e, u, x)
    BY <1>2, <1>3, <1>6, <2>4, <2>5 DEF Arrives
  <2> QED
    BY <1>4, <2>6, AssembledGood DEF e, u, x
<1> QED
  BY <1>5, <1>6

(* A LUI alone, for an address that is known and has no lower half.         *)
LEMMA UpperLeads ==
    ASSUME NEW c, NEW i, c[i].op = "lui", c[i].base = "zero", NEW a \in Int, a % Half = 0,
           c[i].field = Signed16((a \div Half) % Half)
    PROVE  Leads(c, i, a)
<1> DEFINE H == Half
           q == a \div H
           f == Signed16(q % H)
<1>1. H \in Nat \ {0} /\ q \in Int /\ a = q * H + 0 /\ q % H \in Int
  <2>1. H \in Nat \ {0}
    BY HalfFact
  <2>2. a % H = 0
    OBVIOUS
  <2> HIDE DEF H
  <2>3. a \div H \in Int /\ a = (a \div H) * H + (a % H)
    BY <2>1, IntSplit
  <2>4. (a \div H) % H \in 0 .. H - 1
    BY <2>1, <2>3, IntSplit
  <2> QED
    BY <2>1, <2>2, <2>3, <2>4
<1>2. PICK k \in {0, 1} : f = ((q % H) % H) - k * H
  BY <1>1, SignedShift
<1>3. PICK w \in Int : q % H = q + w * H /\ (q % H) % H = q % H
  <2> HIDE DEF H, q
  <2>1. q = (q \div H) * H + (q % H) /\ q \div H \in Int /\ q % H \in 0 .. H - 1
    BY <1>1, IntSplit
  <2>2. (q % H) % H = q % H
    <3> DEFINE r == q % H
    <3>1. r \in 0 .. H - 1 /\ r = 0 * H + r /\ r \in Int
      BY <1>1, <2>1
    <3> HIDE DEF r
    <3>2. r % H = r
      BY <1>1, <3>1, ModUnique
    <3> QED
      BY <3>2 DEF r
  <2>3. q % H = q + (-(q \div H)) * H /\ -(q \div H) \in Int
    BY <1>1, <2>1
  <2> QED
    BY <2>2, <2>3
<1>4. f = q + (w - k) * H /\ w - k \in Int
  <2> HIDE DEF H, q, f
  <2> QED
    BY <1>1, <1>2, <1>3
<1>5. f * H = a + (w - k) * (H * H)
  <2> HIDE DEF H, q, f
  <2>1. (q + (w - k) * H) * H = q * H + (w - k) * (H * H)
    BY <1>1, <1>4, Z3
  <2> QED
    BY <1>1, <1>4, <2>1
<1>6. SameAddress(f * H, a)
  <2> HIDE DEF f
  <2> QED
    BY <1>4, <1>5, SameFact
<1>7. Target(c, i) = f * H
  <2>1. Target(c, i) = c[i].field * Half
    BY DEF Target
  <2>2. c[i].field = f
    OBVIOUS
  <2> HIDE DEF f
  <2> QED
    BY <2>1, <2>2
<1> QED
  BY <1>6, <1>7 DEF Leads

LEMMA UpperGood ==
    ASSUME TypeInvariant, NEW n \in Names, NEW m, Good(m, n), NEW off \in Int,
           AddressOf(n) # 0, (off + AddressOf(n)) % Half = 0,
           NEW r \in Code, r.sym = NodeOf(n), r.of = NodeOf(n), r.op = "lui", r.bits = 1,
           r.off = off, r.plus = off, r.base = "zero"
    PROVE  Good(Assemble(m, r), n)
<1> DEFINE e == Assemble(m, r).text
           u == Assemble(m, r).table
           x == Len(m.text) + 1
           k == NodeOf(n)
           s == AddressOf(n)
           a == off + s
<1>1. s \in Nat /\ k # NoSym /\ a \in Int
  BY NodeType DEF AddressOf
<1>2. /\ Alike(e[x], r) /\ x \in Nat /\ u[k].addr = s
      /\ \E v \in Int : e[x].field = FieldOf("lui", v) /\ Valued(r, v, OffsetAt(r, x), s)
  BY <1>1, NewInst DEF NewAt
<1>3. s # 0 /\ a % Half = 0 /\ a = s + off
  BY <1>1
<1> HIDE DEF e, u, x, k, s
<1>4. e[x].op = "lui" /\ e[x].sym = k /\ e[x].of = k /\ e[x].plus = off /\ e[x].base = "zero"
  BY <1>2 DEF Alike, k
<1>5. Shape(e, x)
  BY <1>4 DEF Shape
<1>6. PICK v \in Int : e[x].field = FieldOf("lui", v) /\ Valued(r, v, OffsetAt(r, x), s)
  BY <1>2
<1>7. v = (a \div Half) % Half
  BY <1>1, <1>6 DEF Valued, OffsetAt
<1>8. e[x].field = Signed16((a \div Half) % Half)
  BY <1>6, <1>7 DEF FieldOf
<1> HIDE DEF a
<1>9. Leads(e, x, a)
  BY <1>1, <1>3, <1>4, <1>8, UpperLeads
<1>10. Arrives(e, u, x)
  <2>1. u[e[x].of].addr # 0 /\ u[e[x].of].addr + e[x].plus = a
    BY <1>2, <1>3, <1>4
  <2> QED
    BY <1>9, <2>1 DEF Arrives
<1> QED
  BY <1>5, <1>10, AssembledGood DEF e, u, x, k

(* One instruction off $gp.                                                *)
LEMMA GpGood ==
    ASSUME TypeInvariant, NEW n \in Names, NEW m, Good(m, n), GpRelative(n), NEW off \in Offsets,
           NEW r \in Code, r.sym = NoSym, r.of = NodeOf(n), r.op \in {"load", "addi"}, r.bits = 0,
           r.off = GpOffset(n, off), r.plus = off, r.base = "gp"
    PROVE  Good(Assemble(m, r), n)
<1> DEFINE e == Assemble(m, r).text
           u == Assemble(m, r).table
           x == Len(m.text) + 1
           k == NodeOf(n)
           s == AddressOf(n)
           a == s + off
           z == a - gp_midpoint
<1>1. s \in Nat /\ k # NoSym /\ off \in Int /\ gp_midpoint \in Int /\ r.off = off + s - gp_midpoint
  BY NodeType, AddressAssumption, LayoutFact DEF AddressOf, gp_midpoint, GpOffset
<1>2. /\ Alike(e[x], r) /\ x \in Nat /\ u[k].addr = s
      /\ \E v \in Int : e[x].field = FieldOf(r.op, v) /\ Valued(r, v, OffsetAt(r, x), 0)
  BY NewInst DEF NewAt
<1>3. s \in GpBase .. GpTop
  <2>1. k \in DOMAIN m.table /\ m.table[k].gp /\ m.table[k].addr = s /\ GpPlaced(m.table)
    BY LookupFact DEF Good, SameAddresses, Refers, GpRelative, AddressOf
  <2> QED
    BY <2>1 DEF GpPlaced
<1> HIDE DEF e, u, x, k, s
<1>4. /\ e[x].op \in {"load", "addi"} /\ e[x].sym = NoSym /\ e[x].of = k /\ e[x].plus = off /\ e[x].base = "gp"
      /\ e[x].op = r.op
  BY <1>2 DEF Alike, k
<1>5. Shape(e, x)
  BY <1>4 DEF Shape
<1>6. PICK v \in Int : e[x].field = FieldOf(r.op, v) /\ Valued(r, v, OffsetAt(r, x), 0)
  BY <1>2
<1>7. v = z
  BY <1>1, <1>6 DEF Valued, OffsetAt
<1>8. a \in Int /\ GpBase <= a /\ a < GpBase + Half /\ s # 0
  BY <1>1, <1>3, LayoutFact, HalfFact, AddressAssumption
<1>9. e[x].field = Signed16(z)
  BY <1>4, <1>6, <1>7 DEF FieldOf
<1> HIDE DEF a, z
<1>10. Leads(e, x, a)
  BY <1>2, <1>4, <1>8, <1>9, GpLeads DEF z
<1>11. Arrives(e, u, x)
  <2>1. u[e[x].of].addr # 0 /\ u[e[x].of].addr + e[x].plus = a
    BY <1>2, <1>4, <1>8 DEF a
  <2> QED
    BY <1>10, <2>1 DEF Arrives
<1> QED
  BY <1>5, <1>11, AssembledGood DEF e, u, x

(* The LUI at j is ready for r, which completes the pair: both are to wait,  *)
(* or it has the upper half, with one more for a negative lower half.       *)
LuiReady(m, k, a, r, j) ==
    /\ j \in 1 .. Len(m.text) /\ m.text[j].op = "lui" /\ m.text[j].sym = r.sym
    /\ r.sym # NoSym => m.text[j].bits = 1
    /\ IF r.sym # NoSym /\ a = 0
       THEN Listing(m.table, k, InstUse(j)) /\ m.text[j].off = r.plus /\ m.text[j].field = 0
       ELSE \E u, w \in Int :
              /\ m.text[j].field = Signed16(u)
              /\ u = ((a + r.plus) \div Half) + (IF r.op = "load" /\ Negative(a + r.plus) THEN 1 ELSE 0) + w * Half
LuiBefore(c, j) == j = IF c[Len(c)].op = "lui" THEN Len(c) ELSE Len(c) - 1

(* The second instruction of a pair.                                       *)
LEMMA PairGood ==
    ASSUME TypeInvariant, NEW n \in Names, NEW m, Good(m, n), NEW r \in Code, r.of = NodeOf(n),
           r.op \in {"load", "ori"}, r.bits = -1, r.base = "at", r.plus \in Int,
           \/ r.sym = NodeOf(n) /\ r.off = r.plus /\ (r.op = "load" => AddressOf(n) = 0)
           \/ r.sym = NoSym /\ AddressOf(n) # 0 /\ r.off = (AddressOf(n) + r.plus) % Half,
           r.field = 0,
           NEW j, LuiReady(m, NodeOf(n), AddressOf(n), r, j), LuiBefore(m.text, j),
           m.text[Len(m.text)].op \in {"lui", "other"}
    PROVE  Good(Assemble(m, r), n)
<1> DEFINE e == Assemble(m, r).text
           u == Assemble(m, r).table
           x == Len(m.text) + 1
           k == NodeOf(n)
           s == AddressOf(n)
           c == m.text
           p == r.plus
           b == s + p
<1>1. s \in Nat /\ k # NoSym /\ p \in Int /\ b \in Int
  BY NodeType DEF AddressOf
<1>0. r.sym \in {NodeOf(n), NoSym} /\ (r.op = "load" /\ r.sym # NoSym => AddressOf(n) = 0) /\ r.op # "branch"
      /\ (r.sym = NoSym => AddressOf(n) # 0)
  BY <1>1
<1>2. /\ Len(e) = x /\ Len(c) \in Nat /\ x \in Nat
      /\ \A y \in 1 .. Len(c) : /\ Alike(e[y], c[y]) /\ e[y].field = c[y].field
                                /\ c[y].sym # NoSym => e[y].off = c[y].off
      /\ Alike(e[x], r) /\ e[x].off = r.off /\ u[k].addr = s
      /\ \A v : Listing(m.table, k, v) => Listing(u, k, v)
      /\ IF r.sym # NoSym /\ s = 0 THEN e[x].field = r.field /\ Listing(u, k, InstUse(x))
         ELSE LET a == IF r.sym = NoSym THEN 0 ELSE s
              IN  \E v \in Int : e[x].field = FieldOf(r.op, v) /\ Valued(r, v, OffsetAt(r, x), a)
  <2>1. NewAt(m, n, r, e, u, x)
    <3> HIDE DEF e, u, x
    <3>1. e = Assemble(m, r).text /\ u = Assemble(m, r).table /\ x = Len(m.text) + 1
      BY DEF e, u, x
    <3> QED
      BY <1>0, <3>1, NewInst
  <2> QED
    BY <1>0, <2>1 DEF NewAt
<1>3. /\ j \in 1 .. Len(c) /\ c[j].op = "lui" /\ c[j].sym = r.sym /\ (r.sym # NoSym => c[j].bits = 1)
      /\ c[Len(c)].op \in {"lui", "other"} /\ j = IF c[Len(c)].op = "lui" THEN Len(c) ELSE Len(c) - 1
  BY DEF LuiReady, LuiBefore
<1>4. x = Len(c) + 1
  OBVIOUS
<1> HIDE DEF e, u, x, k, s, c, p, b
<1>5. /\ e[x].op = r.op /\ e[x].sym = r.sym /\ e[x].of = k /\ e[x].bits = -1 /\ e[x].plus = p
      /\ e[x].base = "at"
  BY <1>2 DEF Alike, k, p
<1>6. /\ Len(c) \in 1 .. Len(c) /\ x - 1 = Len(c) /\ e[x - 1].op = c[Len(c)].op /\ x >= 2
      /\ e[j].op = "lui" /\ e[j].sym = r.sym /\ (r.sym # NoSym => e[j].bits = 1) /\ e[j].field = c[j].field
      /\ r.sym # NoSym => e[j].off = c[j].off
  <2>1. Len(c) \in 1 .. Len(c) /\ x - 1 = Len(c) /\ x >= 2
    BY <1>2, <1>3, <1>4
  <2>2. e[x - 1].op = c[Len(c)].op
    BY <1>2, <2>1 DEF Alike
  <2>3. e[j].op = c[j].op /\ e[j].sym = c[j].sym /\ e[j].bits = c[j].bits /\ e[j].field = c[j].field
        /\ (c[j].sym # NoSym => e[j].off = c[j].off)
    BY <1>2, <1>3 DEF Alike
  <2> QED
    BY <1>3, <2>1, <2>2, <2>3
<1>7. LuiOf(e, x) = j
  <2>1. x - 2 = Len(c) - 1
    BY <1>2, <1>4
  <2> QED
    BY <1>3, <1>6, <2>1 DEF LuiOf
<1>8. Shape(e, x)
  <2>1. r.sym = k => r.off = p
    BY <1>1 DEF p, k
  <2>2. Low(e, x)
    BY <1>1, <1>2, <1>3, <1>5, <1>6, <1>7, <2>1 DEF Low, k
  <2> QED
    BY <1>5, <2>2 DEF Shape
<1>9. CASE r.sym # NoSym /\ s = 0
  <2>1. Listing(m.table, k, InstUse(j)) /\ c[j].off = p /\ c[j].field = 0
    BY <1>9 DEF LuiReady, c, p, s, k
  <2>2. r.sym = k /\ e[x].sym = k
    BY <1>5, <1>9 DEF k
  <2>3. Waits(e, u, x)
    BY <1>2, <1>5, <1>6, <1>7, <1>9, <2>1, <2>2 DEF Waits
  <2> QED
    BY <1>8, <1>9, <2>3, AssembledGood DEF e, u, x, s
<1>10. CASE ~(r.sym # NoSym /\ s = 0)
  <2> DEFINE carry == IF r.op = "load" /\ Negative(b) THEN 1 ELSE 0
             a == IF r.sym = NoSym THEN 0 ELSE s
  <2>1. s # 0
    BY <1>0, <1>10 DEF s
  <2>2. PICK h, w \in Int : c[j].field = Signed16(h) /\ h = (b \div Half) + carry + w * Half
    BY <1>10 DEF LuiReady, c, p, s, b
  <2>3. PICK v \in Int : e[x].field = FieldOf(r.op, v) /\ Valued(r, v, OffsetAt(r, x), a)
    BY <1>2, <1>10
  <2>4. v = (r.off + a) % Half /\ e[x].field = Signed16(v)
    BY <2>3 DEF Valued, OffsetAt, FieldOf
  <2>5. b % Half \in 0 .. Half - 1
    BY <1>1, HalfFacts
  <2>6. v = b % Half
    <3>1. CASE r.sym = NoSym
      <4> DEFINE y == b % Half
      <4>1. r.off = y /\ a = 0
        BY <3>1, <1>1 DEF b, s, p, k
      <4>2. y \in 0 .. Half - 1
        BY <2>5
      <4> HIDE DEF y, a
      <4>3. v = y % Half
        <5>1. r.off + a = y
          BY <4>1, <4>2
        <5> QED
          BY <2>4, <5>1
      <4>4. Half \in Nat \ {0}
        BY HalfFact
      <4> DEFINE H == Half
      <4> HIDE DEF H
      <4>5. y \in 0 .. H - 1 /\ H \in Nat \ {0} /\ y = 0 * H + y /\ y \in Int
        BY <4>2, <4>4 DEF H
      <4>6. y % H = y
        BY <4>5, ModUnique
      <4> QED
        BY <4>3, <4>6 DEF H, y
    <3>2. CASE r.sym # NoSym
      <4>1. r.off = p /\ a = s
        BY <3>2 DEF p
      <4>2. r.off + a = b
        BY <1>1, <4>1 DEF b
      <4> QED
        BY <2>4, <4>2
    <3> QED
      BY <3>1, <3>2
  <2> HIDE DEF a
  <2>7. v % Half = b % Half
    <3> DEFINE H == Half
    <3> HIDE DEF H
    <3>1. v \in 0 .. H - 1 /\ v = 0 * H + v
      <4>1. v \in 0 .. H - 1
        BY <2>5, <2>6 DEF H
      <4>2. H \in Nat
        BY HalfFact DEF H
      <4> QED
        BY <4>1, <4>2
    <3>2. H \in Nat \ {0}
      BY HalfFact DEF H
    <3>3. v % H = v
      BY <3>1, <3>2, ModUnique
    <3> QED
      BY <2>6, <3>3 DEF H
  <2>8. Negative(v) <=> Negative(b)
    BY <2>7 DEF Negative
  <2>9. carry = IF e[x].op = "load" /\ Negative(v) THEN 1 ELSE 0
    BY <1>5, <2>8
  <2> HIDE DEF carry
  <2>10. e[LuiOf(e, x)].field = Signed16(h) /\ e[x].op \in {"load", "ori"}
    BY <1>5, <1>6, <1>7, <2>2
  <2>11. Leads(e, x, b)
    <3>1. x \in Nat /\ b \in Int /\ e[x].base = "at" /\ e[x].field = Signed16(v)
      BY <1>1, <1>2, <1>5, <2>4
    <3>2. h = (b \div Half) + carry + w * Half
      BY <2>2
    <3> QED
      BY <2>7, <2>9, <2>10, <3>1, <3>2, PairLeads
  <2>12. u[e[x].of].addr # 0 /\ u[e[x].of].addr + e[x].plus = b
    BY <1>2, <1>5, <2>1 DEF b
  <2>13. Arrives(e, u, x)
    BY <2>11, <2>12 DEF Arrives
  <2>14. r.sym \in {k, NoSym} /\ (r.op = "load" /\ r.sym # NoSym => s = 0) /\ r.of = k
    BY DEF k, s
  <2> QED
    BY <1>8, <2>13, <2>14, AssembledGood DEF e, u, x, s, k
<1> QED
  BY <1>9, <1>10

(* What does not name a label leaves the LUI before it ready.               *)
LEMMA ReadyKept ==
    ASSUME TypeInvariant, NEW n \in Names, NEW m, Good(m, n), NEW r, NEW j,
           LuiReady(m, NodeOf(n), AddressOf(n), r, j)
    PROVE  LuiReady(Assemble(m, Other), NodeOf(n), AddressOf(n), r, j)
<1> DEFINE e == Assemble(m, Other).text
           u == Assemble(m, Other).table
           k == NodeOf(n)
           s == AddressOf(n)
           c == m.text
<1>1. Other \in Code /\ Other.sym = NoSym /\ Other.op = "other"
  BY OtherFact DEF Other, Inst
<1>2. /\ Len(e) = Len(c) + 1 /\ Len(c) \in Nat
      /\ \A y \in 1 .. Len(c) : /\ Alike(e[y], c[y]) /\ e[y].field = c[y].field
                                /\ c[y].sym # NoSym => e[y].off = c[y].off
      /\ \A v : Listing(m.table, k, v) => Listing(u, k, v)
  <2> HIDE DEF e, u
  <2>1. e = Assemble(m, Other).text /\ u = Assemble(m, Other).table
    BY DEF e, u
  <2>2. Other.sym \in {NodeOf(n), NoSym} /\ ~(Other.op = "load" /\ Other.sym # NoSym)
    BY <1>1
  <2> DEFINE x == Len(m.text) + 1
  <2>3. x = Len(m.text) + 1
    OBVIOUS
  <2> HIDE DEF x
  <2>4. NewAt(m, n, Other, e, u, x)
    BY <1>1, <2>1, <2>2, <2>3, NewInst
  <2> QED
    BY <2>3, <2>4 DEF NewAt
<1>3. j \in 1 .. Len(c) /\ c[j].sym = r.sym
  BY DEF LuiReady
<1>4. /\ j \in 1 .. Len(e) /\ e[j].op = c[j].op /\ e[j].sym = c[j].sym /\ e[j].bits = c[j].bits
      /\ e[j].field = c[j].field /\ (r.sym # NoSym => e[j].off = c[j].off)
  BY <1>2, <1>3 DEF Alike
<1> HIDE DEF e, u, k, s
<1> QED
  BY <1>2, <1>4 DEF LuiReady, e, u, k, s

(* The LUI that starts a pair, with its upper half when it is resolved.     *)
LEMMA LuiGood ==
    ASSUME TypeInvariant, Sound(complete_table), References, NEW n \in Names, NEW off \in Int,
           NEW lui \in Code, lui.op = "lui", lui.of = NoSym, lui.base = "zero", lui.field = 0,
           NEW low, low.plus = off,
           \/ /\ lui.sym = NodeOf(n) /\ lui.off = off /\ lui.bits = 1 /\ low.sym = NodeOf(n)
              /\ low.op = "load" => AddressOf(n) = 0
           \/ /\ lui.sym = NoSym /\ lui.off = High(AddressOf(n) + off) /\ lui.bits = 0 /\ low.sym = NoSym
              /\ low.op = "load" /\ AddressOf(n) # 0
    PROVE  LET m == One(n, lui)
           IN  /\ Good(m, n) /\ Len(m.text) \in Nat /\ m.text[Len(m.text)].op = "lui"
               /\ LuiReady(m, NodeOf(n), AddressOf(n), low, Len(m.text))
<1> DEFINE b == Start(n)
           m == Assemble(b, lui)
           e == m.text
           u == m.table
           x == Len(b.text) + 1
           k == NodeOf(n)
           s == AddressOf(n)
           a == s + off
           carry == IF low.op = "load" /\ Negative(a) THEN 1 ELSE 0
<1>1. One(n, lui) = m /\ Good(b, n)
  BY StartGood DEF One
<1>2. s \in Nat /\ k # NoSym /\ a \in Int /\ off + s = a /\ a + 0 = a
  BY NodeType DEF AddressOf
<1>3. lui.sym \in {NodeOf(n), NoSym} /\ ~(lui.op = "load" /\ lui.sym # NoSym)
  OBVIOUS
<1> HIDE DEF b
<1>4. Good(m, n)
  BY <1>1, <1>3, PlainGood
<1>5. NewAt(b, n, lui, e, u, x)
  <2> HIDE DEF e, u, x
  <2>1. e = Assemble(b, lui).text /\ u = Assemble(b, lui).table /\ x = Len(b.text) + 1
    BY DEF e, u, x
  <2> QED
    BY <1>1, <1>3, <2>1, NewInst
<1> HIDE DEF m, e, u, x, k, s, a, carry
<1>6. /\ Len(e) = x /\ x \in Nat /\ Alike(e[x], lui) /\ e[x].off = lui.off
      /\ IF lui.sym # NoSym /\ s = 0 THEN e[x].field = 0 /\ Listing(u, k, InstUse(x))
         ELSE LET z == IF lui.sym = NoSym THEN 0 ELSE s
              IN  \E v \in Int : e[x].field = FieldOf(lui.op, v) /\ Valued(lui, v, OffsetAt(lui, x), z)
  BY <1>5 DEF NewAt, s, k
<1>7. x \in 1 .. Len(e) /\ e[x].op = "lui" /\ e[x].sym = low.sym /\ (low.sym # NoSym => e[x].bits = 1)
  <2>1. e[x].op = lui.op /\ e[x].sym = lui.sym /\ e[x].bits = lui.bits
    BY <1>6 DEF Alike
  <2>2. x >= 1
    <3>1. Len(b.text) \in Nat
      BY <1>5 DEF NewAt
    <3> QED
      BY <3>1 DEF x
  <2> QED
    BY <1>2, <1>6, <2>1, <2>2
<1>8. CASE lui.sym # NoSym /\ s = 0
  <2>1. Listing(u, k, InstUse(x)) /\ e[x].off = low.plus /\ e[x].field = 0 /\ low.sym # NoSym
    BY <1>6, <1>8
  <2>2. LuiReady(m, k, s, low, x)
    BY <1>7, <1>8, <2>1 DEF LuiReady, e, u
  <2> QED
    BY <1>1, <1>4, <1>6, <1>7, <2>2 DEF e, k, s
<1>9. CASE ~(lui.sym # NoSym /\ s = 0)
  <2> DEFINE h == a \div Half
             z == IF lui.sym = NoSym THEN 0 ELSE s
  <2>1. PICK v \in Int : e[x].field = FieldOf(lui.op, v) /\ Valued(lui, v, OffsetAt(lui, x), z)
    BY <1>6, <1>9
  <2>2. e[x].field = Signed16(v)
    BY <2>1 DEF FieldOf
  <2>3. h \in Int /\ \E w \in Int : h % Half = h + w * Half
    <3> DEFINE c0 == 0
    <3>1. a = a + (IF c0 = 1 THEN Half ELSE 0)
      BY <1>2
    <3>2. c0 \in {0, 1}
      OBVIOUS
    <3> HIDE DEF c0
    <3>3. (a \div Half) % Half \in Int /\ \E w \in Int : (a \div Half) % Half = (a \div Half) + c0 + w * Half
      BY <1>2, <3>1, <3>2, UpperFact
    <3>4. h \in Int
      BY <1>2, HalfFacts
    <3> HIDE DEF h
    <3>5. PICK w \in Int : h % Half = h + c0 + w * Half
      BY <3>3 DEF h
    <3>6. h + c0 = h
      BY <3>4 DEF c0
    <3> QED
      BY <3>4, <3>5, <3>6
  <2>4. PICK w \in Int : h % Half = h + w * Half
    BY <2>3
  <2>5. v = h + carry + w * Half
    <3> DEFINE wH == w * Half
    <3>1. wH \in Int
      BY HalfFact
    <3>2. CASE lui.sym = NoSym
      <4>1. v = lui.off + 0 /\ lui.off \in Int
        BY <1>2, <2>1, <3>2 DEF Valued, OffsetAt, k
      <4>2. lui.off = High(a) /\ carry = IF Negative(a) THEN 1 ELSE 0
        BY <1>2, <3>2 DEF a, s, k, carry
      <4>3. lui.off = (h % Half) + carry
        BY <4>2 DEF High
      <4>4. carry \in Int
        BY <4>2
      <4> HIDE DEF h, wH
      <4>5. v = (h + wH) + carry
        BY <2>4, <4>1, <4>3 DEF wH
      <4>6. v = h + carry + wH
        BY <2>3, <3>1, <4>4, <4>5 DEF h
      <4> QED
        BY <4>6 DEF wH
    <3>3. CASE lui.sym # NoSym
      <4>1. lui.off = off /\ lui.bits = 1 /\ carry = 0
        BY <1>2, <1>9, <3>3 DEF carry, s
      <4>2. v = ((off + s) \div Half) % Half
        BY <2>1, <3>3, <4>1 DEF Valued, OffsetAt
      <4>3. v = h % Half
        BY <1>2, <4>2
      <4> HIDE DEF h, wH
      <4>4. v = h + wH
        BY <2>4, <4>3 DEF wH
      <4>5. v = h + carry + wH
        BY <2>3, <3>1, <4>1, <4>4 DEF h
      <4> QED
        BY <4>5 DEF wH
    <3> QED
      BY <3>2, <3>3
  <2>6. ~(low.sym # NoSym /\ s = 0)
    BY <1>2, <1>9
  <2>7. \E y, w1 \in Int : e[x].field = Signed16(y) /\ y = h + carry + w1 * Half
    BY <2>2, <2>5
  <2>8. LuiReady(m, k, s, low, x)
    <3>1. a = s + low.plus
      BY DEF a
    <3> QED
      BY <1>7, <2>6, <2>7, <3>1 DEF LuiReady, e, u, carry
  <2> QED
    BY <1>1, <1>4, <1>6, <1>7, <2>8 DEF e, k, s
<1> QED
  BY <1>8, <1>9

(* A pair, next to each other or around what adds an index register.        *)
LEMMA PairsGood ==
    ASSUME TypeInvariant, Sound(complete_table), References, NEW n \in Names, NEW off \in Int,
           NEW lui \in Code, lui.op = "lui", lui.of = NoSym, lui.base = "zero", lui.field = 0,
           NEW low \in Code, low.plus = off, low.of = NodeOf(n), low.op \in {"load", "ori"}, low.bits = -1,
           low.base = "at", low.field = 0,
           \/ /\ lui.sym = NodeOf(n) /\ lui.off = off /\ lui.bits = 1 /\ low.sym = NodeOf(n) /\ low.off = off
              /\ low.op = "load" => AddressOf(n) = 0
           \/ /\ lui.sym = NoSym /\ lui.off = High(AddressOf(n) + off) /\ lui.bits = 0 /\ low.sym = NoSym
              /\ low.op = "load" /\ AddressOf(n) # 0 /\ low.off = (AddressOf(n) + off) % Half
    PROVE  Good(Two(n, lui, low), n) /\ Good(Three(n, lui, Other, low), n)
<1> DEFINE m == One(n, lui)
           o == Assemble(m, Other)
           k == NodeOf(n)
           s == AddressOf(n)
           j == Len(m.text)
<1>1. Two(n, lui, low) = Assemble(m, low) /\ Three(n, lui, Other, low) = Assemble(o, low)
  BY DEF Two, Three
<1>2. Good(m, n) /\ j \in Nat /\ m.text[j].op = "lui" /\ LuiReady(m, k, s, low, j)
  BY LuiGood
<1>3. \/ low.sym = k /\ low.off = low.plus /\ (low.op = "load" => s = 0)
      \/ low.sym = NoSym /\ s # 0 /\ low.off = (s + low.plus) % Half
  OBVIOUS
<1>4. Other \in Code /\ Other.sym = NoSym /\ Other.op = "other" /\ Other.of = NoSym /\ Other.base = "zero"
  BY OtherFact DEF Other, Inst
<1> HIDE DEF m
<1>5. Good(Assemble(m, low), n)
  <2>1. LuiBefore(m.text, j)
    BY <1>2 DEF LuiBefore
  <2> QED
    BY <1>2, <1>3, <2>1, PairGood
<1>6. Good(o, n) /\ LuiReady(o, k, s, low, j)
  BY <1>2, <1>4, PlainGood, ReadyKept
<1>7. Len(o.text) = j + 1 /\ o.text[Len(o.text)].op = "other"
  <2> DEFINE e == o.text
             u == o.table
             x == Len(m.text) + 1
  <2>1. e = Assemble(m, Other).text /\ u = Assemble(m, Other).table /\ x = Len(m.text) + 1
    OBVIOUS
  <2> HIDE DEF e, u, x
  <2>2. Other.sym \in {NodeOf(n), NoSym} /\ ~(Other.op = "load" /\ Other.sym # NoSym)
    BY <1>4
  <2>3. NewAt(m, n, Other, e, u, x)
    BY <1>2, <1>4, <2>1, <2>2, NewInst
  <2> QED
    BY <1>4, <2>1, <2>3 DEF NewAt, Alike, e
<1>8. Good(Assemble(o, low), n)
  <2>1. LuiBefore(o.text, j)
    BY <1>2, <1>7 DEF LuiBefore
  <2> HIDE DEF o
  <2> QED
    BY <1>3, <1>6, <1>7, <2>1, PairGood
<1> QED
  BY <1>1, <1>5, <1>8

LEMMA JumpReferences ==
    ASSUME TypeInvariant, Sound(complete_table), References, NEW n \in Names, Jump(n)
    PROVE  References'
<1> DEFINE k == NodeOf(n)
           r == Inst("jump", k, 0, 0, "zero", k, 0)
<1>1. /\ r \in Code /\ r.sym = k /\ r.of = k /\ r.op = "jump" /\ r.bits = 0 /\ r.off = 0 /\ r.plus = 0
      /\ r.base = "zero"
  <2>1. k \in Node \cup {NoSym}
    BY NodeType
  <2> HIDE DEF k
  <2> QED
    BY <2>1, NoField DEF Inst, Code, Instruction, Ops
<1>2. Emit(Assemble(Start(n), r))
  BY DEF Jump, One
<1> HIDE DEF r
<1>3. Good(Assemble(Start(n), r), n)
  BY <1>1, StartGood, JumpGood
<1> QED
  BY <1>2, <1>3, GoodEmit

LEMMA BranchReferences ==
    ASSUME TypeInvariant, Sound(complete_table), References, NEW n \in Names, NEW moved \in BOOLEAN,
           Branch(n, moved)
    PROVE  References'
<1> DEFINE k == NodeOf(n)
           r == Inst("branch", k, -current_text_pc, -1, "zero", k, 0)
           b == Start(n)
           o == Assemble(b, Other)
<1>1. /\ r \in Code /\ r.sym = k /\ r.of = k /\ r.op = "branch" /\ r.bits = -1 /\ r.plus = 0
      /\ r.base = "zero"
  <2>1. k \in Node \cup {NoSym} /\ -current_text_pc \in Int
    BY NodeType
  <2> HIDE DEF k
  <2> QED
    BY <2>1, NoField DEF Inst, Code, Instruction, Ops
<1>2. Emit(Assemble(o, r)) \/ Emit(Assemble(b, r))
  BY DEF Branch, One, Two
<1>3. Good(b, n)
  BY StartGood
<1>4. Other \in Code /\ Other.sym = NoSym /\ Other.op = "other" /\ Other.of = NoSym /\ Other.base = "zero"
  BY OtherFact DEF Other, Inst
<1> HIDE DEF r, b
<1>5. Good(o, n)
  BY <1>3, <1>4, PlainGood
<1> HIDE DEF o
<1>6. Good(Assemble(o, r), n) /\ Good(Assemble(b, r), n)
  BY <1>1, <1>3, <1>5, BranchGood
<1> QED
  BY <1>2, <1>6, GoodEmit

LEMMA LoadReferences ==
    ASSUME TypeInvariant, Sound(complete_table), Listed, References, NEW n \in Names, NEW off \in Offsets,
           NEW indexed \in BOOLEAN, Load(n, off, indexed)
    PROVE  References'
<1> DEFINE k == NodeOf(n)
           s == AddressOf(n)
           r == Inst("load", NoSym, GpOffset(n, off), 0, "gp", k, off)
           value == off + s
           low1 == Inst("load", NoSym, value % Half, -1, "at", k, off)
           lui1 == Inst("lui", NoSym, High(value), 0, "zero", NoSym, 0)
           low2 == Inst("load", k, off, -1, "at", k, off)
           lui2 == Inst("lui", k, off, 1, "zero", NoSym, 0)
<1>1. k \in Node \cup {NoSym} /\ k # NoSym /\ off \in Int /\ value \in Int /\ GpOffset(n, off) \in Int /\ s \in Nat
      /\ value = s + off
  BY NodeType, GpOffsetType DEF AddressOf
<1>2. High(value) \in Int /\ value % Half \in Int
  <2>0. value \in Int
    BY <1>1
  <2> HIDE DEF value
  <2>1. value % Half \in Int /\ (value \div Half) % Half \in Int
    BY <2>0, HalfFacts
  <2> QED
    BY <2>1 DEF High
<1>3. \/ GpRelative(n) /\ Emit(One(n, r))
      \/ s # 0 /\ (Emit(Two(n, lui1, low1)) \/ Emit(Three(n, lui1, Other, low1)))
      \/ s = 0 /\ (Emit(Two(n, lui2, low2)) \/ Emit(Three(n, lui2, Other, low2)))
  <2> DEFINE pair == FullWord(k, off)
  <2>1. lookup_label(k.name) = lookup_label(n)
    BY NodeType
  <2>2. pair = IF s # 0 THEN <<lui1, low1>> ELSE <<lui2, low2>>
    BY <2>1 DEF FullWord, LoadKnown, LoadUnknown, Lui, Defined, AddressOf
  <2>3. \/ GpRelative(n) /\ Emit(One(n, r))
        \/ Emit(Three(n, pair[1], Other, pair[2])) \/ Emit(Two(n, pair[1], pair[2]))
    BY DEF Load
  <2> HIDE DEF pair, lui1, low1, lui2, low2
  <2>4. IF s # 0 THEN pair[1] = lui1 /\ pair[2] = low1 ELSE pair[1] = lui2 /\ pair[2] = low2
    BY <2>2
  <2> QED
    BY <2>3, <2>4
<1> HIDE DEF k, s, value
<1>4. CASE GpRelative(n) /\ Emit(One(n, r))
  <2>1. /\ r \in Code /\ r.sym = NoSym /\ r.of = k /\ r.op = "load" /\ r.bits = 0 /\ r.plus = off
        /\ r.off = GpOffset(n, off) /\ r.base = "gp"
    BY <1>1, NoField DEF Inst, Code, Instruction, Ops
  <2> HIDE DEF r
  <2>2. Good(Assemble(Start(n), r), n)
    BY <1>4, <2>1, StartGood, GpGood DEF k
  <2> QED
    BY <1>4, <2>2, GoodEmit DEF One
<1>5. CASE s # 0 /\ (Emit(Two(n, lui1, low1)) \/ Emit(Three(n, lui1, Other, low1)))
  <2>1. /\ lui1 \in Code /\ lui1.op = "lui" /\ lui1.of = NoSym /\ lui1.base = "zero" /\ lui1.field = 0
        /\ lui1.sym = NoSym /\ lui1.off = High(value) /\ lui1.bits = 0
    BY <1>1, <1>2, NoField DEF Inst, Code, Instruction, Ops
  <2>2. /\ low1 \in Code /\ low1.op = "load" /\ low1.of = k /\ low1.base = "at" /\ low1.field = 0
        /\ low1.sym = NoSym /\ low1.off = value % Half /\ low1.bits = -1 /\ low1.plus = off
    BY <1>1, <1>2, NoField DEF Inst, Code, Instruction, Ops
  <2> HIDE DEF lui1, low1
  <2>3. Good(Two(n, lui1, low1), n) /\ Good(Three(n, lui1, Other, low1), n)
    BY <1>1, <1>5, <2>1, <2>2, PairsGood DEF k, s
  <2> QED
    BY <1>5, <2>3, GoodEmit
<1>6. CASE s = 0 /\ (Emit(Two(n, lui2, low2)) \/ Emit(Three(n, lui2, Other, low2)))
  <2>1. /\ lui2 \in Code /\ lui2.op = "lui" /\ lui2.of = NoSym /\ lui2.base = "zero" /\ lui2.field = 0
        /\ lui2.sym = k /\ lui2.off = off /\ lui2.bits = 1
    BY <1>1, NoField DEF Inst, Code, Instruction, Ops
  <2>2. /\ low2 \in Code /\ low2.op = "load" /\ low2.of = k /\ low2.base = "at" /\ low2.field = 0
        /\ low2.sym = k /\ low2.off = off /\ low2.bits = -1 /\ low2.plus = off
    BY <1>1, NoField DEF Inst, Code, Instruction, Ops
  <2> HIDE DEF lui2, low2
  <2>3. Good(Two(n, lui2, low2), n) /\ Good(Three(n, lui2, Other, low2), n)
    BY <1>1, <1>6, <2>1, <2>2, PairsGood DEF k, s
  <2> QED
    BY <1>6, <2>3, GoodEmit
<1> QED
  BY <1>3, <1>4, <1>5, <1>6

LEMMA LoadAddressReferences ==
    ASSUME TypeInvariant, Sound(complete_table), Listed, References, NEW n \in Names, NEW off \in Offsets,
           LoadAddress(n, off)
    PROVE  References'
<1> DEFINE k == NodeOf(n)
           r == Inst("addi", NoSym, GpOffset(n, off), 0, "gp", k, off)
           lui == Inst("lui", k, off, 1, "zero", NoSym, 0)
           low == Inst("ori", k, off, -1, "at", k, off)
           lone == Inst("lui", k, off, 1, "zero", k, off)
           s == AddressOf(n)
<1>1. k \in Node \cup {NoSym} /\ off \in Int /\ GpOffset(n, off) \in Int
  BY NodeType, GpOffsetType
<1>2. \/ GpRelative(n) /\ Emit(One(n, r))
      \/ s # 0 /\ (off + s) % Half = 0 /\ Emit(One(n, lone))
      \/ Emit(Two(n, lui, low))
  BY DEF LoadAddress, produce_immediate, UpperOnly, Lui, Ori, AddressOf
<1> HIDE DEF k, s
<1>3. CASE GpRelative(n) /\ Emit(One(n, r))
  <2>1. /\ r \in Code /\ r.sym = NoSym /\ r.of = k /\ r.op = "addi" /\ r.bits = 0 /\ r.plus = off
        /\ r.off = GpOffset(n, off) /\ r.base = "gp"
    BY <1>1, NoField DEF Inst, Code, Instruction, Ops
  <2> HIDE DEF r
  <2>2. Good(Assemble(Start(n), r), n)
    BY <1>3, <2>1, StartGood, GpGood DEF k
  <2> QED
    BY <1>3, <2>2, GoodEmit DEF One
<1>4. CASE Emit(Two(n, lui, low))
  <2>1. /\ lui \in Code /\ lui.op = "lui" /\ lui.of = NoSym /\ lui.base = "zero" /\ lui.field = 0
        /\ lui.sym = k /\ lui.off = off /\ lui.bits = 1
    BY <1>1, NoField DEF Inst, Code, Instruction, Ops
  <2>2. /\ low \in Code /\ low.op = "ori" /\ low.of = k /\ low.base = "at" /\ low.field = 0
        /\ low.sym = k /\ low.off = off /\ low.bits = -1 /\ low.plus = off
    BY <1>1, NoField DEF Inst, Code, Instruction, Ops
  <2> HIDE DEF lui, low
  <2>3. Good(Two(n, lui, low), n)
    BY <1>1, <2>1, <2>2, PairsGood DEF k
  <2> QED
    BY <1>4, <2>3, GoodEmit
<1>5. CASE s # 0 /\ (off + s) % Half = 0 /\ Emit(One(n, lone))
  <2>1. /\ lone \in Code /\ lone.op = "lui" /\ lone.of = k /\ lone.base = "zero"
        /\ lone.sym = k /\ lone.off = off /\ lone.bits = 1 /\ lone.plus = off
    BY <1>1, NoField DEF Inst, Code, Instruction, Ops
  <2> HIDE DEF lone
  <2>2. Good(Assemble(Start(n), lone), n)
    BY <1>1, <1>5, <2>1, StartGood, UpperGood DEF k, s
  <2> QED
    BY <1>5, <2>2, GoodEmit DEF One
<1> QED
  BY <1>2, <1>3, <1>4, <1>5

(* A word of data that names a label.                                      *)
LEMMA WordReferences ==
    ASSUME TypeInvariant, References, NEW n \in Names, Word(n)
    PROVE  References'
<1> DEFINE k == NodeOf(n)
           t == lookup_label(n)
           u == complete_table'
           w == DataUse(next_data_pc)
           d == data'
<1>1. k \in DOMAIN t /\ k # NoSym /\ k \in Node
  BY NodeType, LookupFact
<1>2. Image(t, text, data) /\ Referring(text, data, t) /\ Named(text, data, t, file) /\ GpPlaced(t)
  BY LookupImage, LookupReferring DEF TypeInvariant
<1>3. UNCHANGED <<text, file>>
  BY DEF Word
<1>4. /\ DOMAIN d = DOMAIN data \cup {next_data_pc}
      /\ \A a \in DOMAIN data : d[a] = data[a]
      /\ next_data_pc \notin DOMAIN data => d[next_data_pc] = [word |-> t[k].addr, of |-> k]
      /\ u = IF t[k].addr # 0 THEN t ELSE Uses(t, k, w)
  BY DEF Word, Defined, DataUse
<1>5. next_data_pc \notin DOMAIN data /\ next_data_pc \in Nat
  BY LayoutFact DEF TypeInvariant
<1> HIDE DEF k, t, u, d
<1>6. w \in Use /\ ~w.inst
  BY <1>5 DEF Use, DataUse
<1>7. /\ DOMAIN u = DOMAIN t /\ Ordered(u)
      /\ \A j \in DOMAIN t : /\ u[j].addr = t[j].addr /\ u[j].gp = t[j].gp
                             /\ \A v : Listing(t, j, v) => Listing(u, j, v)
      /\ t[k].addr = 0 => Listing(u, k, w)
  <2>1. CASE t[k].addr # 0
    BY <1>2, <1>4, <2>1 DEF Referring
  <2>2. CASE t[k].addr = 0
    <3> DEFINE z == Uses(t, k, w)
    <3>1. Ordered(t)
      BY <1>2 DEF Referring
    <3> HIDE DEF w
    <3>2. /\ DOMAIN z = DOMAIN t /\ Ordered(z)
          /\ \A j \in DOMAIN t : /\ z[j].addr = t[j].addr /\ z[j].gp = t[j].gp
                                 /\ \A v : Listing(t, j, v) => Listing(z, j, v)
          /\ Listing(z, k, w)
      BY <1>1, <1>2, <1>6, <3>1, UseListing
    <3>3. u = z
      BY <1>4, <2>2
    <3> QED
      BY <2>2, <3>2, <3>3
  <2> QED
    BY <2>1, <2>2
<1>8. ASSUME NEW i \in 1 .. Len(text), text[i].of # NoSym, text[i].of \in DOMAIN u
      PROVE  Waits(text, u, i) \/ Arrives(text, u, i)
  <2>1. text[i].of \in DOMAIN t /\ (Waits(text, t, i) \/ Arrives(text, t, i))
    BY <1>2, <1>7, <1>8 DEF Referring
  <2>2. CASE Waits(text, t, i)
    BY <1>7, <2>1, <2>2 DEF Waits
  <2>3. CASE Arrives(text, t, i)
    BY <1>7, <2>1, <2>3 DEF Arrives
  <2> QED
    BY <2>1, <2>2, <2>3
<1>9. ASSUME NEW a \in DOMAIN d, d[a].of \in DOMAIN u
      PROVE  WordHolds(d, u, a)
  <2>1. CASE a \in DOMAIN data
    <3>1. d[a] = data[a] /\ d[a].of \in DOMAIN t /\ WordHolds(data, t, a)
      BY <1>2, <1>4, <1>7, <1>9, <2>1 DEF Referring
    <3> QED
      BY <1>7, <3>1 DEF WordHolds
  <2>2. CASE a = next_data_pc
    <3>1. d[a].word = t[k].addr /\ d[a].of = k
      BY <1>4, <1>5, <2>2
    <3> QED
      BY <1>1, <1>7, <2>2, <3>1 DEF WordHolds
  <2> QED
    BY <1>4, <2>1, <2>2
<1>10. Referring(text, d, u)
  BY <1>2, <1>7, <1>8, <1>9 DEF Referring
<1>11. Named(text, d, u, file)
  <2>1. \A a \in DOMAIN d : Alive(u, file, d[a].of)
    <3> SUFFICES ASSUME NEW a \in DOMAIN d PROVE Alive(u, file, d[a].of)
      OBVIOUS
    <3>1. CASE a \in DOMAIN data
      BY <1>2, <1>4, <1>7, <3>1 DEF Named, Alive
    <3>2. CASE a = next_data_pc
      BY <1>1, <1>4, <1>5, <1>7, <3>2 DEF Alive
    <3> QED
      BY <1>4, <3>1, <3>2
  <2> QED
    BY <1>2, <1>7, <2>1 DEF Named, Alive
<1>12. GpPlaced(u)
  BY <1>2, <1>7 DEF GpPlaced
<1> QED
  BY <1>3, <1>10, <1>11, <1>12 DEF References, u, d

LEMMA ReferencesStep ==
    ASSUME TypeInvariant, Sound(complete_table), Listed, References, ~GpNamesReused, [Next]_vars
    PROVE  References'
<1>1. CASE \E n \in Names : Label(n) \/ Globl(n) \/ Word(n) \/ Jump(n)
  BY <1>1, LabelReferences, WordReferences, JumpReferences
<1>2. CASE \E n \in Names, size \in LcommSizes : lcomm_directive(n, size)
  BY <1>2, LabelReferences, LcommSmallReferences DEF lcomm_directive
<1>3. CASE \E n \in Names, size \in CommSizes : Comm(n, size)
  BY <1>3, LabelReferences
<1>4. CASE \E n \in Names, size \in ExternSizes : extern_directive(n, size)
  BY <1>4, ExternReferences
<1>5. CASE \E n \in Names, moved \in BOOLEAN : Branch(n, moved)
  BY <1>5, BranchReferences
<1>6. CASE \E n \in Names, off \in Offsets, indexed \in BOOLEAN : Load(n, off, indexed)
  BY <1>6, LoadReferences
<1>7. CASE \E n \in Names, off \in Offsets : LoadAddress(n, off)
  BY <1>7, LoadAddressReferences
<1>8. CASE Text \/ (\E a \in DataPoints \cup {next_data_pc} : Data(a)) \/ UNCHANGED vars
  <2>1. UNCHANGED <<complete_table, text, data, file>>
    BY <1>8 DEF Text, Data, vars
  <2> QED
    BY <2>1 DEF References
<1>9. CASE flush_local_labels
  BY <1>9, FlushReferences
<1> QED
  BY <1>1, <1>2, <1>3, <1>4, <1>5, <1>6, <1>7, <1>8, <1>9 DEF Next

LEMMA ReferencesHold ==
    ASSUME TypeInvariant, References
    PROVE  ReferencesReachLabels
<1>1. ASSUME NEW i \in DOMAIN text, text[i].of # NoSym, Settled(text[i].of)
      PROVE  Leads(text, i, complete_table[text[i].of].addr + text[i].plus)
  <2>1. i \in 1 .. Len(text)
    BY LenProperties DEF TypeInvariant, Image
  <2>2. Waits(text, complete_table, i) \/ Arrives(text, complete_table, i)
    BY <1>1, <2>1 DEF References, Referring, Settled
  <2>3. ~Waits(text, complete_table, i)
    <3>1. complete_table[text[i].of].uses = <<>>
      BY <1>1 DEF Settled
    <3> QED
      BY <3>1 DEF Waits, Listing
  <2> QED
    BY <2>2, <2>3 DEF Arrives
<1>2. ASSUME NEW a \in DOMAIN data, Settled(data[a].of)
      PROVE  data[a].word = complete_table[data[a].of].addr
  BY <1>2 DEF References, Referring, WordHolds, Settled, Listing
<1> QED
  BY <1>1, <1>2 DEF ReferencesReachLabels

(* Every reference leads to its label, and every word that names one holds   *)
(* its address, as soon as the label has one and no use of it waits: in      *)
(* whatever order programs use and define labels, if no name of the $gp area *)
(* is defined a second time.                                               *)
THEOREM ReferencesTheorem ==
    ASSUME ~GpNamesReused
    PROVE  Spec => []ReferencesReachLabels
<1>1. Init => References
  <2> SUFFICES ASSUME Init PROVE References
    OBVIOUS
  <2>1. complete_table = <<>> /\ text = <<>> /\ data = <<>>
    BY DEF Init
  <2>2. Len(text) = 0 /\ DOMAIN data = {} /\ DOMAIN complete_table = {}
    BY <2>1
  <2> QED
    BY <2>2 DEF References, Referring, Named, GpPlaced, Ordered
<1>2. References /\ TypeInvariant /\ Sound(complete_table) /\ Listed /\ [Next]_vars => References'
  BY ReferencesStep
<1>3. References /\ TypeInvariant => ReferencesReachLabels
  BY ReferencesHold
<1>4. Init => Listed
  BY DEF Init, Listed, ListedOn
<1>5. TypeInvariant /\ Sound(complete_table) /\ Listed /\ [Next]_vars => Listed'
  BY ListedSteps
<1> QED
  BY <1>1, <1>2, <1>3, <1>4, <1>5, AlwaysTyped, TableSound, PTL DEF Spec

==============================================================================
