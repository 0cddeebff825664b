--------------------------- MODULE CoprocessorProofs ---------------------------
(***************************************************************************)
(* The floating-point coprocessor: what FCCR and FCSR say of the codes, for *)
(* any codes, conditions and values a program gives to CTC1; and the        *)
(* doubles in pairs of registers, for any registers, words and CPUs.        *)
(***************************************************************************)
EXTENDS ConditionCodes, FloatRegisters, TLAPS

(* What run_spim shifts a 1 by: the assembler has multiplied the code by     *)
(* four, so codes 2 to 7 miss the codes' places of both registers.         *)
LEMMA PlacesFact ==
    ASSUME NEW code \in Codes
    PROVE  /\ code \in 0 .. 7 /\ FD(code) \in Int /\ (FD(code) = 0 <=> code = 0)
           /\ BitPlace(FD(code)) = 4 * code
           /\ code = 1 => BitPlace(FcsrBit(FD(code))) = 28
           /\ code >= 2 => BitPlace(FcsrBit(FD(code))) \in 0 .. 20 /\ BitPlace(FcsrBit(FD(code))) = 4 * code - 8
           /\ BitPlace(23) = 23
  BY CodesAssumption DEF FD, BitPlace, FcsrBit

LEMMA HistoryUpdate ==
    ASSUME NEW h, h = [zero |-> h.zero, loose |-> h.loose, saved |-> h.saved], NEW z, NEW l,
           NEW g, g = [h EXCEPT !.zero = z, !.loose = l]
    PROVE  /\ g.zero = z /\ g.loose = l /\ g.saved = h.saved
           /\ g = [zero |-> g.zero, loose |-> g.loose, saved |-> g.saved]
<1>1. g = [zero |-> z, loose |-> l, saved |-> h.saved]
  OBVIOUS
<1> QED
  BY <1>1

LEMMA FpuUpdate ==
    ASSUME fpu = [fails |-> fpu.fails, last |-> fpu.last], fpu' \in {Passed, Raised}
    PROVE  /\ fpu' = [fails |-> fpu'.fails, last |-> fpu'.last]
           /\ fpu' = Passed => fpu'.last = "none"
  BY DEF Passed, Raised

(* The history is a record; while it is not loose FCSR has only its own     *)
(* bits and FCCR is what CTC1 would make of them; a saved status is in word. *)
History ==
    /\ history = [zero |-> history.zero, loose |-> history.loose, saved |-> history.saved]
    /\ history.zero \in BOOLEAN /\ history.loose \in BOOLEAN
    /\ fpu = [fails |-> fpu.fails, last |-> fpu.last]
Tight == FCSR \subseteq FCSR_MASK /\ ToFccr(FCSR) = FCCR
Saved ==
    /\ word \subseteq FCSR_MASK /\ word = history.saved.fcsr
    /\ ToFccr(word) = history.saved.fccr
CodesInvariant ==
    /\ History
    /\ CodesLinked
    /\ CodeZeroKept
    /\ ~history.loose => Tight
    /\ history.saved # NotSaved => Saved

LEMMA CompareStep ==
    ASSUME CodesInvariant, NEW condition, NEW invalid \in BOOLEAN, NEW relation, NEW code \in Codes,
           Compare(condition, invalid, relation, code)
    PROVE  CodesInvariant'
<1>1. CASE relation = "unordered" /\ invalid /\ RAISE_EXCEPTION
  <2>1. fpu' = Raised /\ UNCHANGED <<FCCR, FCSR, FIR, word, history>>
    BY <1>1 DEF Compare
  <2> QED
    BY <2>1 DEF CodesInvariant, History, CodesLinked, Linked, CodeZeroKept, Tight, Saved, Raised
<1>2. CASE ~ (relation = "unordered" /\ invalid /\ RAISE_EXCEPTION)
  <2> DEFINE res == relation \in condition
             cc == FD(code)
             low == BitPlace(cc)
             high == BitPlace(IF cc = 0 THEN 23 ELSE FcsrBit(cc))
  <2>1. /\ FCCR' = Written(FCCR, low, res) /\ FCSR' = Written(FCSR, high, res)
        /\ history' = [history EXCEPT !.zero = IF code = 0 THEN res ELSE @, !.loose = @ \/ code >= 2]
        /\ fpu' = Passed /\ word' = word
    BY <1>2 DEF Compare, set_fpu_cc
  <2>2. /\ history'.zero <=> IF code = 0 THEN res ELSE history.zero
        /\ history'.loose <=> history.loose \/ code >= 2
        /\ history'.saved = history.saved
        /\ History'
    <3> DEFINE z == IF code = 0 THEN res ELSE history.zero
               l == history.loose \/ code >= 2
    <3>0. History
      BY DEF CodesInvariant
    <3>a. z \in BOOLEAN
      <4> HIDE DEF res
      <4>0. res \in BOOLEAN
        BY SMT DEF res
      <4> HIDE DEF res
      <4>1. res \in BOOLEAN /\ history.zero \in BOOLEAN
        BY <3>0, <4>0 DEF History
      <4>2. CASE code = 0
        <5>1. z = res
          BY <4>2
        <5> QED
          BY <4>1, <5>1
      <4>3. CASE code # 0
        <5>1. z = history.zero
          BY <4>3
        <5> QED
          BY <4>1, <5>1
      <4> QED
        BY <4>2, <4>3
    <3>b. l \in BOOLEAN
      BY Zenon DEF l
    <3>1. History /\ z \in BOOLEAN /\ l \in BOOLEAN
      BY <3>0, <3>a, <3>b
    <3>2. history' = [history EXCEPT !.zero = z, !.loose = l]
      BY <2>1
    <3> HIDE DEF z, l
    <3>3. history'.zero = z /\ history'.loose = l /\ history'.saved = history.saved
          /\ history' = [zero |-> history'.zero, loose |-> history'.loose, saved |-> history'.saved]
      BY <3>1, <3>2, HistoryUpdate DEF History
    <3>4. fpu' = [fails |-> fpu'.fails, last |-> fpu'.last]
      BY <2>1, <3>1, FpuUpdate DEF History
    <3>5. history'.zero \in BOOLEAN /\ history'.loose \in BOOLEAN
      BY <3>1, <3>3
    <3> QED
      BY <3>3, <3>4, <3>5, Zenon DEF History, z, l
  <2>3. /\ code \in 0 .. 7 /\ low = 4 * code
        /\ code = 0 => high = 23
        /\ code = 1 => high = 28
        /\ code >= 2 => high \in 0 .. 20
    BY PlacesFact
  <2> HIDE DEF low, high, res
  <2>4. /\ \A b : b # low => (b \in FCCR' <=> b \in FCCR)
        /\ \A b : b # high => (b \in FCSR' <=> b \in FCSR)
        /\ low \in FCCR' <=> res
        /\ high \in FCSR' <=> res
    BY <2>1 DEF Written
  <2>5. CodesLinked'
    <3>1. ASSUME NEW k \in 1 .. 7 PROVE Linked(k)'
      <4>1. k \in FCCR <=> 24 + k \in FCSR
        BY DEF CodesInvariant, CodesLinked, Linked
      <4>2. CASE code = 1
        <5>1. k = 4 <=> k = low
          BY <2>3, <4>2
        <5>2. k = 4 <=> 24 + k = high
          BY <2>3, <4>2
        <5> QED
          BY <2>4, <4>1, <5>1, <5>2 DEF Linked
      <4>3. CASE code # 1
        <5>1. k # low /\ 24 + k # high
          BY <2>3, <4>3
        <5> QED
          BY <2>4, <4>1, <5>1 DEF Linked
      <4> QED
        BY <4>2, <4>3
    <3>2. 0 \in FCCR' => 23 \in FCSR'
      <4>1. CASE code = 0
        BY <2>3, <2>4, <4>1
      <4>2. CASE code # 0
        <5>1. 0 # low /\ 23 # high
          BY <2>3, <4>2
        <5> QED
          BY <2>4, <5>1 DEF CodesInvariant, CodesLinked
      <4> QED
        BY <4>1, <4>2
    <3> QED
      BY <3>1, <3>2 DEF CodesLinked
  <2>6. CodeZeroKept'
    <3>1. CASE code = 0
      BY <2>2, <2>3, <2>4, <3>1 DEF CodeZeroKept
    <3>2. CASE code # 0
      <4>1. 0 # low
        BY <2>3, <3>2
      <4> QED
        BY <2>2, <2>4, <3>2, <4>1 DEF CodesInvariant, CodeZeroKept
    <3> QED
      BY <3>1, <3>2
  <2>7. ASSUME ~history'.loose PROVE Tight'
    <3>1. ~history.loose /\ code \in {0, 1}
      BY <2>2, <2>3, <2>7 DEF CodesInvariant, History
    <3>2. FCSR \subseteq FCSR_MASK /\ ToFccr(FCSR) = FCCR
      BY <3>1 DEF CodesInvariant, Tight
    <3>3. high \in FCSR_MASK /\ ((code = 0 /\ high = 23 /\ low = 0) \/ (code = 1 /\ high = 28 /\ low = 4))
      BY <2>3, <3>1 DEF FCSR_MASK
    <3>4. FCSR' \subseteq FCSR_MASK
      BY <2>4, <3>2, <3>3
    <3>5. \A b : b \in ToFccr(FCSR') <=> b \in FCCR'
      <4> SUFFICES ASSUME NEW b PROVE b \in ToFccr(FCSR') <=> b \in FCCR'
        OBVIOUS
      <4>1. \A S, d : d \in ToFccr(S) <=> (d \in 1 .. 7 /\ d + 24 \in S) \/ (d = 0 /\ 23 \in S)
        BY DEF ToFccr
      <4>2. b \in FCCR <=> (b \in 1 .. 7 /\ b + 24 \in FCSR) \/ (b = 0 /\ 23 \in FCSR)
        BY <3>2, <4>1
      <4>3. b \in ToFccr(FCSR') <=> (b \in 1 .. 7 /\ b + 24 \in FCSR') \/ (b = 0 /\ 23 \in FCSR')
        BY <4>1
      <4> QED
        BY <2>4, <3>3, <4>2, <4>3
    <3> QED
      BY <3>4, <3>5 DEF Tight
  <2>8. history'.saved # NotSaved => Saved'
    BY <2>1, <2>2 DEF CodesInvariant, Saved
  <2> QED
    BY <2>2, <2>5, <2>6, <2>7, <2>8 DEF CodesInvariant
<1> QED
  BY <1>1, <1>2

(* The bits CTC1 gives to either register.                                  *)
LEMMA CopiedBits ==
    ASSUME NEW S, NEW d
    PROVE  /\ d \in ToFccr(S) <=> (d \in 1 .. 7 /\ d + 24 \in S) \/ (d = 0 /\ 23 \in S)
           /\ d \in ToFcsr(S) <=> (d \in 25 .. 31 /\ d - 24 \in S) \/ (d = 23 /\ 0 \in S)
  BY DEF ToFccr, ToFcsr

LEMMA CopyFccrStep ==
    ASSUME CodesInvariant, CTC1_FCCR
    PROVE  CodesInvariant'
<1>1. /\ FCSR' = (FCSR \cap KeptOfFcsr) \cup ToFcsr(word) /\ FCCR' = word \cap (0 .. 7)
      /\ history' = [history EXCEPT !.zero = 0 \in word, !.loose = TRUE]
      /\ fpu' = Passed /\ word' = word
  BY DEF CTC1_FCCR, FCCR_MASK
<1>2. /\ history'.zero <=> 0 \in word
      /\ history'.loose /\ history'.saved = history.saved
      /\ History'
  <2> DEFINE z == 0 \in word
  <2>1. History /\ z \in BOOLEAN
    BY DEF CodesInvariant, History
  <2>2. history' = [history EXCEPT !.zero = z, !.loose = TRUE]
    BY <1>1
  <2> HIDE DEF z
  <2>3. history'.zero = z /\ history'.loose = TRUE /\ history'.saved = history.saved
        /\ history' = [zero |-> history'.zero, loose |-> history'.loose, saved |-> history'.saved]
    BY <2>1, <2>2, HistoryUpdate DEF History
  <2>4. fpu' = [fails |-> fpu'.fails, last |-> fpu'.last]
    BY <1>1, <2>1, FpuUpdate DEF History
  <2>5. history'.zero \in BOOLEAN /\ history'.loose \in BOOLEAN
    BY <2>1, <2>3
  <2> QED
    BY <2>3, <2>4, <2>5, Zenon DEF History, z
<1>3. CodesLinked'
  <2>1. ASSUME NEW k \in 1 .. 7 PROVE Linked(k)'
    <3>1. 24 + k \in ToFcsr(word) <=> k \in word
      <4>1. (24 + k) \in 25 .. 31 /\ (24 + k) - 24 = k
        OBVIOUS
      <4> QED
        BY <4>1, CopiedBits
    <3>2. 24 + k \notin KeptOfFcsr /\ k \in 0 .. 7 /\ k # 0
      BY DEF KeptOfFcsr
    <3> QED
      BY <1>1, <3>1, <3>2 DEF Linked
  <2>2. 0 \in FCCR' => 23 \in FCSR'
    BY <1>1, CopiedBits
  <2> QED
    BY <2>1, <2>2 DEF CodesLinked
<1>4. CodeZeroKept'
  BY <1>1, <1>2 DEF CodeZeroKept
<1>5. history'.saved # NotSaved => Saved'
  BY <1>1, <1>2 DEF CodesInvariant, Saved
<1> QED
  BY <1>2, <1>3, <1>4, <1>5 DEF CodesInvariant

LEMMA CopyFcsrStep ==
    ASSUME CodesInvariant, CTC1_FCSR
    PROVE  /\ CodesInvariant'
           /\ history.saved # NotSaved =>
                FCSR' = history.saved.fcsr /\ FCCR' = history.saved.fccr /\ fpu'.last # "FPE"
<1>1. /\ FCCR' = ToFccr(word) /\ FCSR' = word \cap FCSR_MASK
      /\ history' = [history EXCEPT !.zero = 23 \in word, !.loose = FALSE]
      /\ fpu' = (IF word \subseteq FCSR_MASK \/ ~RAISE_EXCEPTION THEN Passed ELSE Raised)
      /\ word' = word
  BY DEF CTC1_FCSR, Masked
<1>2. /\ history'.zero <=> 23 \in word
      /\ history'.loose = FALSE /\ history'.saved = history.saved
      /\ History' /\ (fpu' = Passed => fpu'.last = "none")
  <2> DEFINE z == 23 \in word
  <2>1. History /\ z \in BOOLEAN
    BY DEF CodesInvariant, History
  <2>2. history' = [history EXCEPT !.zero = z, !.loose = FALSE]
    BY <1>1
  <2> HIDE DEF z
  <2>3. history'.zero = z /\ history'.loose = FALSE /\ history'.saved = history.saved
        /\ history' = [zero |-> history'.zero, loose |-> history'.loose, saved |-> history'.saved]
    BY <2>1, <2>2, HistoryUpdate DEF History
  <2>4. fpu' = [fails |-> fpu'.fails, last |-> fpu'.last] /\ (fpu' = Passed => fpu'.last = "none")
    <3>1. fpu' \in {Passed, Raised}
      BY <1>1
    <3> QED
      BY <2>1, <3>1, FpuUpdate DEF History
  <2>5. history'.zero \in BOOLEAN /\ history'.loose \in BOOLEAN
    BY <2>1, <2>3
  <2> QED
    BY <2>3, <2>4, <2>5, Zenon DEF History, z
<1>3. \A b \in {23} \cup 25 .. 31 : b \in FCSR_MASK
  BY DEF FCSR_MASK
<1>4. CodesLinked'
  <2>1. ASSUME NEW k \in 1 .. 7 PROVE Linked(k)'
    <3>1. k \in ToFccr(word) <=> 24 + k \in word
      <4>1. k + 24 = 24 + k /\ k # 0
        OBVIOUS
      <4> QED
        BY <4>1, CopiedBits
    <3>2. 24 + k \in FCSR_MASK /\ k # 0
      BY <1>3
    <3> QED
      BY <1>1, <3>1, <3>2 DEF Linked
  <2>2. 0 \in FCCR' => 23 \in FCSR'
    BY <1>1, <1>3, CopiedBits
  <2> QED
    BY <2>1, <2>2 DEF CodesLinked
<1>5. CodeZeroKept'
  BY <1>1, <1>2, CopiedBits DEF CodeZeroKept
<1>6. Tight'
  <2>1. ASSUME NEW b PROVE b \in ToFccr(FCSR') <=> b \in FCCR'
    <3>1. /\ b \in ToFccr(FCSR') <=> (b \in 1 .. 7 /\ b + 24 \in FCSR') \/ (b = 0 /\ 23 \in FCSR')
          /\ b \in FCCR' <=> (b \in 1 .. 7 /\ b + 24 \in word) \/ (b = 0 /\ 23 \in word)
      BY <1>1, CopiedBits
    <3>2. b \in 1 .. 7 => b + 24 \in FCSR_MASK
      BY <1>3
    <3> QED
      BY <1>1, <1>3, <3>1, <3>2
  <2> QED
    BY <1>1, <2>1 DEF Tight
<1>7. history'.saved # NotSaved => Saved'
  BY <1>1, <1>2 DEF CodesInvariant, Saved
<1>8. ASSUME history.saved # NotSaved
      PROVE  FCSR' = history.saved.fcsr /\ FCCR' = history.saved.fccr /\ fpu'.last # "FPE"
  <2>1. word \subseteq FCSR_MASK /\ word = history.saved.fcsr /\ ToFccr(word) = history.saved.fccr
    BY <1>8 DEF CodesInvariant, Saved
  <2>2. fpu'.last = "none"
    BY <1>1, <1>2, <2>1
  <2> QED
    BY <1>1, <2>1, <2>2
<1> QED
  BY <1>2, <1>4, <1>5, <1>6, <1>7, <1>8 DEF CodesInvariant

LEMMA OtherCodeSteps ==
    ASSUME CodesInvariant,
           \/ \E code \in Codes, tf \in BOOLEAN : Test(code, tf)
           \/ CFC1(FCCR) \/ CFC1(FCSR) \/ CFC1(FIR)
           \/ CTC1_FIR
           \/ \E image \in Images : Li(image)
           \/ UNCHANGED fvars
    PROVE  CodesInvariant'
<1> USE DEF CodesInvariant, History, CodesLinked, Linked, CodeZeroKept, Passed
<1>1. CASE \E code \in Codes, tf \in BOOLEAN : Test(code, tf)
  BY <1>1 DEF Test, Tight, Saved
<1>2. ASSUME NEW register, CFC1(register) PROVE CodesInvariant'
  <2>1. /\ word' = register /\ fpu' = Passed /\ UNCHANGED <<FCCR, FCSR>>
        /\ history' = [history EXCEPT !.saved = IF history.loose \/ register # FCSR THEN NotSaved ELSE Restorable]
    BY <1>2 DEF CFC1
  <2>2. /\ history'.zero = history.zero /\ history'.loose = history.loose
        /\ history'.saved = IF history.loose \/ register # FCSR THEN NotSaved ELSE Restorable
        /\ History'
    BY <2>1
  <2>3. history'.saved # NotSaved => Saved'
    BY <2>1, <2>2 DEF Tight, Saved, Restorable
  <2>4. ~history'.loose => Tight'
    BY <2>1, <2>2 DEF Tight
  <2> QED
    BY <2>1, <2>2, <2>3, <2>4
<1>3. CASE CTC1_FIR
  BY <1>3 DEF CTC1_FIR, Tight, Saved
<1>4. CASE \E image \in Images : Li(image)
  BY <1>4 DEF Li, Tight, Saved
<1>5. CASE UNCHANGED fvars
  BY <1>5 DEF fvars, Tight, Saved
<1> QED
  BY <1>1, <1>2, <1>3, <1>4, <1>5

LEMMA CodesStart == CodesInit => CodesInvariant
<1> SUFFICES ASSUME CodesInit PROVE CodesInvariant
  OBVIOUS
<1>1. /\ FCCR = {} /\ FCSR = {} /\ history = [zero |-> FALSE, loose |-> FALSE, saved |-> NotSaved]
      /\ fpu = [fails |-> fpu.fails, last |-> fpu.last]
  BY DEF CodesInit
<1>2. ToFccr(FCSR) = FCCR
  BY <1>1 DEF ToFccr
<1> QED
  BY <1>1, <1>2 DEF CodesInvariant, History, CodesLinked, Linked, CodeZeroKept, Tight

LEMMA CodesSteps == CodesInvariant /\ [CodesNext]_fvars => CodesInvariant'
<1> SUFFICES ASSUME CodesInvariant, [CodesNext]_fvars PROVE CodesInvariant'
  OBVIOUS
<1>1. CASE \E condition \in Conditions, invalid \in BOOLEAN, relation \in Relations, code \in Codes :
             Compare(condition, invalid, relation, code)
  BY <1>1, CompareStep
<1>2. CASE CTC1_FCCR
  BY <1>2, CopyFccrStep
<1>3. CASE CTC1_FCSR
  BY <1>3, CopyFcsrStep
<1> QED
  BY <1>1, <1>2, <1>3, OtherCodeSteps DEF CodesNext

(* CodesLinked for any codes, conditions and values given to CTC1.          *)
THEOREM LinkedTheorem == CodesSpec => []CodesLinked
<1>1. CodesInvariant => CodesLinked
  BY DEF CodesInvariant
<1> QED
  BY <1>1, CodesStart, CodesSteps, PTL DEF CodesSpec

(* CodeZeroKept likewise: what branches see of code 0 is what was last made. *)
THEOREM CodeZeroTheorem == CodesSpec => []CodeZeroKept
<1>1. CodesInvariant => CodeZeroKept
  BY DEF CodesInvariant
<1> QED
  BY <1>1, CodesStart, CodesSteps, PTL DEF CodesSpec

(* SavedStatusRestored likewise: a CTC1 of a status that CFC1 read, and that *)
(* no write made loose before, puts both registers back and never raises.   *)
THEOREM SavedStatusTheorem == CodesSpec => SavedStatusRestored
<1>1. /\ CodesInvariant /\ [CodesNext]_fvars
      => [CTC1_FCSR /\ history.saved # NotSaved =>
            FCSR' = history.saved.fcsr /\ FCCR' = history.saved.fccr /\ fpu'.last # "FPE"]_fvars
  BY CopyFcsrStep
<1> QED
  BY <1>1, CodesStart, CodesSteps, PTL DEF CodesSpec, SavedStatusRestored

-----------------------------------------------------------------------------
Meanings == [double : Doubles, late : BOOLEAN] \cup {Parts}

(* Every load on its way is the user's.                                     *)
FloatTypes ==
    /\ TypeOK /\ user \in CPUs
    /\ \A entry \in {new, old} : entry # NoLoad => entry.cpu = user
    /\ memory \in [Words -> Values]
    /\ meant = [reg |-> meant.reg, mem |-> meant.mem]
    /\ meant.reg \in [Pairs -> Meanings]
    /\ meant.mem \in [Words -> Meanings]

Complete(p, what) ==
    what # Parts /\ ~what.late => Settles(2 * p) = Half(what.double, 0) /\ Settles(2 * p + 1) = Half(what.double, 1)
Stored(w, what) ==
    what # Parts =>
        w + 1 \in Words /\ (~what.late => memory[w] = Half(what.double, 0) /\ memory[w + 1] = Half(what.double, 1))

(* A double is stored whole only where both of its words are mapped.        *)
FloatInvariant ==
    /\ FloatTypes
    /\ \A p \in Pairs : Complete(p, meant.reg[p])
    /\ \A w \in Words : Stored(w, meant.mem[w])

LEMMA PairFacts ==
    ASSUME NEW p \in Pairs
    PROVE  /\ p \in Nat /\ 2 * p \in Regs /\ 2 * p + 1 \in Regs
           /\ \A q \in Pairs : q # p => {2 * q, 2 * q + 1} \cap {2 * p, 2 * p + 1} = {}
<1>1. \A q \in Pairs : q \in Nat /\ 2 * q \in Regs /\ 2 * q + 1 \in Regs
  <2>1. TAKE q \in Pairs
  <2>2. PICK r \in Regs : q = r \div 2
    BY DEF Pairs
  <2> QED
    BY <2>2, FloatAssumption
<1> QED
  BY <1>1

LEMMA RegPair ==
    ASSUME NEW r \in Regs
    PROVE  /\ r \div 2 \in Pairs /\ r \in {2 * (r \div 2), 2 * (r \div 2) + 1}
BY FloatAssumption DEF Pairs

LEMMA MeantSet ==
    ASSUME meant = [reg |-> meant.reg, mem |-> meant.mem], NEW g
    PROVE  /\ [meant EXCEPT !.reg = g] = [reg |-> g, mem |-> meant.mem]
           /\ [meant EXCEPT !.mem = g] = [reg |-> meant.reg, mem |-> g]
OBVIOUS

(* What the instruction sees is what has landed when it ends.               *)
LEMMA SeenFacts ==
    ASSUME FloatTypes
    PROVE  /\ DO_DELAYED_UPDATE(user) \in [CPUs -> [Regs -> Values]]
           /\ \A r \in Regs : /\ Seen[r] \in Values
                              /\ Settles(r) = IF Lands(new, r) THEN new.value ELSE Seen[r]
                              /\ Free(r) => Settles(r) = Seen[r]
<1>1. /\ R \in [CPUs -> [Regs -> Values]] /\ user \in CPUs
      /\ old # NoLoad => user \in Delayed /\ old.cpu = user /\ old.reg \in Regs /\ old.value \in Values
  BY LoadAssumption DEF FloatTypes, TypeOK, Entry
<1>2. CASE old = NoLoad
  BY <1>1, <1>2 DEF DO_DELAYED_UPDATE, Seen, Settles, Lands, Free
<1>3. CASE old # NoLoad
  <2>1. DO_DELAYED_UPDATE(user) = [R EXCEPT ![user][old.reg] = old.value]
    BY <1>1, <1>3 DEF DO_DELAYED_UPDATE
  <2>2. Seen = [R[user] EXCEPT ![old.reg] = old.value]
    BY <1>1, <2>1 DEF Seen
  <2> QED
    BY <1>1, <1>3, <2>1, <2>2 DEF Settles, Lands, Free
<1> QED
  BY <1>2, <1>3

LoadTypes == TypeOK /\ user \in CPUs /\ \A entry \in {new, old} : entry # NoLoad => entry.cpu = user

(* The registers after an instruction of the user.                          *)
LEMMA UserStep ==
    ASSUME FloatTypes, UNCHANGED user, NEW F \in [Regs -> Values],
           NEW load, load # NoLoad => load \in [cpu : {user}, reg : Regs, value : Values],
           R' = [DO_DELAYED_UPDATE(user) EXCEPT ![user] = F], Shift(user, load)
    PROVE  /\ LoadTypes'
           /\ \A r \in Regs : Settles(r)' = IF user \in Delayed /\ load # NoLoad /\ load.reg = r THEN load.value
                                            ELSE IF Lands(new, r) THEN new.value ELSE F[r]
<1>1. R' \in [CPUs -> [Regs -> Values]] /\ R'[user] = F /\ user \in CPUs
  BY SeenFacts DEF FloatTypes
<1>2. /\ new # NoLoad => user \in Delayed /\ new \in Entry /\ new.cpu = user
      /\ old # NoLoad => user \in Delayed /\ old \in Entry /\ old.cpu = user
  BY LoadAssumption DEF FloatTypes, TypeOK, Entry
<1>3. CASE user \in Delayed
  <2>1. old' = new /\ new' = load
    BY <1>3 DEF Shift
  <2>2. load # NoLoad => load \in Entry /\ load.cpu = user
    BY <1>3 DEF Entry
  <2>3. LoadTypes'
    BY <1>1, <1>2, <2>1, <2>2 DEF LoadTypes, TypeOK
  <2> QED
    BY <1>1, <1>2, <1>3, <2>1, <2>2, <2>3 DEF Settles, Lands
<1>4. CASE user \notin Delayed
  <2>1. new = NoLoad /\ old = NoLoad /\ new' = NoLoad /\ old' = NoLoad
    BY <1>2, <1>4 DEF Shift
  <2>2. LoadTypes'
    BY <1>1, <2>1 DEF LoadTypes, TypeOK
  <2> QED
    BY <1>1, <1>4, <2>1, <2>2 DEF Settles, Lands
<1> QED
  BY <1>3, <1>4

(* An instruction without result, of any CPU.                               *)
LEMMA OtherKeeps ==
    ASSUME FloatTypes, UNCHANGED user, NEW c \in CPUs, ExecOther(c)
    PROVE  LoadTypes' /\ \A r \in Regs : Settles(r)' = Settles(r)
<1>1. R \in [CPUs -> [Regs -> Values]] /\ user \in CPUs
  BY DEF FloatTypes, TypeOK
<1>2. /\ new # NoLoad => user \in Delayed /\ new \in Entry /\ new.cpu = user
      /\ old # NoLoad => user \in Delayed /\ old \in Entry /\ old.cpu = user /\ old.reg \in Regs /\ old.value \in Values
  BY LoadAssumption DEF FloatTypes, TypeOK, Entry
<1>3. CASE c \in Delayed
  <2>1. old' = new /\ new' = NoLoad
    BY <1>3 DEF ExecOther, Shift
  <2>2. R' = IF old # NoLoad THEN [R EXCEPT ![user][old.reg] = old.value] ELSE R
    BY <1>2, <1>3 DEF ExecOther, DO_DELAYED_UPDATE
  <2>3. /\ R' \in [CPUs -> [Regs -> Values]]
        /\ \A r \in Regs : R'[user][r] = IF Lands(old, r) THEN old.value ELSE R[user][r]
    BY <1>1, <1>2, <2>2 DEF Lands
  <2>4. LoadTypes'
    BY <1>1, <1>2, <2>1, <2>3 DEF LoadTypes, TypeOK
  <2> QED
    BY <1>1, <1>2, <2>1, <2>3, <2>4 DEF Settles, Lands
<1>4. CASE c \notin Delayed
  <2>1. R' = R /\ new' = new /\ old' = old
    BY <1>4 DEF ExecOther, Shift, DO_DELAYED_UPDATE
  <2> QED
    BY <1>1, <1>2, <2>1 DEF LoadTypes, TypeOK, Settles, Lands, FloatTypes
<1> QED
  BY <1>3, <1>4

(* A new meaning for one pair.                                              *)
LEMMA PairMeans ==
    ASSUME FloatInvariant, NEW p \in Pairs, NEW what \in Meanings,
           UNCHANGED <<user, memory>>, Means(p, what), LoadTypes',
           what # Parts /\ ~what.late =>
               Settles(2 * p)' = Half(what.double, 0) /\ Settles(2 * p + 1)' = Half(what.double, 1),
           \A q \in Pairs : q # p => Settles(2 * q)' = Settles(2 * q) /\ Settles(2 * q + 1)' = Settles(2 * q + 1)
    PROVE  FloatInvariant'
<1>1. meant' = [reg |-> [meant.reg EXCEPT ![p] = what], mem |-> meant.mem]
  <2>1. meant' = [meant EXCEPT !.reg = [meant.reg EXCEPT ![p] = what]]
    BY DEF Means
  <2> QED
    BY <2>1, MeantSet DEF FloatInvariant, FloatTypes
<1>2. FloatTypes'
  BY <1>1 DEF FloatInvariant, FloatTypes, LoadTypes, Meanings, Parts
<1>3. \A q \in Pairs : Complete(q, meant.reg[q])'
  <2>1. TAKE q \in Pairs
  <2>2. CASE q = p
    BY <1>1, <2>2 DEF FloatInvariant, FloatTypes, Complete, Parts, Half
  <2>3. CASE q # p
    <3>1. meant'.reg[q] = meant.reg[q] /\ Complete(q, meant.reg[q])
      BY <1>1, <2>3 DEF FloatInvariant, FloatTypes
    <3> QED
      BY <2>3, <3>1 DEF Complete, Parts, Half
  <2> QED
    BY <2>2, <2>3
<1>4. \A w \in Words : Stored(w, meant.mem[w])'
  <2>1. TAKE w \in Words
  <2>2. meant'.mem[w] = meant.mem[w] /\ Stored(w, meant.mem[w])
    BY <1>1 DEF FloatInvariant
  <2> QED
    BY <2>2 DEF Stored, Parts, Half
<1> QED
  BY <1>2, <1>3, <1>4 DEF FloatInvariant

(* Two words put in a pair at once.                                         *)
LEMMA DoubleStep ==
    ASSUME FloatTypes, NEW p \in Pairs, PairFree(p), UNCHANGED user,
           NEW words \in [{0, 1} -> Values], R' = SET_FPR_D(p, words), Shift(user, NoLoad)
    PROVE  /\ LoadTypes'
           /\ Settles(2 * p)' = words[0] /\ Settles(2 * p + 1)' = words[1]
           /\ \A q \in Pairs : q # p => Settles(2 * q)' = Settles(2 * q) /\ Settles(2 * q + 1)' = Settles(2 * q + 1)
<1> DEFINE U == DO_DELAYED_UPDATE(user)
           F == [Seen EXCEPT ![2 * p] = words[0], ![2 * p + 1] = words[1]]
<1>1. U \in [CPUs -> [Regs -> Values]] /\ U[user] = Seen /\ user \in CPUs
  BY SeenFacts DEF Seen, FloatTypes
<1>2. R' = [U EXCEPT ![user][2 * p] = words[0], ![user][2 * p + 1] = words[1]]
  BY DEF SET_FPR_D
<1> HIDE DEF U
<1>3. 2 * p \in Regs /\ 2 * p + 1 \in Regs /\ 2 * p # 2 * p + 1
  BY PairFacts
<1>4. F \in [Regs -> Values]
  BY <1>1, <1>3
<1>5. R' = [U EXCEPT ![user] = F]
  BY <1>1, <1>2, <1>3
<1>6. /\ LoadTypes'
      /\ \A r \in Regs : Settles(r)' = IF Lands(new, r) THEN new.value ELSE F[r]
  <2> HIDE DEF F
  <2> QED
    BY <1>4, <1>5, UserStep DEF U
<1>7. F[2 * p] = words[0] /\ F[2 * p + 1] = words[1] /\ \A r \in Regs : r \notin {2 * p, 2 * p + 1} => F[r] = Seen[r]
  BY <1>1, <1>3
<1> HIDE DEF F
<1>8. ~Lands(new, 2 * p) /\ ~Lands(new, 2 * p + 1)
  BY DEF PairFree, Free, Lands
<1> QED
  BY <1>3, <1>6, <1>7, <1>8, SeenFacts, PairFacts

LEMMA WriteDoubleStep ==
    ASSUME FloatInvariant, NEW p \in Pairs, NEW d \in Doubles, WriteDouble(p, d) PROVE FloatInvariant'
<1> DEFINE words == [i \in {0, 1} |-> Half(d, i)]
<1>1. words \in [{0, 1} -> Values] /\ words[0] = Half(d, 0) /\ words[1] = Half(d, 1)
  BY FloatAssumption DEF Half
<1>2. /\ FloatTypes /\ PairFree(p) /\ UNCHANGED <<user, memory>> /\ Means(p, Whole(d))
      /\ R' = SET_FPR_D(p, words) /\ Shift(user, NoLoad)
  BY DEF WriteDouble, Step, FloatInvariant
<1> HIDE DEF words
<1>3. /\ LoadTypes'
      /\ Settles(2 * p)' = words[0] /\ Settles(2 * p + 1)' = words[1]
      /\ \A q \in Pairs : q # p => Settles(2 * q)' = Settles(2 * q) /\ Settles(2 * q + 1)' = Settles(2 * q + 1)
  BY <1>1, <1>2, DoubleStep
<1>4. Whole(d) \in Meanings /\ Whole(d).double = d
  BY DEF Whole, Meanings
<1> QED
  BY <1>1, <1>2, <1>3, <1>4, PairMeans

LEMMA MoveStep ==
    ASSUME FloatInvariant, NEW p \in Pairs, NEW q \in Pairs, MOV_D(p, q) PROVE FloatInvariant'
<1>1. 2 * q \in Regs /\ 2 * q + 1 \in Regs
  BY PairFacts
<1> DEFINE words == [i \in {0, 1} |-> Seen[2 * q + i]]
<1>2. words \in [{0, 1} -> Values] /\ words[0] = Seen[2 * q] /\ words[1] = Seen[2 * q + 1]
  <2>1. words[0] = Seen[2 * q]
    BY PairFacts
  <2>2. words[1] = Seen[2 * q + 1]
    OBVIOUS
  <2> QED
    BY <1>1, <2>1, <2>2, SeenFacts DEF FloatInvariant
<1>3. /\ FloatTypes /\ PairFree(p) /\ PairFree(q) /\ UNCHANGED <<user, memory>> /\ Means(p, meant.reg[q])
      /\ R' = SET_FPR_D(p, words) /\ Shift(user, NoLoad)
  BY DEF MOV_D, FPR_D, Step, FloatInvariant
<1> HIDE DEF words
<1>4. /\ LoadTypes'
      /\ Settles(2 * p)' = words[0] /\ Settles(2 * p + 1)' = words[1]
      /\ \A o \in Pairs : o # p => Settles(2 * o)' = Settles(2 * o) /\ Settles(2 * o + 1)' = Settles(2 * o + 1)
  BY <1>2, <1>3, DoubleStep
<1>5. meant.reg[q] \in Meanings /\ Complete(q, meant.reg[q])
  BY DEF FloatInvariant, FloatTypes, Meanings
<1>6. Settles(2 * q) = Seen[2 * q] /\ Settles(2 * q + 1) = Seen[2 * q + 1]
  BY <1>1, <1>3, SeenFacts DEF PairFree
<1> QED
  BY <1>2, <1>3, <1>4, <1>5, <1>6, PairMeans DEF Complete

LEMMA OneWordStep ==
    ASSUME FloatInvariant, NEW r \in Regs, NEW v \in Values, Free(r),
           UNCHANGED <<user, memory>>, Means(r \div 2, Parts), ExecWrite(user, r, v) \/ ExecLoad(user, r, v)
    PROVE  FloatInvariant'
<1> DEFINE p == r \div 2
<1>1. p \in Pairs /\ Parts \in Meanings /\ \A q \in Pairs : q # p => 2 * q # r /\ 2 * q + 1 # r /\ 2 * q \in Regs /\ 2 * q + 1 \in Regs
  BY RegPair, PairFacts DEF Meanings
<1>2. FloatTypes /\ user \in CPUs
  BY DEF FloatInvariant, FloatTypes
<1>3. LoadTypes' /\ \A s \in Regs : s # r => Settles(s)' = Settles(s)
  <2>1. CASE ExecWrite(user, r, v)
    <3> DEFINE F == [Seen EXCEPT ![r] = v]
    <3>1. F \in [Regs -> Values] /\ \A s \in Regs : s # r => F[s] = Seen[s]
      BY <1>2, SeenFacts DEF Seen
    <3>2. R' = [DO_DELAYED_UPDATE(user) EXCEPT ![user] = F] /\ Shift(user, NoLoad)
      BY <2>1, <1>2, SeenFacts DEF ExecWrite, Seen
    <3> HIDE DEF F
    <3>3. LoadTypes' /\ \A s \in Regs : Settles(s)' = IF Lands(new, s) THEN new.value ELSE F[s]
      BY <1>2, <3>1, <3>2, UserStep
    <3> QED
      BY <1>2, <3>1, <3>3, SeenFacts
  <2>2. CASE user \in Delayed /\ ExecLoad(user, r, v)
    <3> DEFINE load == [cpu |-> user, reg |-> r, value |-> v]
    <3>1. load \in [cpu : {user}, reg : Regs, value : Values] /\ load.reg = r
      OBVIOUS
    <3>2. R' = [DO_DELAYED_UPDATE(user) EXCEPT ![user] = Seen] /\ Shift(user, load) /\ Seen \in [Regs -> Values]
      BY <2>2, <1>2, SeenFacts DEF ExecLoad, Seen
    <3> HIDE DEF load
    <3>3. LoadTypes' /\ \A s \in Regs : Settles(s)' = IF load # NoLoad /\ load.reg = s THEN load.value
                                                      ELSE IF Lands(new, s) THEN new.value ELSE Seen[s]
      BY <1>2, <2>2, <3>1, <3>2, UserStep
    <3> QED
      BY <1>2, <3>1, <3>3, SeenFacts
  <2> QED
    BY <2>1, <2>2 DEF ExecLoad
<1> HIDE DEF p
<1> QED
  BY <1>1, <1>3, PairMeans DEF p

LEMMA WriteWordStep == ASSUME FloatInvariant, NEW r \in Regs, WriteWord(r) PROVE FloatInvariant'
BY OneWordStep, LoadAssumption DEF WriteWord, Step

LEMMA LoadWordStep == ASSUME FloatInvariant, NEW r \in Regs, NEW w \in Words, LWC1(r, w) PROVE FloatInvariant'
<1>1. MemoryWord(w) \in Values
  BY LoadAssumption DEF MemoryWord, FloatInvariant, FloatTypes
<1> QED
  BY <1>1, OneWordStep DEF LWC1, Step

(* LDC1: the words of a double of memory, or no double.                     *)
LEMMA LoadDoubleStep ==
    ASSUME FloatInvariant, NEW p \in Pairs, NEW w \in Words \cup {Nowhere}, LDC1(p, w) PROVE FloatInvariant'
<1> DEFINE odd == MemoryWord(w + 1)
           even == MemoryWord(w)
           words == [i \in {0, 1} |-> MemoryWord(w + i)]
           what == IF w \notin Words \/ meant.mem[w] = Parts THEN Parts
                   ELSE [meant.mem[w] EXCEPT !.late = @ \/ user \in Delayed]
<1>1. FloatTypes /\ user \in CPUs /\ UNCHANGED <<user, memory>> /\ PairFree(p) /\ memory \in [Words -> Values]
  BY DEF FloatInvariant, FloatTypes, LDC1, Step
<1>2. odd \in Values /\ even \in Values
  BY <1>1, LoadAssumption DEF MemoryWord
<1>3. /\ Means(p, what) /\ what \in Meanings
      /\ what # Parts /\ ~what.late => /\ user \notin Delayed
                                       /\ even = Half(what.double, 0) /\ odd = Half(what.double, 1)
  <2>1. Means(p, what)
    BY DEF LDC1
  <2>2. CASE w \notin Words \/ meant.mem[w] = Parts
    BY <2>1, <2>2 DEF Meanings
  <2>3. CASE w \in Words /\ meant.mem[w] # Parts
    <3>1. meant.mem[w] \in [double : Doubles, late : BOOLEAN] /\ Stored(w, meant.mem[w])
      BY <2>3 DEF FloatInvariant, FloatTypes, Meanings
    <3>2. PICK d \in Doubles, late \in BOOLEAN : meant.mem[w] = [double |-> d, late |-> late]
      BY <3>1
    <3>3. what = [double |-> d, late |-> late \/ user \in Delayed]
      BY <2>3, <3>2
    <3>4. ~late => memory[w] = Half(d, 0) /\ memory[w + 1] = Half(d, 1)
      BY <2>3, <3>1, <3>2 DEF Stored
    <3>5. w + 1 \in Words
      BY <2>3, <3>1 DEF Stored
    <3> QED
      BY <2>1, <2>3, <3>3, <3>4, <3>5 DEF MemoryWord, Meanings
  <2> QED
    BY <2>2, <2>3
<1>4. 2 * p \in Regs /\ 2 * p + 1 \in Regs /\ 2 * p # 2 * p + 1
  BY PairFacts
<1>5. Seen \in [Regs -> Values]
  BY <1>1, SeenFacts DEF Seen
<1>6. CASE user \in Delayed
  <2> DEFINE load == [cpu |-> user, reg |-> 2 * p + 1, value |-> odd]
  <2>1. Shift(user, load) /\ R' = DO_DELAYED_UPDATE(user)
    BY <1>6 DEF LDC1
  <2>2. R' = [DO_DELAYED_UPDATE(user) EXCEPT ![user] = Seen]
    BY <1>1, <2>1, SeenFacts DEF Seen
  <2>3. load \in [cpu : {user}, reg : Regs, value : Values] /\ load.reg = 2 * p + 1
    BY <1>1, <1>2, <1>4
  <2> HIDE DEF load, odd, even, what
  <2>4. /\ LoadTypes'
        /\ \A s \in Regs : Settles(s)' = IF user \in Delayed /\ load # NoLoad /\ load.reg = s THEN load.value
                                         ELSE IF Lands(new, s) THEN new.value ELSE Seen[s]
    BY <1>1, <1>5, <2>1, <2>2, <2>3, UserStep
  <2>5. \A s \in Regs : s # 2 * p + 1 => Settles(s)' = Settles(s)
    BY <1>1, <2>3, <2>4, SeenFacts
  <2>6. \A q \in Pairs : q # p => Settles(2 * q)' = Settles(2 * q) /\ Settles(2 * q + 1)' = Settles(2 * q + 1)
    BY <2>5, PairFacts
  <2> QED
    BY <1>1, <1>3, <1>6, <2>4, <2>6, PairMeans
<1>7. CASE user \notin Delayed
  <2>1. R' = SET_FPR_D(p, words) /\ Shift(user, NoLoad)
    BY <1>7 DEF LDC1, Shift
  <2>2. words \in [{0, 1} -> Values] /\ words[0] = even /\ words[1] = odd
    <3>1. w + 0 = w
      BY FloatAssumption DEF Nowhere
    <3> QED
      BY <1>2, <3>1
  <2> HIDE DEF words, what, even, odd
  <2>3. /\ LoadTypes'
        /\ Settles(2 * p)' = words[0] /\ Settles(2 * p + 1)' = words[1]
        /\ \A q \in Pairs : q # p => Settles(2 * q)' = Settles(2 * q) /\ Settles(2 * q + 1)' = Settles(2 * q + 1)
    BY <1>1, <2>1, <2>2, DoubleStep
  <2> QED
    BY <1>1, <1>3, <2>2, <2>3, PairMeans
<1> QED
  BY <1>6, <1>7

(* The registers and the meanings when only memory is stored to.            *)
LEMMA StoreStep ==
    ASSUME FloatInvariant, NEW w \in Words \cup {Nowhere}, NEW n \in {1, 2}, NEW words \in [0 .. n - 1 -> Values],
           NEW what \in Meanings,
           UNCHANGED user, memory' = Put(w, words), ExecOther(user), MeansStored(w, n, what),
           what # Parts =>
               /\ n = 2 /\ w \in Words /\ w + 1 \in Words
               /\ ~what.late => words[0] = Half(what.double, 0) /\ words[1] = Half(what.double, 1)
    PROVE  FloatInvariant'
<1> DEFINE after == [a \in Words |-> IF a = w THEN what ELSE IF a \in Overlapped(w, n) THEN Parts ELSE meant.mem[a]]
<1>1. meant' = [reg |-> meant.reg, mem |-> after]
  <2>1. meant' = [meant EXCEPT !.mem = after]
    BY DEF MeansStored
  <2> HIDE DEF after
  <2> QED
    BY <2>1, MeantSet DEF FloatInvariant, FloatTypes
<1>2. memory' \in [Words -> Values]
  BY FloatAssumption DEF Put, FloatInvariant, FloatTypes, Nowhere
<1>3. LoadTypes' /\ \A r \in Regs : Settles(r)' = Settles(r)
  BY OtherKeeps DEF FloatInvariant, FloatTypes
<1>4. FloatTypes'
  BY <1>1, <1>2, <1>3 DEF FloatInvariant, FloatTypes, LoadTypes, Meanings, Parts
<1>5. \A q \in Pairs : Complete(q, meant.reg[q])'
  <2>1. TAKE q \in Pairs
  <2>2. Settles(2 * q)' = Settles(2 * q) /\ Settles(2 * q + 1)' = Settles(2 * q + 1)
    BY <1>3, PairFacts
  <2>3. meant'.reg[q] = meant.reg[q] /\ Complete(q, meant.reg[q])
    BY <1>1 DEF FloatInvariant
  <2> QED
    BY <2>2, <2>3 DEF Complete, Parts, Half
<1>6. \A a \in Words : Stored(a, meant.mem[a])'
  <2>1. TAKE a \in Words
  <2>2. a \in Int /\ w \in Int
    BY FloatAssumption DEF Nowhere
  <2>3. meant'.mem[a] = after[a]
    BY <1>1
  <2>4. CASE a = w
    <3>1. meant'.mem[a] = what
      BY <2>3, <2>4
    <3>2. SUFFICES ASSUME what # Parts
                   PROVE  /\ a + 1 \in Words
                          /\ ~what.late => memory'[a] = Half(what.double, 0) /\ memory'[a + 1] = Half(what.double, 1)
      BY <3>1 DEF Stored, Parts, Half
    <3>3. memory'[w] = words[0] /\ memory'[w + 1] = words[1]
      BY <2>2, <3>2 DEF Put
    <3> QED
      BY <2>4, <3>2, <3>3
  <2>5. CASE a # w /\ a \in Overlapped(w, n)
    BY <2>3, <2>5 DEF Stored, Parts
  <2>6. CASE a # w /\ a \notin Overlapped(w, n)
    <3>1. meant'.mem[a] = meant.mem[a] /\ Stored(a, meant.mem[a])
      BY <2>3, <2>6 DEF FloatInvariant
    <3>2. a - w \notin 0 .. n - 1 /\ a + 1 - w \notin 0 .. n - 1
      BY <2>2, <2>6 DEF Overlapped
    <3>3. memory'[a] = memory[a] /\ (a + 1 \in Words => memory'[a + 1] = memory[a + 1])
      BY <2>2, <3>2 DEF Put
    <3> QED
      BY <3>1, <3>3 DEF Stored, Parts, Half
  <2> QED
    BY <2>4, <2>5, <2>6
<1> QED
  BY <1>4, <1>5, <1>6 DEF FloatInvariant

LEMMA StoreDoubleStep ==
    ASSUME FloatInvariant, NEW p \in Pairs, NEW w \in Words \cup {Nowhere}, SDC1(p, w) PROVE FloatInvariant'
<1> DEFINE what == IF w + 1 \in Words THEN meant.reg[p] ELSE Parts
           words == FPR_D(p)
<1>1. /\ UNCHANGED user /\ PairFree(p) /\ memory' = Put(w, words) /\ ExecOther(user) /\ MeansStored(w, 2, what) /\ FloatTypes
  BY DEF SDC1, Step, FloatInvariant
<1>2. 2 * p \in Regs /\ 2 * p + 1 \in Regs /\ 2 * p + 0 = 2 * p
  BY PairFacts
<1>3. words \in [0 .. 1 -> Values] /\ words[0] = Settles(2 * p) /\ words[1] = Settles(2 * p + 1)
  <2>1. \A i \in {0, 1} : Seen[2 * p + i] \in Values
    BY <1>1, <1>2, SeenFacts
  <2>2. words[0] = Seen[2 * p] /\ words[1] = Seen[2 * p + 1]
    BY <1>2 DEF FPR_D
  <2>3. words \in [{0, 1} -> Values] /\ 0 .. 1 = {0, 1}
    BY <2>1 DEF FPR_D
  <2> QED
    BY <1>1, <1>2, <2>2, <2>3, SeenFacts DEF PairFree
<1>4. /\ what \in Meanings
      /\ what # Parts =>
             /\ w \in Words /\ w + 1 \in Words
             /\ ~what.late => words[0] = Half(what.double, 0) /\ words[1] = Half(what.double, 1)
  <2>1. meant.reg[p] \in Meanings /\ Complete(p, meant.reg[p])
    BY DEF FloatInvariant, FloatTypes
  <2>2. w + 1 \in Words => w \in Words
    BY FloatAssumption DEF Nowhere
  <2> HIDE DEF words
  <2> QED
    BY <1>3, <2>1, <2>2 DEF Complete, Meanings
<1> HIDE DEF words, what
<1>5. 0 .. 2 - 1 = 0 .. 1
  OBVIOUS
<1> QED
  BY <1>1, <1>3, <1>4, <1>5, StoreStep

LEMMA StoreWordStep == ASSUME FloatInvariant, NEW r \in Regs, NEW w \in Words, SWC1(r, w) PROVE FloatInvariant'
<1> DEFINE words == [i \in {0} |-> Seen[r]]
<1>1. words \in [0 .. 1 - 1 -> Values]
  BY SeenFacts DEF FloatInvariant
<1> QED
  BY <1>1, StoreStep DEF SWC1, Step, Meanings

LEMMA OtherInstruction == ASSUME FloatInvariant, NEW c \in CPUs, Other(c) PROVE FloatInvariant'
<1>1. UNCHANGED <<user, memory, meant>> /\ ExecOther(c) /\ FloatTypes
  BY DEF Other, Step, FloatInvariant
<1>2. LoadTypes' /\ \A r \in Regs : Settles(r)' = Settles(r)
  BY <1>1, OtherKeeps
<1>3. FloatTypes'
  BY <1>1, <1>2 DEF FloatTypes, LoadTypes, Meanings, Parts
<1>4. \A q \in Pairs : Complete(q, meant.reg[q])'
  BY <1>1, <1>2, PairFacts DEF FloatInvariant, Complete, Parts, Half
<1> QED
  BY <1>1, <1>3, <1>4 DEF FloatInvariant, Stored, Parts, Half

LEMMA FloatStart == FloatInit => FloatInvariant
<1> SUFFICES ASSUME FloatInit PROVE FloatInvariant
  OBVIOUS
<1>1. FloatTypes
  BY LoadAssumption DEF FloatInit, Init, FloatTypes, TypeOK, Meanings
<1> QED
  BY <1>1 DEF FloatInit, FloatInvariant, Complete, Stored

LEMMA FloatSteps == FloatInvariant /\ [FloatNext]_floatVars => FloatInvariant'
<1> SUFFICES ASSUME FloatInvariant, [FloatNext]_floatVars PROVE FloatInvariant'
  OBVIOUS
<1>1. CASE UNCHANGED floatVars
  BY <1>1 DEF floatVars, vars, FloatInvariant, FloatTypes, TypeOK, Complete, Stored, Settles, Lands, Meanings, Parts, Half
<1>2. CASE FloatNext
  BY <1>2, WriteDoubleStep, MoveStep, LoadDoubleStep, StoreDoubleStep, WriteWordStep, LoadWordStep, StoreWordStep,
     OtherInstruction DEF FloatNext
<1> QED
  BY <1>1, <1>2

(* However the words of doubles are computed, moved, stored and loaded, and  *)
(* whichever CPUs run between, no double is mixed with another's words      *)
(* (FPR_D, SET_FPR_D, LDC1 and SDC1), on every CPU without delayed loads;   *)
(* on one with them, none that did not come through an LDC1.                *)
THEOREM DoublesTheorem == FloatSpec => []DoublesStayWhole
<1>1. FloatInvariant => DoublesStayWhole
  BY DEF FloatInvariant, DoublesStayWhole, Complete, Stored, InPair, InWords
<1> QED
  BY <1>1, FloatStart, FloatSteps, PTL DEF FloatSpec

=============================================================================
