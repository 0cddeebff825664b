-------------------------- MODULE DelayedLoadsProofs --------------------------
(***************************************************************************)
(* With at most one CPU that delays its loads the shared shift register is *)
(* as good as one per CPU, for any number of CPUs, registers and values,    *)
(* and the pairs LWL/LWR and SWL/SWR move whole unaligned words through it. *)
(***************************************************************************)
EXTENDS Unaligned, TLAPS

AtMostOneDelayed == \A c, d \in Delayed : c = d

LEMMA UpdateType ==
    ASSUME TypeOK, NEW c \in CPUs
    PROVE  DO_DELAYED_UPDATE(c) \in [CPUs -> [Regs -> Values]]
<1>1. CASE old = NoLoad \/ c \notin Delayed
  BY <1>1 DEF DO_DELAYED_UPDATE, TypeOK
<1>2. CASE old # NoLoad /\ c \in Delayed
  <2>1. old.cpu \in CPUs /\ old.reg \in Regs /\ old.value \in Values
    BY <1>2, LoadAssumption DEF TypeOK, Entry
  <2>2. QED BY <1>2, <2>1 DEF DO_DELAYED_UPDATE, TypeOK
<1>3. QED BY <1>1, <1>2

LEMMA WriteType ==
    ASSUME TypeOK, NEW c \in CPUs, NEW r \in Regs, NEW v \in Values,
           ExecWrite(c, r, v)
    PROVE  TypeOK'
<1>1. R' \in [CPUs -> [Regs -> Values]]
  <2> DEFINE U == DO_DELAYED_UPDATE(c)
  <2>1. U \in [CPUs -> [Regs -> Values]] /\ R' = [U EXCEPT ![c][r] = v]
    BY UpdateType DEF ExecWrite
  <2> HIDE DEF U
  <2>2. QED BY <2>1
<1>2. QED BY <1>1 DEF ExecWrite, Shift, TypeOK

(* The entries always belong to CPUs that delay their loads.                *)
LEMMA TypeInvariant == Spec => []TypeOK
<1>1. Init => TypeOK
  BY LoadAssumption DEF Init, TypeOK
<1>2. TypeOK /\ [Next]_vars => TypeOK'
  <2> SUFFICES ASSUME TypeOK, [Next]_vars
               PROVE  TypeOK'
    OBVIOUS
  <2>1. CASE UNCHANGED vars
    BY <2>1 DEF vars, TypeOK
  <2>2. ASSUME NEW c \in CPUs, ExecOther(c)
        PROVE  TypeOK'
    BY <2>2, UpdateType DEF ExecOther, Shift, TypeOK
  <2>3. ASSUME NEW c \in CPUs, NEW r \in Regs, NEW v \in Values, ExecLoad(c, r, v)
        PROVE  TypeOK'
    <3>1. CASE c \in Delayed
      <4>1. [cpu |-> c, reg |-> r, value |-> v] \in Entry
        BY <3>1 DEF Entry
      <4>2. QED BY <2>3, <3>1, <4>1, UpdateType DEF ExecLoad, Shift, TypeOK
    <3>2. CASE c \notin Delayed
      BY <2>3, <3>2, WriteType DEF ExecLoad
    <3>3. QED BY <3>1, <3>2
  <2>4. QED BY <2>1, <2>2, <2>3, WriteType DEF Next, run_spim
<1>3. QED BY <1>1, <1>2, PTL DEF Spec

loading == [c \in CPUs |-> Of(new, c)]
landing == [c \in CPUs |-> Of(old, c)]

(* An entry belongs to the CPU that steps, or that CPU does not delay.      *)
LEMMA EntryOf ==
    ASSUME AtMostOneDelayed, NEW entry \in Entry \cup {NoLoad}, NEW c \in CPUs
    PROVE  /\ c \notin Delayed => Of(entry, c) = NoLoad
           /\ c \in Delayed => \A d \in CPUs \ {c} : Of(entry, d) = NoLoad
           /\ c \in Delayed /\ entry # NoLoad =>
                 /\ entry.cpu = c
                 /\ Of(entry, c) = [reg |-> entry.reg, value |-> entry.value]
                 /\ Of(entry, c) # NoLoad
                 /\ entry.reg \in Regs /\ entry.value \in Values
           /\ Of(NoLoad, c) = NoLoad
BY LoadAssumption DEF AtMostOneDelayed, Entry, Of

(* What DO_DELAYED_UPDATE writes is the stepping CPU's own landing load.    *)
LEMMA UpdateLands ==
    ASSUME AtMostOneDelayed, TypeOK, NEW c \in CPUs
    PROVE  DO_DELAYED_UPDATE(c) = [R EXCEPT ![c] = Pipeline!Landed(c)]
<1>1. landing[c] = Of(old, c)
  BY DEF landing
<1>2. Pipeline!Landed(c) =
         IF landing[c] = NoLoad THEN R[c]
         ELSE [R[c] EXCEPT ![landing[c].reg] = landing[c].value]
  BY DEF Pipeline!Landed, landing
<1>3. CASE c \notin Delayed \/ old = NoLoad
  <2>1. landing[c] = NoLoad
    BY <1>1, <1>3, EntryOf DEF TypeOK
  <2>2. QED BY <1>2, <1>3, <2>1 DEF DO_DELAYED_UPDATE, TypeOK
<1>4. CASE c \in Delayed /\ old # NoLoad
  <2>1. /\ old.cpu = c /\ landing[c] # NoLoad
        /\ landing[c].reg = old.reg /\ landing[c].value = old.value
    BY <1>1, <1>4, EntryOf DEF TypeOK
  <2>2. QED BY <1>2, <1>4, <2>1 DEF DO_DELAYED_UPDATE, TypeOK
<1>5. QED BY <1>3, <1>4

(* Shifting the shared entries shifts the pipeline of the stepping CPU.     *)
LEMMA ShiftAdvances ==
    ASSUME AtMostOneDelayed, TypeOK, TypeOK', NEW c \in CPUs, NEW load,
           Shift(c, load)
    PROVE  /\ loading' = [loading EXCEPT ![c] = IF c \in Delayed THEN Of(load, c)
                                                ELSE NoLoad]
           /\ landing' = [landing EXCEPT ![c] = loading[c]]
<1>1. CASE c \in Delayed
  <2>1. old' = new /\ new' = load
    BY <1>1 DEF Shift
  <2>2. \A d \in CPUs \ {c} : /\ Of(old, d) = NoLoad /\ Of(old', d) = NoLoad
                              /\ Of(new, d) = NoLoad /\ Of(new', d) = NoLoad
    BY <1>1, EntryOf DEF TypeOK
  <2>3. /\ loading' = [d \in CPUs |-> Of(new', d)]
        /\ landing' = [d \in CPUs |-> Of(old', d)]
    BY DEF loading, landing
  <2>4. QED BY <1>1, <2>1, <2>2, <2>3 DEF loading, landing
<1>2. CASE c \notin Delayed
  <2>1. old' = old /\ new' = new
    BY <1>2 DEF Shift
  <2>2. Of(old, c) = NoLoad /\ Of(new, c) = NoLoad
    BY <1>2, EntryOf DEF TypeOK
  <2>3. loading' = loading /\ landing' = landing
    BY <2>1 DEF loading, landing, Of
  <2>4. QED BY <1>2, <2>2, <2>3 DEF loading, landing
<1>3. QED BY <1>1, <1>2

(* With one delaying CPU at most, every step of run_spim is an instruction of *)
(* its own CPU's pipeline: the engine may interleave CPUs that do not delay  *)
(* their loads with it as it likes.                                         *)
THEOREM OneDelayedCPU ==
    ASSUME AtMostOneDelayed
    PROVE  Spec => LoadsAreDelayed
<1>1. Init => Pipeline!Init
  BY DEF Init, Pipeline!Init, Of
<1>2. TypeOK /\ TypeOK' /\ [Next]_vars => [Pipeline!Next]_<<R, loading, landing>>
  <2> SUFFICES ASSUME TypeOK, TypeOK', [Next]_vars
               PROVE  [Pipeline!Next]_<<R, loading, landing>>
    OBVIOUS
  <2>1. CASE UNCHANGED vars
    BY <2>1 DEF vars, loading, landing, Of
  <2>2. ASSUME NEW c \in CPUs, NEW load, Shift(c, load),
               NEW registers, R' = [R EXCEPT ![c] = registers]
        PROVE  Pipeline!Advance(c, IF c \in Delayed THEN Of(load, c) ELSE NoLoad,
                                registers)
    BY <2>2, ShiftAdvances DEF Pipeline!Advance, loading, landing
  <2>3. ASSUME NEW c \in CPUs, ExecOther(c)
        PROVE  Pipeline!Next
    <3>1. Pipeline!Advance(c, NoLoad, Pipeline!Landed(c))
      BY <2>2, <2>3, UpdateLands, EntryOf DEF ExecOther
    <3>2. QED BY <3>1 DEF Pipeline!Next, Pipeline!Instruction
  <2>4. ASSUME NEW c \in CPUs, NEW r \in Regs, NEW v \in Values, ExecWrite(c, r, v)
        PROVE  Pipeline!Next
    <3> DEFINE landed == Pipeline!Landed(c)
    <3>1. R' = [[R EXCEPT ![c] = landed] EXCEPT ![c][r] = v] /\ Shift(c, NoLoad)
      BY <2>4, UpdateLands DEF ExecWrite
    <3> DEFINE written == [landed EXCEPT ![r] = v]
    <3>2. R' = [R EXCEPT ![c] = written]
      <4>1. R \in [CPUs -> [Regs -> Values]]
        BY DEF TypeOK
      <4> HIDE DEF landed
      <4>2. [R EXCEPT ![c] = landed][c] = landed
        BY <4>1
      <4>3. R' = [[R EXCEPT ![c] = landed] EXCEPT ![c] = written]
        BY <3>1, <4>2
      <4> HIDE DEF written
      <4>4. QED BY <4>1, <4>3
    <3>3. Pipeline!Advance(c, NoLoad, written)
      <4> DEFINE load == IF c \in Delayed THEN Of(NoLoad, c) ELSE NoLoad
      <4>1. load = NoLoad
        BY DEF Of
      <4>2. Shift(c, NoLoad)
        BY <3>1
      <4> HIDE DEF written
      <4>3. Pipeline!Advance(c, load, written)
        BY <2>2, <3>2, <4>2, Zenon
      <4> HIDE DEF load
      <4>4. QED BY <4>1, <4>3, Zenon
    <3>4. QED BY <3>3 DEF Pipeline!Next, Pipeline!Instruction
  <2>5. ASSUME NEW c \in CPUs, NEW r \in Regs, NEW v \in Values, ExecLoad(c, r, v)
        PROVE  Pipeline!Next
    <3>1. CASE c \in Delayed
      <4> DEFINE entry == [cpu |-> c, reg |-> r, value |-> v]
                 load == [reg |-> r, value |-> v]
      <4>1. R' = [R EXCEPT ![c] = Pipeline!Landed(c)] /\ Shift(c, entry)
        BY <2>5, <3>1, UpdateLands DEF ExecLoad
      <4>2. entry \in Entry /\ Of(entry, c) = load /\ load \in Pipeline!Load
        BY <3>1, LoadAssumption DEF Entry, Of, Pipeline!Load
      <4> HIDE DEF entry, load
      <4>3. Pipeline!Advance(c, load, Pipeline!Landed(c))
        BY <2>2, <3>1, <4>1, <4>2
      <4>4. QED BY <3>1, <4>2, <4>3 DEF Pipeline!Next, Pipeline!Instruction
    <3>2. CASE c \notin Delayed
      BY <2>4, <2>5, <3>2 DEF ExecLoad
    <3>3. QED BY <3>1, <3>2
  <2>6. QED BY <2>1, <2>3, <2>4, <2>5 DEF Next, run_spim
<1>3. QED
  BY <1>1, <1>2, TypeInvariant, PTL
  DEF Spec, LoadsAreDelayed, Pipeline!Spec, Pipeline!pvars, loading, landing


-----------------------------------------------------------------------------
(* LWL, LWR, SWL and SWR on top of the delayed loads.                       *)
Builds == [big : BOOLEAN, fails : BOOLEAN]

(* The bytes of the pair's word that its left, and its right, instruction    *)
(* moves.                                                                  *)
LeftPart == {i \in 0 .. 3 : AddressOf(i) \div 4 = LeftEnd(pair.addr) \div 4}
RightPart == {i \in 0 .. 3 : AddressOf(i) \div 4 = RightEnd(pair.addr) \div 4}

LEMMA Division ==
    ASSUME NEW a \in Int
    PROVE  a \div 4 \in Int /\ a % 4 \in 0 .. 3 /\ a = 4 * (a \div 4) + (a % 4)
OBVIOUS

LEMMA Quotient ==
    ASSUME NEW q \in Int, NEW r \in 0 .. 3
    PROVE  (4 * q + r) \div 4 = q /\ (4 * q + r) % 4 = r
OBVIOUS

(* Where byte i is, from the address of the instruction's own byte.         *)
LEMMA LeftPlace ==
    ASSUME build \in Builds, pair.addr \in Nat
    PROVE  LET a == LeftEnd(pair.addr)
               s == ShiftOfLeft(a)
           IN  /\ a \in Nat /\ s \in 0 .. 3 /\ a = AddressOf(3)
               /\ \A i \in 0 .. 3 : /\ AddressOf(i) \in Nat
                                    /\ i \in LeftPart <=> i >= s
                                    /\ i >= s => Place(AddressOf(i)) = i - s
<1> DEFINE p == pair.addr
           a == LeftEnd(p)
           q == a \div 4
           m == a % 4
           s == ShiftOfLeft(a)
<1>1. a \in Nat /\ a = AddressOf(3) /\ a = IF build.big THEN p ELSE p + 3
  BY DEF LeftEnd, AddressOf
<1>2. q \in Int /\ m \in 0 .. 3 /\ a = 4 * q + m /\ s = IF build.big THEN m ELSE 3 - m
  BY <1>1, Division DEF ShiftOfLeft
<1> HIDE DEF a, q, m, s
<1>3. s \in 0 .. 3
  BY <1>2
<1>4. ASSUME NEW i \in 0 .. 3
      PROVE  /\ AddressOf(i) \in Nat
             /\ AddressOf(i) \div 4 = q <=> i >= s
             /\ i >= s => Place(AddressOf(i)) = i - s
  <2> DEFINE b == AddressOf(i)
  <2>1. b \in Nat /\ b = IF build.big THEN a + 3 - i ELSE a - 3 + i
    BY <1>1 DEF AddressOf
  <2>2. CASE build.big /\ i >= s
    <3>1. b = 4 * q + (m + 3 - i) /\ m + 3 - i \in 0 .. 3
      BY <1>2, <2>1, <2>2
    <3> HIDE DEF b
    <3>2. b \div 4 = q /\ b % 4 = m + 3 - i
      BY <1>2, <3>1, Quotient
    <3> QED
      BY <1>2, <2>1, <2>2, <3>2 DEF Place, b
  <2>3. CASE build.big /\ ~(i >= s)
    <3>1. b = 4 * (q + 1) + (m - 1 - i) /\ m - 1 - i \in 0 .. 3
      BY <1>2, <2>1, <2>3
    <3> HIDE DEF b
    <3>2. b \div 4 = q + 1
      BY <1>2, <3>1, Quotient
    <3> QED
      BY <1>2, <2>1, <2>3, <3>2 DEF b
  <2>4. CASE ~build.big /\ i >= s
    <3>1. b = 4 * q + (m - 3 + i) /\ m - 3 + i \in 0 .. 3
      BY <1>2, <2>1, <2>4
    <3> HIDE DEF b
    <3>2. b \div 4 = q /\ b % 4 = m - 3 + i
      BY <1>2, <3>1, Quotient
    <3> QED
      BY <1>2, <2>1, <2>4, <3>2 DEF Place, b
  <2>5. CASE ~build.big /\ ~(i >= s)
    <3>1. b = 4 * (q - 1) + (m + 1 + i) /\ m + 1 + i \in 0 .. 3
      BY <1>2, <2>1, <2>5
    <3> HIDE DEF b
    <3>2. b \div 4 = q - 1
      BY <1>2, <3>1, Quotient
    <3> QED
      BY <1>2, <2>1, <2>5, <3>2 DEF b
  <2> QED
    BY <2>2, <2>3, <2>4, <2>5
<1> QED
  BY <1>1, <1>3, <1>4 DEF LeftPart, a, q, s

LEMMA RightPlace ==
    ASSUME build \in Builds, pair.addr \in Nat
    PROVE  LET a == RightEnd(pair.addr)
               s == ShiftOfRight(a)
           IN  /\ a \in Nat /\ s \in 0 .. 3 /\ a = AddressOf(0)
               /\ \A i \in 0 .. 3 : /\ i \in RightPart <=> i + s <= 3
                                    /\ i + s <= 3 => Place(AddressOf(i)) = i + s
<1> DEFINE p == pair.addr
           a == RightEnd(p)
           q == a \div 4
           m == a % 4
           s == ShiftOfRight(a)
<1>1. a \in Nat /\ a = AddressOf(0) /\ a = IF build.big THEN p + 3 ELSE p
  BY DEF RightEnd, AddressOf
<1>2. q \in Int /\ m \in 0 .. 3 /\ a = 4 * q + m /\ s = IF build.big THEN 3 - m ELSE m
  <2>1. q \in Int /\ m \in 0 .. 3 /\ a = 4 * q + m
    <3> HIDE DEF a
    <3> QED
      BY <1>1, Division
  <2>2. s = IF build.big THEN 3 - m ELSE 3 - (3 - m)
    BY DEF ShiftOfLeft, ShiftOfRight
  <2> HIDE DEF m, s, a, q
  <2> QED
    BY <2>1, <2>2
<1> HIDE DEF a, q, m, s
<1>3. s \in 0 .. 3
  BY <1>2
<1>4. ASSUME NEW i \in 0 .. 3
      PROVE  /\ AddressOf(i) \div 4 = q <=> i + s <= 3
             /\ i + s <= 3 => Place(AddressOf(i)) = i + s
  <2> DEFINE b == AddressOf(i)
  <2>1. b \in Nat /\ b = IF build.big THEN a - i ELSE a + i
    BY <1>1 DEF AddressOf
  <2>2. CASE build.big /\ i + s <= 3
    <3>1. b = 4 * q + (m - i) /\ m - i \in 0 .. 3
      BY <1>2, <2>1, <2>2
    <3> HIDE DEF b
    <3>2. b \div 4 = q /\ b % 4 = m - i
      BY <1>2, <3>1, Quotient
    <3> QED
      BY <1>2, <2>1, <2>2, <3>2 DEF Place, b
  <2>3. CASE build.big /\ ~(i + s <= 3)
    <3>1. b = 4 * (q - 1) + (m + 4 - i) /\ m + 4 - i \in 0 .. 3
      BY <1>2, <2>1, <2>3
    <3> HIDE DEF b
    <3>2. b \div 4 = q - 1
      BY <1>2, <3>1, Quotient
    <3> QED
      BY <1>2, <2>1, <2>3, <3>2 DEF b
  <2>4. CASE ~build.big /\ i + s <= 3
    <3>1. b = 4 * q + (m + i) /\ m + i \in 0 .. 3
      BY <1>2, <2>1, <2>4
    <3> HIDE DEF b
    <3>2. b \div 4 = q /\ b % 4 = m + i
      BY <1>2, <3>1, Quotient
    <3> QED
      BY <1>2, <2>1, <2>4, <3>2 DEF Place, b
  <2>5. CASE ~build.big /\ ~(i + s <= 3)
    <3>1. b = 4 * (q + 1) + (m + i - 4) /\ m + i - 4 \in 0 .. 3
      BY <1>2, <2>1, <2>5
    <3> HIDE DEF b
    <3>2. b \div 4 = q + 1
      BY <1>2, <3>1, Quotient
    <3> QED
      BY <1>2, <2>1, <2>5, <3>2 DEF b
  <2> QED
    BY <2>2, <2>3, <2>4, <2>5
<1> QED
  BY <1>1, <1>3, <1>4 DEF RightPart, a, q, s

(* Between them the two instructions reach every byte.                      *)
LEMMA BothParts ==
    ASSUME build \in Builds, pair.addr \in Nat
    PROVE  \A i \in 0 .. 3 : i \in LeftPart \/ i \in RightPart
<1> DEFINE p == pair.addr
           q == p \div 4
           m == p % 4
<1>1. q \in Int /\ m \in 0 .. 3 /\ p = 4 * q + m
  BY Division
<1>2. \A j \in 0 .. 3 : (p + j) \div 4 = IF m + j <= 3 THEN q ELSE q + 1
  <2> SUFFICES ASSUME NEW j \in 0 .. 3 PROVE (p + j) \div 4 = IF m + j <= 3 THEN q ELSE q + 1
    OBVIOUS
  <2> HIDE DEF q, m, p
  <2>1. CASE m + j <= 3
    <3>1. p + j = 4 * q + (m + j) /\ m + j \in 0 .. 3
      BY <1>1, <2>1
    <3> QED
      BY <1>1, <2>1, <3>1, Quotient
  <2>2. CASE ~(m + j <= 3)
    <3>1. p + j = 4 * (q + 1) + (m + j - 4) /\ m + j - 4 \in 0 .. 3 /\ q + 1 \in Int
      BY <1>1, <2>2
    <3> QED
      BY <2>2, <3>1, Quotient
  <2> QED
    BY <2>1, <2>2
<1>3. ASSUME NEW i \in 0 .. 3 PROVE i \in LeftPart \/ i \in RightPart
  <2> DEFINE j == IF build.big THEN 3 - i ELSE i
  <2>1. j \in 0 .. 3 /\ AddressOf(i) = p + j /\ LeftEnd(p) = (IF build.big THEN p + 0 ELSE p + 3)
        /\ RightEnd(p) = (IF build.big THEN p + 3 ELSE p + 0)
    BY DEF AddressOf, LeftEnd, RightEnd
  <2> HIDE DEF j, q, m, p
  <2>2. /\ AddressOf(i) \div 4 \in {(p + 0) \div 4, (p + 3) \div 4}
        /\ {LeftEnd(p) \div 4, RightEnd(p) \div 4} = {(p + 0) \div 4, (p + 3) \div 4}
    BY <1>1, <1>2, <2>1
  <2> QED
    BY <2>2 DEF LeftPart, RightPart, p
<1> QED
  BY <1>3

(* Two bytes of one place of one word are one.                             *)
LEMMA PlaceOnce ==
    ASSUME build \in Builds, NEW a \in Nat, NEW b \in Nat, a \div 4 = b \div 4, Place(a) = Place(b)
    PROVE  a = b
<1>1. a \div 4 \in Int /\ a % 4 \in 0 .. 3 /\ a = 4 * (a \div 4) + (a % 4)
  BY Division
<1>2. b \div 4 \in Int /\ b % 4 \in 0 .. 3 /\ b = 4 * (b \div 4) + (b % 4)
  BY Division
<1>3. a % 4 = b % 4
  BY <1>1, <1>2 DEF Place
<1> QED
  BY <1>1, <1>2, <1>3

LEMMA PlaceType ==
    ASSUME build \in Builds, NEW a \in Nat
    PROVE  Place(a) \in 0 .. 3 /\ a \div 4 \in Nat
<1>1. a \div 4 \in Int /\ a % 4 \in 0 .. 3 /\ a = 4 * (a \div 4) + (a % 4)
  BY Division
<1> QED
  BY <1>1 DEF Place

Pending == [cpu : {cpu}, reg : {Rt}, value : Word]
Ops == {"none", "ulw", "usw"}

(* What the register holds when the loads on their way have landed.         *)
Landed == IF new # NoLoad THEN new.value ELSE IF old # NoLoad THEN old.value ELSE R[cpu][Rt]

(* The register after LWL alone, and after the pair: when the two loads are  *)
(* not separated, LWR merges with the register as it was before LWL.        *)
FromLeft == [i \in 0 .. 3 |-> IF i \in LeftPart THEN MemByte(mem, AddressOf(i)) ELSE pair.reg[i]]
Early == cpu \in Delayed /\ pair.gap = 0
FromBoth == [i \in 0 .. 3 |-> IF Early /\ i \notin RightPart THEN pair.reg[i] ELSE MemByte(mem, AddressOf(i))]

PairTypes ==
    /\ cpu \in CPUs /\ build \in Builds
    /\ R \in [CPUs -> [Regs -> Word]]
    /\ new \in Pending \cup {NoLoad} /\ old \in Pending \cup {NoLoad}
    /\ cpu \notin Delayed => Settled
    /\ mem \in [DOMAIN Memory -> Word]
    /\ pair.op \in Ops /\ pair.addr \in Nat /\ pair.gap \in Nat /\ pair.count \in Nat
    /\ pair.step \in {"left", "right", "done", "fault"}
    /\ pair.reg \in Word /\ pair.mem \in [DOMAIN Memory -> Word]
    /\ pair = [op |-> pair.op, addr |-> pair.addr, step |-> pair.step, gap |-> pair.gap,
               reg |-> pair.reg, mem |-> pair.mem, count |-> pair.count]
    /\ pair.step \in {"left", "right"} => pair.op # "none"
    /\ pair.step = "right" => Mapped(LeftEnd(pair.addr))
    /\ pair.step = "done" /\ pair.op # "none" => Mapped(LeftEnd(pair.addr)) /\ Mapped(RightEnd(pair.addr))

Loading ==
    /\ mem = pair.mem
    /\ pair.op = "ulw" =>
         /\ pair.step = "left" => Settled /\ R[cpu][Rt] = pair.reg
         /\ pair.step = "right" =>
              /\ Landed = FromLeft
              /\ IF Early THEN old = NoLoad /\ R[cpu][Rt] = pair.reg ELSE new = NoLoad
         /\ pair.step = "done" => Landed = FromBoth

Kept(a) == MemByte(mem, a) = MemByte(pair.mem, a)
Holds(i) == MemByte(mem, AddressOf(i)) = pair.reg[i]

Storing ==
    /\ Settled /\ R[cpu][Rt] = pair.reg
    /\ \A a \in MappedBytes : Outside(a) => Kept(a)
    /\ \A i \in Inside : Kept(AddressOf(i)) \/ Holds(i)
    /\ pair.step = "right" => \A i \in LeftPart : Holds(i)
    /\ pair.step = "done" => \A i \in 0 .. 3 : Holds(i)

PairInvariant == PairTypes /\ IF pair.op = "usw" THEN Storing ELSE Loading

(* What the invariant says when no pair is being executed.                  *)
LEMMA PairMeansWords == PairInvariant => UnalignedWordsMove /\ BytesKeepTheirPlace
<1> SUFFICES ASSUME PairInvariant PROVE UnalignedWordsMove /\ BytesKeepTheirPlace
  OBVIOUS
<1>1. BytesKeepTheirPlace
  <2>1. CASE pair.op = "usw"
    BY <2>1 DEF PairInvariant, Storing, BytesKeepTheirPlace, Kept, Holds
  <2>2. CASE pair.op # "usw"
    BY <2>2 DEF PairInvariant, Loading, BytesKeepTheirPlace
  <2> QED
    BY <2>1, <2>2
<1>2. ASSUME pair.op # "none", pair.step = "done", Settled
      PROVE  /\ pair.op = "ulw" =>
                  \A i \in 0 .. 3 : R[cpu][Rt][i] =
                      IF Early /\ i \notin RightPart THEN pair.reg[i] ELSE MemByte(mem, AddressOf(i))
             /\ pair.op = "usw" => \A i \in 0 .. 3 : MemByte(mem, AddressOf(i)) = pair.reg[i]
  <2>1. CASE pair.op = "usw"
    BY <1>2, <2>1 DEF PairInvariant, Storing, Holds
  <2>2. CASE pair.op = "ulw"
    <3>1. R[cpu][Rt] = FromBoth
      BY <1>2, <2>2 DEF PairInvariant, Loading, Landed, Settled
    <3> QED
      BY <2>2, <3>1 DEF FromBoth
  <2> QED
    BY <2>1, <2>2
<1>3. UnalignedWordsMove
  BY <1>2 DEF UnalignedWordsMove, Early, RightPart
<1> QED
  BY <1>1, <1>3

(* The delayed loads under a pair.                                          *)
LEMMA UpdateFact ==
    ASSUME PairTypes
    PROVE  LET U == DO_DELAYED_UPDATE(cpu)
           IN  /\ U \in [CPUs -> [Regs -> Word]]
               /\ U[cpu][Rt] = IF old # NoLoad THEN old.value ELSE R[cpu][Rt]
               /\ old = NoLoad => U = R
<1>1. /\ R \in [CPUs -> [Regs -> Word]] /\ cpu \in CPUs /\ Rt \in Regs
      /\ old # NoLoad => cpu \in Delayed /\ old.cpu = cpu /\ old.reg = Rt /\ old.value \in Word
  BY UnalignedAssumption DEF PairTypes, Pending, Settled
<1>2. CASE old = NoLoad
  BY <1>1, <1>2 DEF DO_DELAYED_UPDATE
<1>3. CASE old # NoLoad
  <2>1. DO_DELAYED_UPDATE(cpu) = [R EXCEPT ![cpu][Rt] = old.value]
    BY <1>1, <1>3 DEF DO_DELAYED_UPDATE
  <2> QED
    BY <1>1, <1>3, <2>1
<1> QED
  BY <1>2, <1>3

SlotTypes ==
    /\ R \in [CPUs -> [Regs -> Word]] /\ new \in Pending \cup {NoLoad} /\ old \in Pending \cup {NoLoad}
    /\ cpu \notin Delayed => Settled

LEMMA PendingFact ==
    ASSUME cpu \in CPUs, NEW v \in Word
    PROVE  LET e == [cpu |-> cpu, reg |-> Rt, value |-> v]
           IN  e \in Pending /\ e # NoLoad /\ e.value = v
BY UnalignedAssumption DEF Pending

LEMMA LoadStep ==
    ASSUME PairTypes, NEW v \in Word, ExecLoad(cpu, Rt, v), UNCHANGED cpu
    PROVE  /\ SlotTypes' /\ Landed' = v
           /\ cpu \in Delayed => old' = new /\ R'[cpu][Rt] = RegisterSeen /\ (old = NoLoad => R' = R)
<1> DEFINE U == DO_DELAYED_UPDATE(cpu)
           e == [cpu |-> cpu, reg |-> Rt, value |-> v]
<1>1. /\ U \in [CPUs -> [Regs -> Word]] /\ (old = NoLoad => U = R) /\ RegisterSeen = U[cpu][Rt]
      /\ cpu \in CPUs /\ Rt \in Regs /\ new \in Pending \cup {NoLoad}
  BY UpdateFact, UnalignedAssumption DEF PairTypes, RegisterSeen
<1>2. e \in Pending /\ e # NoLoad /\ e.value = v
  BY <1>1, PendingFact
<1>3. CASE cpu \in Delayed
  <2>1. R' = U /\ old' = new /\ new' = e
    BY <1>3 DEF ExecLoad, Shift
  <2> HIDE DEF U, e
  <2> QED
    BY <1>1, <1>2, <1>3, <2>1 DEF SlotTypes, Landed, Pending
<1>4. CASE cpu \notin Delayed
  <2>1. R' = [U EXCEPT ![cpu][Rt] = v] /\ new' = new /\ old' = old
    BY <1>4 DEF ExecLoad, ExecWrite, Shift
  <2>2. new = NoLoad /\ old = NoLoad
    BY <1>4 DEF PairTypes, Settled
  <2> HIDE DEF U, e
  <2>3. R' \in [CPUs -> [Regs -> Word]] /\ R'[cpu][Rt] = v
    BY <1>1, <2>1
  <2> QED
    BY <1>4, <2>1, <2>2, <2>3 DEF SlotTypes, Landed, Settled
<1> QED
  BY <1>3, <1>4

LEMMA OtherStep ==
    ASSUME AtMostOneDelayed, PairTypes, NEW c \in CPUs, ExecOther(c), UNCHANGED cpu
    PROVE  /\ SlotTypes' /\ Landed' = Landed
           /\ c = cpu => new' = NoLoad
           /\ c # cpu \/ Settled => UNCHANGED vars
<1> DEFINE U == DO_DELAYED_UPDATE(cpu)
<1>1. /\ U \in [CPUs -> [Regs -> Word]] /\ (old = NoLoad => U = R)
      /\ U[cpu][Rt] = IF old # NoLoad THEN old.value ELSE R[cpu][Rt]
      /\ SlotTypes
  BY UpdateFact DEF PairTypes, SlotTypes
<1>2. CASE Settled
  <2>1. UNCHANGED vars
    BY <1>2 DEF Settled, ExecOther, DO_DELAYED_UPDATE, Shift, vars
  <2> QED
    BY <1>1, <1>2, <2>1 DEF vars, SlotTypes, Landed, Pending, Settled
<1>3. CASE ~Settled /\ c # cpu
  <2>1. c \notin Delayed
    BY <1>1, <1>3 DEF SlotTypes, AtMostOneDelayed
  <2>2. UNCHANGED vars
    BY <2>1 DEF ExecOther, DO_DELAYED_UPDATE, Shift, vars
  <2> QED
    BY <1>1, <1>3, <2>2 DEF vars, SlotTypes, Landed, Pending, Settled
<1>4. CASE ~Settled /\ c = cpu
  <2>1. cpu \in Delayed
    BY <1>1, <1>4 DEF SlotTypes
  <2>2. R' = U /\ old' = new /\ new' = NoLoad
    BY <1>4, <2>1 DEF ExecOther, Shift
  <2> HIDE DEF U
  <2> QED
    BY <1>1, <1>4, <2>1, <2>2 DEF SlotTypes, Landed, Pending
<1> QED
  BY <1>2, <1>3, <1>4

(* What the parts of a pair load.                                          *)
LEMMA ShiftTypes ==
    ASSUME NEW x \in Word, NEW y \in Word, NEW s \in 0 .. 3
    PROVE  ShiftedUp(x, y, s) \in Word /\ ShiftedDown(x, y, s) \in Word
<1>1. \A i \in 0 .. 3 : i >= s => i - s \in 0 .. 3
  OBVIOUS
<1>2. \A i \in 0 .. 3 : i + s <= 3 => i + s \in 0 .. 3
  OBVIOUS
<1> QED
  BY <1>1, <1>2 DEF Word, ShiftedUp, ShiftedDown

LEMMA ReadType ==
    ASSUME PairTypes, NEW a
    PROVE  read_mem_word(a) \in Word /\ ZeroWord \in Word
<1>1. ZeroWord \in Word
  BY DEF ZeroWord, Word, Byte
<1>2. Mapped(a) => mem[a \div 4] \in Word
  BY DEF Mapped, PairTypes
<1> QED
  BY <1>1, <1>2 DEF read_mem_word

LEMMA LeftWord ==
    ASSUME PairTypes, Mapped(LeftEnd(pair.addr)), NEW w \in Word
    PROVE  ShiftedUp(read_mem_word(LeftEnd(pair.addr)), w, ShiftOfLeft(LeftEnd(pair.addr)))
              = [i \in 0 .. 3 |-> IF i \in LeftPart THEN MemByte(mem, AddressOf(i)) ELSE w[i]]
<1> DEFINE a == LeftEnd(pair.addr)
           s == ShiftOfLeft(a)
<1>1. \A i \in 0 .. 3 : (i \in LeftPart <=> i >= s) /\ (i >= s => Place(AddressOf(i)) = i - s)
  BY LeftPlace DEF PairTypes
<1>2. read_mem_word(a) = mem[a \div 4]
  BY DEF read_mem_word
<1>3. \A i \in LeftPart : AddressOf(i) \div 4 = a \div 4
  BY DEF LeftPart
<1> HIDE DEF a, s
<1>4. \A i \in 0 .. 3 : i >= s => MemByte(mem, AddressOf(i)) = mem[a \div 4][i - s]
  BY <1>1, <1>3 DEF MemByte
<1>5. ShiftedUp(mem[a \div 4], w, s) = [i \in 0 .. 3 |-> IF i >= s THEN mem[a \div 4][i - s] ELSE w[i]]
  BY DEF ShiftedUp
<1>6. ShiftedUp(mem[a \div 4], w, s) = [i \in 0 .. 3 |-> IF i \in LeftPart THEN MemByte(mem, AddressOf(i)) ELSE w[i]]
  BY <1>1, <1>4, <1>5
<1> QED
  BY <1>2, <1>6 DEF a, s

LEMMA RightWord ==
    ASSUME PairTypes, Mapped(RightEnd(pair.addr)), NEW w \in Word
    PROVE  ShiftedDown(read_mem_word(RightEnd(pair.addr)), w, ShiftOfRight(RightEnd(pair.addr)))
              = [i \in 0 .. 3 |-> IF i \in RightPart THEN MemByte(mem, AddressOf(i)) ELSE w[i]]
<1> DEFINE a == RightEnd(pair.addr)
           s == ShiftOfRight(a)
<1>1. \A i \in 0 .. 3 : (i \in RightPart <=> i + s <= 3) /\ (i + s <= 3 => Place(AddressOf(i)) = i + s)
  BY RightPlace DEF PairTypes
<1>2. read_mem_word(a) = mem[a \div 4]
  BY DEF read_mem_word
<1>3. \A i \in RightPart : AddressOf(i) \div 4 = a \div 4
  BY DEF RightPart
<1> HIDE DEF a, s
<1>4. \A i \in 0 .. 3 : i + s <= 3 => MemByte(mem, AddressOf(i)) = mem[a \div 4][i + s]
  BY <1>1, <1>3 DEF MemByte
<1>5. ShiftedDown(mem[a \div 4], w, s) = [i \in 0 .. 3 |-> IF i + s <= 3 THEN mem[a \div 4][i + s] ELSE w[i]]
  BY DEF ShiftedDown
<1>6. ShiftedDown(mem[a \div 4], w, s) = [i \in 0 .. 3 |-> IF i \in RightPart THEN MemByte(mem, AddressOf(i)) ELSE w[i]]
  BY <1>1, <1>4, <1>5
<1> QED
  BY <1>2, <1>6 DEF a, s

(* What they store: the bytes of their part, in their places.               *)
Written(m, part, w) ==
    /\ m \in [DOMAIN Memory -> Word]
    /\ \A i \in part : MemByte(m, AddressOf(i)) = w[i]
    /\ \A a \in Nat : (\A i \in part : a # AddressOf(i)) => MemByte(m, a) = MemByte(mem, a)

LEMMA LeftWritten ==
    ASSUME PairTypes, Mapped(LeftEnd(pair.addr)), NEW w \in Word
    PROVE  LET a == LeftEnd(pair.addr)
           IN  Written([mem EXCEPT ![a \div 4] = ShiftedDown(w, read_mem_word(a), ShiftOfLeft(a))], LeftPart, w)
<1> DEFINE a == LeftEnd(pair.addr)
           s == ShiftOfLeft(a)
           q == a \div 4
           data == ShiftedDown(w, read_mem_word(a), s)
           m == [mem EXCEPT ![q] = data]
<1>1. /\ s \in 0 .. 3 /\ build \in Builds
      /\ \A i \in 0 .. 3 : /\ AddressOf(i) \in Nat /\ (i \in LeftPart <=> i >= s)
                           /\ i >= s => Place(AddressOf(i)) = i - s
  BY LeftPlace DEF PairTypes
<1>2. read_mem_word(a) = mem[q] /\ q \in DOMAIN mem /\ mem \in [DOMAIN Memory -> Word]
  BY DEF read_mem_word, Mapped, PairTypes
<1>3. \A i \in LeftPart : AddressOf(i) \div 4 = q /\ i \in 0 .. 3
  BY DEF LeftPart
<1>4. data \in Word
  BY <1>1, ShiftTypes, ReadType
<1>5. data = [j \in 0 .. 3 |-> IF j + s <= 3 THEN w[j + s] ELSE mem[q][j]]
  BY <1>2 DEF ShiftedDown
<1> HIDE DEF a, s, q, data
<1>6. m \in [DOMAIN Memory -> Word] /\ m[q] = data /\ \A x \in DOMAIN mem \ {q} : m[x] = mem[x]
  BY <1>2, <1>4
<1>a. \A x : x # q => m[x] = mem[x]
  BY <1>2
<1> HIDE DEF m
<1>7. ASSUME NEW i \in LeftPart PROVE MemByte(m, AddressOf(i)) = w[i]
  <2>1. i \in 0 .. 3 /\ i >= s /\ Place(AddressOf(i)) = i - s /\ AddressOf(i) \div 4 = q
    BY <1>1, <1>3
  <2>2. i - s \in 0 .. 3 /\ (i - s) + s = i /\ i <= 3
    BY <1>1, <2>1
  <2>3. data[i - s] = w[i]
    BY <1>5, <2>2
  <2> QED
    BY <1>6, <2>1, <2>3 DEF MemByte
<1>8. ASSUME NEW b \in Nat, \A i \in LeftPart : b # AddressOf(i) PROVE MemByte(m, b) = MemByte(mem, b)
  <2> DEFINE j == Place(b)
  <2>1. j \in 0 .. 3
    BY <1>1, PlaceType
  <2>2. CASE b \div 4 # q
    BY <1>a, <2>2 DEF MemByte
  <2>3. CASE b \div 4 = q
    <3>1. ~(j + s <= 3)
      <4> HIDE DEF j
      <4> SUFFICES ASSUME j + s <= 3 PROVE FALSE
        OBVIOUS
      <4>1. j + s \in 0 .. 3 /\ j + s >= s /\ (j + s) - s = j
        BY <1>1, <2>1
      <4>2. j + s \in LeftPart /\ Place(AddressOf(j + s)) = j /\ AddressOf(j + s) \in Nat
        BY <1>1, <4>1
      <4>3. AddressOf(j + s) \div 4 = b \div 4
        BY <1>3, <2>3, <4>2
      <4>4. AddressOf(j + s) = b
        BY <1>1, <4>2, <4>3, PlaceOnce DEF j
      <4> QED
        BY <1>8, <4>2, <4>4
    <3>2. data[j] = mem[q][j]
      BY <1>5, <2>1, <3>1
    <3> QED
      BY <1>6, <2>3, <3>2 DEF MemByte
  <2> QED
    BY <2>2, <2>3
<1>9. Written(m, LeftPart, w)
  BY <1>6, <1>7, <1>8 DEF Written
<1> QED
  BY <1>9 DEF m, q, data, s, a

LEMMA RightWritten ==
    ASSUME PairTypes, Mapped(RightEnd(pair.addr)), NEW w \in Word
    PROVE  LET a == RightEnd(pair.addr)
           IN  Written([mem EXCEPT ![a \div 4] = ShiftedUp(w, read_mem_word(a), ShiftOfRight(a))], RightPart, w)
<1> DEFINE a == RightEnd(pair.addr)
           s == ShiftOfRight(a)
           q == a \div 4
           data == ShiftedUp(w, read_mem_word(a), s)
           m == [mem EXCEPT ![q] = data]
<1>1. /\ s \in 0 .. 3 /\ build \in Builds
      /\ \A i \in 0 .. 3 : /\ AddressOf(i) \in Nat /\ (i \in RightPart <=> i + s <= 3)
                           /\ i + s <= 3 => Place(AddressOf(i)) = i + s
  BY LeftPlace, RightPlace DEF PairTypes
<1>2. read_mem_word(a) = mem[q] /\ q \in DOMAIN mem /\ mem \in [DOMAIN Memory -> Word]
  BY DEF read_mem_word, Mapped, PairTypes
<1>3. \A i \in RightPart : AddressOf(i) \div 4 = q /\ i \in 0 .. 3
  BY DEF RightPart
<1>4. data \in Word
  BY <1>1, ShiftTypes, ReadType
<1>5. data = [j \in 0 .. 3 |-> IF j >= s THEN w[j - s] ELSE mem[q][j]]
  BY <1>2 DEF ShiftedUp
<1> HIDE DEF a, s, q, data
<1>6. m \in [DOMAIN Memory -> Word] /\ m[q] = data
  BY <1>2, <1>4
<1>a. \A x : x # q => m[x] = mem[x]
  BY <1>2
<1> HIDE DEF m
<1>7. ASSUME NEW i \in RightPart PROVE MemByte(m, AddressOf(i)) = w[i]
  <2>1. i \in 0 .. 3 /\ i + s <= 3 /\ Place(AddressOf(i)) = i + s /\ AddressOf(i) \div 4 = q
    BY <1>1, <1>3
  <2>2. i + s \in 0 .. 3 /\ (i + s) - s = i /\ i + s >= s
    BY <1>1, <2>1
  <2>3. data[i + s] = w[i]
    BY <1>5, <2>2
  <2> QED
    BY <1>6, <2>1, <2>3 DEF MemByte
<1>8. ASSUME NEW b \in Nat, \A i \in RightPart : b # AddressOf(i) PROVE MemByte(m, b) = MemByte(mem, b)
  <2> DEFINE j == Place(b)
  <2>1. j \in 0 .. 3
    BY <1>1, PlaceType
  <2>2. CASE b \div 4 # q
    BY <1>a, <2>2 DEF MemByte
  <2>3. CASE b \div 4 = q
    <3>1. ~(j >= s)
      <4> HIDE DEF j
      <4> SUFFICES ASSUME j >= s PROVE FALSE
        OBVIOUS
      <4>1. j - s \in 0 .. 3 /\ (j - s) + s = j /\ j <= 3
        BY <1>1, <2>1
      <4>2. j - s \in RightPart /\ Place(AddressOf(j - s)) = j /\ AddressOf(j - s) \in Nat
        BY <1>1, <4>1
      <4>3. AddressOf(j - s) \div 4 = b \div 4
        BY <1>3, <2>3, <4>2
      <4>4. AddressOf(j - s) = b
        BY <1>1, <4>2, <4>3, PlaceOnce DEF j
      <4> QED
        BY <1>8, <4>2, <4>4
    <3>2. data[j] = mem[q][j]
      BY <1>5, <2>1, <3>1
    <3> QED
      BY <1>6, <2>3, <3>2 DEF MemByte
  <2> QED
    BY <2>2, <2>3
<1>9. Written(m, RightPart, w)
  BY <1>6, <1>7, <1>8 DEF Written
<1> QED
  BY <1>9 DEF m, q, data, s, a

LEMMA PairSet ==
    ASSUME PairTypes, NEW s, NEW g
    PROVE  /\ [pair EXCEPT !.step = s] = [op |-> pair.op, addr |-> pair.addr, step |-> s, gap |-> pair.gap,
                                          reg |-> pair.reg, mem |-> pair.mem, count |-> pair.count]
           /\ [pair EXCEPT !.gap = g] = [op |-> pair.op, addr |-> pair.addr, step |-> pair.step, gap |-> g,
                                          reg |-> pair.reg, mem |-> pair.mem, count |-> pair.count]
           /\ [pair EXCEPT !.step = s, !.gap = g] = [op |-> pair.op, addr |-> pair.addr, step |-> s, gap |-> g,
                                          reg |-> pair.reg, mem |-> pair.mem, count |-> pair.count]
<1>1. pair = [op |-> pair.op, addr |-> pair.addr, step |-> pair.step, gap |-> pair.gap,
              reg |-> pair.reg, mem |-> pair.mem, count |-> pair.count]
  BY DEF PairTypes
<1>2. [pair EXCEPT !.step = s] = [op |-> pair.op, addr |-> pair.addr, step |-> s, gap |-> pair.gap,
                                  reg |-> pair.reg, mem |-> pair.mem, count |-> pair.count]
  BY <1>1
<1>3. [pair EXCEPT !.gap = g] = [op |-> pair.op, addr |-> pair.addr, step |-> pair.step, gap |-> g,
                                 reg |-> pair.reg, mem |-> pair.mem, count |-> pair.count]
  BY <1>1
<1>4. [pair EXCEPT !.step = s, !.gap = g] = [op |-> pair.op, addr |-> pair.addr, step |-> s, gap |-> g,
                                             reg |-> pair.reg, mem |-> pair.mem, count |-> pair.count]
  <2> DEFINE p == [pair EXCEPT !.step = s]
  <2>1. [pair EXCEPT !.step = s, !.gap = g] = [p EXCEPT !.gap = g]
    OBVIOUS
  <2>2. p = [op |-> pair.op, addr |-> pair.addr, step |-> s, gap |-> pair.gap,
             reg |-> pair.reg, mem |-> pair.mem, count |-> pair.count]
    BY <1>2
  <2> HIDE DEF p
  <2>3. [p EXCEPT !.gap = g] = [op |-> pair.op, addr |-> pair.addr, step |-> s, gap |-> g,
                                reg |-> pair.reg, mem |-> pair.mem, count |-> pair.count]
    BY <2>2
  <2> QED
    BY <2>1, <2>3
<1> QED
  BY <1>2, <1>3, <1>4

(* The fields of a pair that none of its steps changes.                     *)
SamePair ==
    /\ pair'.op = pair.op /\ pair'.addr = pair.addr /\ pair'.reg = pair.reg /\ pair'.mem = pair.mem
    /\ pair'.count = pair.count /\ cpu' = cpu /\ build' = build
    /\ pair' = [op |-> pair'.op, addr |-> pair'.addr, step |-> pair'.step, gap |-> pair'.gap,
                reg |-> pair'.reg, mem |-> pair'.mem, count |-> pair'.count]

LEMMA SameBytes ==
    ASSUME SamePair
    PROVE  /\ LeftPart' = LeftPart /\ RightPart' = RightPart
           /\ \A i : AddressOf(i)' = AddressOf(i)
           /\ \A m, a : MemByte(m, a)' = MemByte(m, a)
           /\ LeftEnd(pair.addr)' = LeftEnd(pair.addr) /\ RightEnd(pair.addr)' = RightEnd(pair.addr)
<1>1. build' = build /\ pair'.addr = pair.addr
  BY DEF SamePair
<1>2. \A i : AddressOf(i)' = AddressOf(i)
  BY <1>1 DEF AddressOf
<1>3. \A m, a : MemByte(m, a)' = MemByte(m, a)
  BY <1>1 DEF MemByte, Place
<1>4. LeftEnd(pair.addr)' = LeftEnd(pair.addr) /\ RightEnd(pair.addr)' = RightEnd(pair.addr)
  BY <1>1 DEF LeftEnd, RightEnd
<1>5. LeftPart' = LeftPart /\ RightPart' = RightPart
  BY <1>2, <1>4 DEF LeftPart, RightPart
<1> QED
  BY <1>2, <1>3, <1>4, <1>5

LEMMA SameTypes ==
    ASSUME PairTypes, SamePair, SlotTypes', mem' \in [DOMAIN Memory -> Word], pair'.gap \in Nat,
           pair'.step \in {"left", "right", "done", "fault"},
           pair'.step \in {"left", "right"} => pair.op # "none",
           pair'.step = "right" => Mapped(LeftEnd(pair.addr)),
           pair'.step = "done" /\ pair.op # "none" => Mapped(LeftEnd(pair.addr)) /\ Mapped(RightEnd(pair.addr))
    PROVE  PairTypes'
<1>1. /\ cpu' \in CPUs /\ build' \in Builds /\ pair'.op \in Ops /\ pair'.addr \in Nat /\ pair'.count \in Nat
      /\ pair'.reg \in Word /\ pair'.mem \in [DOMAIN Memory -> Word]
  BY DEF SamePair, PairTypes
<1>4. LeftEnd(pair.addr)' = LeftEnd(pair.addr) /\ RightEnd(pair.addr)' = RightEnd(pair.addr)
  BY SameBytes
<1>5. DOMAIN mem = DOMAIN Memory /\ DOMAIN mem' = DOMAIN Memory
  BY DEF PairTypes
<1>6. /\ Mapped(LeftEnd(pair.addr))' <=> Mapped(LeftEnd(pair.addr))
      /\ Mapped(RightEnd(pair.addr))' <=> Mapped(RightEnd(pair.addr))
  BY <1>4, <1>5 DEF Mapped
<1> QED
  BY <1>1, <1>6 DEF PairTypes, SlotTypes, SamePair

LEMMA BeginStep == ASSUME PairInvariant, NEW op \in {"ulw", "usw"}, NEW addr \in Addresses, Begin(op, addr) PROVE PairInvariant'
<1>1. /\ pair' = [op |-> op, addr |-> addr, step |-> "left", gap |-> 0,
                  reg |-> R[cpu][Rt], mem |-> mem, count |-> pair.count + 1]
      /\ Settled /\ UNCHANGED <<R, new, old, cpu, build, mem>>
  BY DEF Begin, vars
<1>2. addr \in Nat /\ Rt \in Regs
  BY UnalignedAssumption
<1>3. PairTypes'
  BY <1>1, <1>2 DEF PairInvariant, PairTypes, Pending, Settled, Ops, Mapped
<1>4. op = "ulw" => Loading'
  BY <1>1 DEF Loading, Settled
<1>5. op = "usw" => Storing'
  <2>1. pair'.mem = mem' /\ pair'.step = "left" /\ Settled' /\ R'[cpu'][Rt] = pair'.reg
    BY <1>1 DEF Settled
  <2>2. \A a : Kept(a)'
    BY <2>1 DEF Kept
  <2> QED
    BY <2>1, <2>2 DEF Storing
<1> QED
  BY <1>1, <1>3, <1>4, <1>5 DEF PairInvariant

(* A store of one part leaves the word stored so far and its surroundings.  *)
LEMMA StoredParts ==
    ASSUME PairTypes, PairTypes', Storing, SamePair, UNCHANGED <<R, new, old>>, NEW part \in SUBSET (0 .. 3),
           mem' = mem \/ Written(mem', part, pair.reg),
           pair'.step = "right" => \A i \in LeftPart : MemByte(mem', AddressOf(i)) = pair.reg[i],
           pair'.step = "done" => \A i \in 0 .. 3 : MemByte(mem', AddressOf(i)) = pair.reg[i]
    PROVE  Storing'
<1>1. /\ LeftPart' = LeftPart /\ \A i : AddressOf(i)' = AddressOf(i)
      /\ \A m, a : MemByte(m, a)' = MemByte(m, a)
      /\ pair'.reg = pair.reg /\ pair'.mem = pair.mem /\ cpu' = cpu
  BY SameBytes DEF SamePair
<1>2. /\ \A a : Kept(a)' <=> MemByte(mem', a) = MemByte(pair.mem, a)
      /\ \A i : Holds(i)' <=> MemByte(mem', AddressOf(i)) = pair.reg[i]
  BY <1>1 DEF Kept, Holds
<1>3. DOMAIN mem' = DOMAIN mem /\ DOMAIN mem \subseteq Nat
  BY UnalignedAssumption DEF PairTypes
<1>4. MappedBytes' = MappedBytes /\ Inside' = Inside /\ \A a : Outside(a)' <=> Outside(a)
  BY <1>1, <1>3 DEF MappedBytes, Inside, Mapped, Outside
<1>5. \A a \in MappedBytes : a \in Nat
  BY <1>3 DEF MappedBytes
<1>6. \A i \in 0 .. 3 : AddressOf(i) \in Nat
  BY LeftPlace DEF PairTypes
<1>7. ASSUME NEW a \in MappedBytes, Outside(a) PROVE MemByte(mem', a) = MemByte(pair.mem, a)
  <2>1. \A i \in part : a # AddressOf(i)
    BY <1>7 DEF Outside
  <2>2. MemByte(mem', a) = MemByte(mem, a)
    BY <1>5, <2>1 DEF Written
  <2> QED
    BY <1>7, <2>2 DEF Storing, Kept
<1>8. ASSUME NEW i \in Inside
      PROVE  MemByte(mem', AddressOf(i)) = MemByte(pair.mem, AddressOf(i)) \/ MemByte(mem', AddressOf(i)) = pair.reg[i]
  <2>1. Kept(AddressOf(i)) \/ Holds(i)
    BY DEF Storing
  <2>2. AddressOf(i) \in Nat
    BY <1>6 DEF Inside
  <2>3. CASE \A j \in part : AddressOf(i) # AddressOf(j)
    <3>1. MemByte(mem', AddressOf(i)) = MemByte(mem, AddressOf(i))
      BY <2>2, <2>3 DEF Written
    <3> QED
      BY <2>1, <3>1 DEF Kept, Holds
  <2>4. CASE \E j \in part : AddressOf(i) = AddressOf(j)
    <3>1. PICK j \in part : AddressOf(i) = AddressOf(j)
      BY <2>4
    <3>2. i = j
      BY <3>1 DEF AddressOf, Inside, PairTypes
    <3> QED
      BY <2>1, <3>2 DEF Written, Kept, Holds
  <2> QED
    BY <2>3, <2>4
<1>9. Settled' /\ R'[cpu'][Rt] = pair'.reg
  BY <1>1 DEF Storing, Settled
<1> QED
  BY <1>1, <1>2, <1>4, <1>7, <1>8, <1>9 DEF Storing

(* The left instruction.                                                   *)
LEMMA LeftStep == ASSUME PairInvariant, Left PROVE PairInvariant'
<1> DEFINE a == LeftEnd(pair.addr)
           s == ShiftOfLeft(a)
           next == IF Mapped(a) THEN "right" ELSE "fault"
<1>1. PairTypes /\ pair.step = "left" /\ pair.op \in {"ulw", "usw"} /\ cpu' = cpu /\ build' = build
  BY DEF PairInvariant, Left, PairTypes, Ops
<1>2. pair' = [op |-> pair.op, addr |-> pair.addr, step |-> next, gap |-> 0,
               reg |-> pair.reg, mem |-> pair.mem, count |-> pair.count]
  <2>1. pair' = [pair EXCEPT !.step = next, !.gap = 0]
    BY DEF Left, Proceed
  <2> HIDE DEF next
  <2> QED
    BY <1>1, <2>1, PairSet
<1>3. SamePair /\ pair'.step = next /\ pair'.gap = 0
  BY <1>1, <1>2 DEF SamePair
<1>4. Settled /\ R[cpu][Rt] = pair.reg /\ pair.reg \in Word
  BY <1>1 DEF PairInvariant, Loading, Storing, PairTypes
<1>5. s \in 0 .. 3
  BY <1>1, LeftPlace DEF PairTypes
<1>6. RegisterSeen = pair.reg
  BY <1>1, <1>4, UpdateFact DEF RegisterSeen, Settled
<1> HIDE DEF a, s
<1>7. CASE pair.op = "ulw"
  <2> DEFINE merged == ShiftedUp(read_mem_word(a), RegisterSeen, s)
             v == IF Mapped(a) \/ build.fails THEN merged ELSE read_mem_word(a)
  <2>1. ExecLoad(cpu, Rt, v) /\ UNCHANGED mem
    BY <1>1, <1>7 DEF Left, LWL, LoadPart, a, s
  <2>2. merged \in Word /\ v \in Word
    BY <1>1, <1>4, <1>5, <1>6, ShiftTypes, ReadType
  <2>3. Mapped(a) => v = FromLeft
    BY <1>1, <1>4, <1>6, LeftWord DEF FromLeft, a, s
  <2> HIDE DEF merged, v
  <2>4. /\ SlotTypes' /\ Landed' = v
        /\ cpu \in Delayed => old' = new /\ R'[cpu][Rt] = RegisterSeen
    BY <1>1, <2>1, <2>2, LoadStep
  <2>5. PairTypes'
    <3>1. mem' \in [DOMAIN Memory -> Word]
      BY <1>1, <2>1 DEF PairTypes
    <3> QED
      BY <1>1, <1>3, <2>4, <3>1, SameTypes DEF a
  <2>6. Loading'
    <3>1. mem' = pair'.mem
      BY <1>3, <1>7, <2>1 DEF PairInvariant, Loading, SamePair
    <3>2. ASSUME pair'.step = "right" PROVE Landed' = FromLeft'
      <4>1. Landed' = FromLeft
        BY <1>3, <2>3, <2>4, <3>2
      <4>2. FromLeft' = FromLeft
        BY <1>3, <2>1, SameBytes DEF FromLeft, SamePair
      <4> QED
        BY <4>1, <4>2
    <3>3. IF Early' THEN old' = NoLoad /\ R'[cpu'][Rt] = pair'.reg ELSE new' = NoLoad
      <4>1. CASE cpu \in Delayed
        <5>1. old' = NoLoad /\ R'[cpu][Rt] = pair.reg
          BY <1>4, <1>6, <2>4, <4>1 DEF Settled
        <5> QED
          BY <1>3, <4>1, <5>1 DEF Early, SamePair
      <4>2. CASE cpu \notin Delayed
        BY <1>3, <2>4, <4>2 DEF Early, SamePair, SlotTypes, Settled
      <4> QED
        BY <4>1, <4>2
    <3>4. pair'.step \notin {"left", "done"}
      BY <1>3
    <3> HIDE DEF next
    <3> QED
      BY <3>1, <3>2, <3>3, <3>4 DEF Loading
  <2> QED
    BY <1>3, <1>7, <2>5, <2>6 DEF PairInvariant, SamePair
<1>8. CASE pair.op = "usw"
  <2> DEFINE m == [mem EXCEPT ![a \div 4] = ShiftedDown(RegisterSeen, read_mem_word(a), s)]
  <2>1. ExecOther(cpu) /\ mem' = IF Mapped(a) THEN m ELSE mem
    BY <1>1, <1>8 DEF Left, SWL, StorePart, a, s
  <2>2. UNCHANGED <<R, new, old>>
    BY <1>4, <2>1 DEF Settled, ExecOther, DO_DELAYED_UPDATE, Shift
  <2>3. Mapped(a) => Written(m, LeftPart, pair.reg)
    BY <1>1, <1>4, <1>6, LeftWritten DEF a, s
  <2> HIDE DEF m
  <2>4. mem' \in [DOMAIN Memory -> Word]
    BY <1>1, <2>1, <2>3 DEF PairTypes, Written
  <2>5. PairTypes'
    <3>1. SlotTypes'
      BY <1>1, <1>3, <2>2 DEF PairTypes, SlotTypes, SamePair, Pending, Settled
    <3> QED
      BY <1>1, <1>3, <2>4, <3>1, SameTypes DEF a
  <2>6. Storing'
    <3>1. Storing
      BY <1>8 DEF PairInvariant
    <3>2. mem' = mem \/ Written(mem', LeftPart, pair.reg)
      BY <2>1, <2>3
    <3>3. pair'.step = "right" => \A i \in LeftPart : MemByte(mem', AddressOf(i)) = pair.reg[i]
      BY <1>3, <2>1, <2>3 DEF Written
    <3>4. pair'.step # "done" /\ LeftPart \in SUBSET (0 .. 3)
      BY <1>3 DEF LeftPart
    <3> QED
      BY <1>1, <1>3, <2>2, <2>5, <3>1, <3>2, <3>3, <3>4, StoredParts
  <2> QED
    BY <1>3, <1>8, <2>5, <2>6 DEF PairInvariant, SamePair
<1> QED
  BY <1>1, <1>7, <1>8

(* The right instruction, which merges with what the left one has left.     *)
LEMMA RightStep == ASSUME PairInvariant, Right PROVE PairInvariant'
<1> DEFINE a == RightEnd(pair.addr)
           s == ShiftOfRight(a)
           next == IF Mapped(a) THEN "done" ELSE "fault"
<1>1. /\ PairTypes /\ pair.step = "right" /\ pair.op \in {"ulw", "usw"} /\ cpu' = cpu /\ build' = build
      /\ Mapped(LeftEnd(pair.addr))
  BY DEF PairInvariant, Right, PairTypes, Ops
<1>2. pair' = [op |-> pair.op, addr |-> pair.addr, step |-> next, gap |-> pair.gap,
               reg |-> pair.reg, mem |-> pair.mem, count |-> pair.count]
  <2>1. pair' = [pair EXCEPT !.step = next]
    BY DEF Right
  <2> HIDE DEF next
  <2> QED
    BY <1>1, <2>1, PairSet
<1>3. SamePair /\ pair'.step = next /\ pair'.gap = pair.gap /\ pair.gap \in Nat /\ pair.reg \in Word
  BY <1>1, <1>2 DEF SamePair, PairTypes
<1>4. s \in 0 .. 3
  BY <1>1, RightPlace DEF PairTypes
<1>5. RegisterSeen \in Word
  BY <1>1, UpdateFact, UnalignedAssumption DEF RegisterSeen, PairTypes
<1> HIDE DEF a, s
<1>7. CASE pair.op = "ulw"
  <2> DEFINE merged == ShiftedDown(read_mem_word(a), RegisterSeen, s)
             v == IF Mapped(a) \/ build.fails THEN merged ELSE read_mem_word(a)
  <2>1. ExecLoad(cpu, Rt, v) /\ UNCHANGED mem
    BY <1>1, <1>7 DEF Right, LWR, LoadPart, a, s
  <2>2. merged \in Word /\ v \in Word
    BY <1>1, <1>4, <1>5, ShiftTypes, ReadType
  <2>3. RegisterSeen = IF Early THEN pair.reg ELSE FromLeft
    <3>1. /\ RegisterSeen = IF old # NoLoad THEN old.value ELSE R[cpu][Rt]
          /\ Landed = FromLeft
          /\ IF Early THEN old = NoLoad /\ R[cpu][Rt] = pair.reg ELSE new = NoLoad
      BY <1>1, <1>7, UpdateFact DEF PairInvariant, Loading, RegisterSeen
    <3> QED
      BY <3>1 DEF Landed
  <2>4. Mapped(a) => v = FromBoth
    <3> DEFINE w == RegisterSeen
    <3>1. Mapped(a) => v = [i \in 0 .. 3 |-> IF i \in RightPart THEN MemByte(mem, AddressOf(i)) ELSE w[i]]
      BY <1>1, <1>5, RightWord DEF a, s
    <3>2. \A i \in 0 .. 3 : i \in LeftPart \/ i \in RightPart
      BY <1>1, BothParts DEF PairTypes
    <3>3. ASSUME NEW i \in 0 .. 3
          PROVE  (IF i \in RightPart THEN MemByte(mem, AddressOf(i)) ELSE w[i])
                    = IF Early /\ i \notin RightPart THEN pair.reg[i] ELSE MemByte(mem, AddressOf(i))
      <4>1. CASE i \in RightPart
        BY <4>1
      <4>2. CASE i \notin RightPart /\ Early
        BY <2>3, <4>2
      <4>3. CASE i \notin RightPart /\ ~Early
        <5>1. w[i] = FromLeft[i]
          BY <2>3, <4>3
        <5>2. FromLeft[i] = MemByte(mem, AddressOf(i))
          BY <3>2, <4>3 DEF FromLeft
        <5> QED
          BY <4>3, <5>1, <5>2
      <4> QED
        BY <4>1, <4>2, <4>3
    <3> HIDE DEF v, w
    <3> QED
      BY <3>1, <3>3 DEF FromBoth
  <2> HIDE DEF merged, v
  <2>5. SlotTypes' /\ Landed' = v
    BY <1>1, <2>1, <2>2, LoadStep
  <2>6. PairTypes'
    <3>1. mem' \in [DOMAIN Memory -> Word]
      BY <1>1, <2>1 DEF PairTypes
    <3> QED
      BY <1>1, <1>3, <2>5, <3>1, SameTypes DEF a
  <2>7. Loading'
    <3>1. mem' = pair'.mem
      BY <1>3, <1>7, <2>1 DEF PairInvariant, Loading, SamePair
    <3>2. ASSUME pair'.step = "done" PROVE Landed' = FromBoth'
      <4>1. Landed' = FromBoth
        BY <1>3, <2>4, <2>5, <3>2
      <4>2. FromBoth' = FromBoth
        BY <1>3, <2>1, SameBytes DEF FromBoth, Early, SamePair
      <4> QED
        BY <4>1, <4>2
    <3>3. pair'.step \notin {"left", "right"}
      BY <1>3
    <3> HIDE DEF next
    <3> QED
      BY <3>1, <3>2, <3>3 DEF Loading
  <2> QED
    BY <1>3, <1>7, <2>6, <2>7 DEF PairInvariant, SamePair
<1>8. CASE pair.op = "usw"
  <2> DEFINE m == [mem EXCEPT ![a \div 4] = ShiftedUp(RegisterSeen, read_mem_word(a), s)]
  <2>0. Settled /\ R[cpu][Rt] = pair.reg
    BY <1>8 DEF PairInvariant, Storing
  <2>1. ExecOther(cpu) /\ mem' = IF Mapped(a) THEN m ELSE mem
    BY <1>1, <1>8 DEF Right, SWR, StorePart, a, s
  <2>2. UNCHANGED <<R, new, old>>
    BY <2>0, <2>1 DEF Settled, ExecOther, DO_DELAYED_UPDATE, Shift
  <2>3. RegisterSeen = pair.reg
    BY <1>1, <2>0, UpdateFact DEF RegisterSeen, Settled
  <2>4. Mapped(a) => Written(m, RightPart, pair.reg)
    BY <1>1, <1>3, <2>3, RightWritten DEF a, s
  <2> HIDE DEF m
  <2>5. mem' \in [DOMAIN Memory -> Word]
    BY <1>1, <2>1, <2>4 DEF PairTypes, Written
  <2>6. PairTypes'
    <3>1. SlotTypes'
      BY <1>1, <1>3, <2>2 DEF PairTypes, SlotTypes, SamePair, Pending, Settled
    <3> QED
      BY <1>1, <1>3, <2>5, <3>1, SameTypes DEF a
  <2>7. Storing'
    <3>1. Storing
      BY <1>8 DEF PairInvariant
    <3>2. mem' = mem \/ Written(mem', RightPart, pair.reg)
      BY <2>1, <2>4
    <3>3. pair'.step = "done" => \A i \in 0 .. 3 : MemByte(mem', AddressOf(i)) = pair.reg[i]
      <4> SUFFICES ASSUME pair'.step = "done", NEW i \in 0 .. 3 PROVE MemByte(mem', AddressOf(i)) = pair.reg[i]
        OBVIOUS
      <4>1. Written(mem', RightPart, pair.reg)
        BY <1>3, <2>1, <2>4
      <4>2. CASE i \in RightPart
        BY <4>1, <4>2 DEF Written
      <4>3. CASE i \notin RightPart
        <5>1. i \in LeftPart
          BY <1>1, <4>3, BothParts DEF PairTypes
        <5>2. MemByte(mem, AddressOf(i)) = pair.reg[i]
          BY <1>1, <3>1, <5>1 DEF Storing, Holds
        <5>3. \A j \in RightPart : AddressOf(i) # AddressOf(j)
          BY <1>1, <4>3 DEF AddressOf, RightPart, PairTypes
        <5>4. AddressOf(i) \in Nat
          BY <1>1, LeftPlace DEF PairTypes
        <5> QED
          BY <4>1, <5>2, <5>3, <5>4 DEF Written
      <4> QED
        BY <4>2, <4>3
    <3>4. pair'.step # "right" /\ RightPart \in SUBSET (0 .. 3)
      BY <1>3 DEF RightPart
    <3> QED
      BY <1>1, <1>3, <2>2, <2>6, <3>1, <3>2, <3>3, <3>4, StoredParts
  <2> QED
    BY <1>3, <1>8, <2>6, <2>7 DEF PairInvariant, SamePair
<1> QED
  BY <1>1, <1>7, <1>8

LEMMA WaitStep == ASSUME AtMostOneDelayed, PairInvariant, NEW c \in CPUs, Wait(c) PROVE PairInvariant'
<1> DEFINE gap == pair.step = "right" /\ c = cpu
<1>1. /\ PairTypes /\ ExecOther(c) /\ UNCHANGED <<cpu, build, mem>>
      /\ pair' = IF gap THEN [pair EXCEPT !.gap = pair.gap + 1] ELSE pair
      /\ ~gap => ~Settled
  BY DEF PairInvariant, Wait
<1>2. /\ pair' = [op |-> pair.op, addr |-> pair.addr, step |-> pair.step, gap |-> pair'.gap,
                   reg |-> pair.reg, mem |-> pair.mem, count |-> pair.count]
      /\ pair'.gap = IF gap THEN pair.gap + 1 ELSE pair.gap
  <2>1. CASE gap
    <3>1. [pair EXCEPT !.gap = pair.gap + 1]
             = [op |-> pair.op, addr |-> pair.addr, step |-> pair.step, gap |-> pair.gap + 1,
                reg |-> pair.reg, mem |-> pair.mem, count |-> pair.count]
      BY <1>1, PairSet
    <3> QED
      BY <1>1, <2>1, <3>1
  <2>2. CASE ~gap
    BY <1>1, <2>2 DEF PairTypes
  <2> QED
    BY <2>1, <2>2
<1>3. SamePair /\ pair'.step = pair.step /\ pair'.gap \in Nat
  BY <1>1, <1>2 DEF SamePair, PairTypes
<1>4. /\ SlotTypes' /\ Landed' = Landed
      /\ c = cpu => new' = NoLoad
      /\ c # cpu \/ Settled => UNCHANGED vars
  BY <1>1, OtherStep
<1>5. PairTypes'
  BY <1>1, <1>3, <1>4, SameTypes DEF PairTypes
<1>6. CASE pair.op = "usw"
  <2>1. Storing
    BY <1>6 DEF PairInvariant
  <2>2. UNCHANGED <<R, new, old>>
    BY <1>4, <2>1 DEF Storing, vars
  <2>3. mem' = mem /\ {} \in SUBSET (0 .. 3)
    BY <1>1
  <2>4. /\ pair'.step = "right" => \A i \in LeftPart : MemByte(mem', AddressOf(i)) = pair.reg[i]
        /\ pair'.step = "done" => \A i \in 0 .. 3 : MemByte(mem', AddressOf(i)) = pair.reg[i]
    BY <1>3, <2>1, <2>3 DEF Storing, Holds
  <2>5. Storing'
    BY <1>1, <1>3, <1>5, <2>1, <2>2, <2>3, <2>4, StoredParts
  <2> QED
    BY <1>3, <1>5, <1>6, <2>5 DEF PairInvariant, SamePair
<1>7. CASE pair.op # "usw"
  <2>1. Loading
    BY <1>7 DEF PairInvariant
  <2>2. FromLeft' = FromLeft /\ (pair'.gap = pair.gap => FromBoth' = FromBoth)
    <3>1. FromLeft' = FromLeft
      BY <1>1, <1>3, SameBytes DEF FromLeft, SamePair
    <3>2. pair'.gap = pair.gap => FromBoth' = FromBoth
      BY <1>1, <1>3, SameBytes DEF FromBoth, Early, SamePair
    <3> QED
      BY <3>1, <3>2
  <2>3. ASSUME pair.op = "ulw" PROVE pair.step # "left"
    BY <1>1, <2>1, <2>3 DEF Loading
  <2>4. ASSUME pair.op = "ulw", pair.step = "right"
        PROVE  IF Early' THEN old' = NoLoad /\ R'[cpu'][Rt] = pair'.reg ELSE new' = NoLoad
    <3>1. CASE c = cpu
      <4>1. pair'.gap = pair.gap + 1 /\ pair.gap \in Nat
        BY <1>1, <1>2, <2>4, <3>1 DEF PairTypes
      <4>2. ~Early'
        BY <4>1 DEF Early
      <4> QED
        BY <1>4, <3>1, <4>2
    <3>2. CASE c # cpu
      <4>1. UNCHANGED <<R, new, old>> /\ pair'.gap = pair.gap
        BY <1>2, <1>4, <3>2 DEF vars
      <4>2. Early' <=> Early
        BY <1>3, <4>1 DEF Early, SamePair
      <4> QED
        BY <1>3, <2>1, <2>4, <4>1, <4>2 DEF Loading, SamePair
    <3> QED
      BY <3>1, <3>2
  <2>5. ASSUME pair.step = "done" PROVE pair'.gap = pair.gap
    BY <1>2, <2>5
  <2>6. Loading'
    BY <1>1, <1>3, <1>4, <2>1, <2>2, <2>3, <2>4, <2>5 DEF Loading, SamePair
  <2> QED
    BY <1>3, <1>5, <1>7, <2>6 DEF PairInvariant, SamePair
<1> QED
  BY <1>6, <1>7

LEMMA PairInit == UnalignedInit => PairInvariant
<1> SUFFICES ASSUME UnalignedInit PROVE PairInvariant
  OBVIOUS
<1>1. /\ cpu \in CPUs /\ build \in Builds /\ R = [c \in CPUs |-> [r \in Regs |-> Register]]
      /\ new = NoLoad /\ old = NoLoad /\ mem = Memory
      /\ pair = [op |-> "none", addr |-> 0, step |-> "done", gap |-> 0, reg |-> ZeroWord, mem |-> mem, count |-> 0]
  BY DEF UnalignedInit, Idle, Builds
<1>2. ZeroWord \in Word
  BY DEF ZeroWord, Word, Byte
<1>3. PairTypes
  BY <1>1, <1>2, UnalignedAssumption DEF PairTypes, Settled, Ops
<1>4. Loading
  BY <1>1 DEF Loading
<1> QED
  BY <1>1, <1>3, <1>4 DEF PairInvariant

LEMMA PairSteps == AtMostOneDelayed /\ PairInvariant /\ [UnalignedNext]_uvars => PairInvariant'
<1> SUFFICES ASSUME AtMostOneDelayed, PairInvariant, [UnalignedNext]_uvars PROVE PairInvariant'
  OBVIOUS
<1>1. CASE UNCHANGED uvars
  <2>1. UNCHANGED <<R, new, old, cpu, build, mem, pair>>
    BY <1>1 DEF uvars, vars
  <2>2. SamePair /\ SlotTypes'
    BY <2>1 DEF PairInvariant, PairTypes, SamePair, SlotTypes, Pending, Settled
  <2>3. PairTypes'
    BY <2>1, <2>2, SameTypes DEF PairInvariant, PairTypes
  <2>4. CASE pair.op = "usw"
    <3>1. Storing /\ PairTypes
      BY <2>4 DEF PairInvariant
    <3>2. /\ pair'.step = "right" => \A i \in LeftPart : MemByte(mem', AddressOf(i)) = pair.reg[i]
          /\ pair'.step = "done" => \A i \in 0 .. 3 : MemByte(mem', AddressOf(i)) = pair.reg[i]
      BY <2>1, <3>1 DEF Storing, Holds
    <3>3. Storing'
      BY <2>1, <2>2, <2>3, <3>1, <3>2, StoredParts
    <3> QED
      BY <2>1, <2>3, <2>4, <3>3 DEF PairInvariant
  <2>5. CASE pair.op # "usw"
    <3>1. Loading
      BY <2>5 DEF PairInvariant
    <3>2. FromLeft' = FromLeft /\ FromBoth' = FromBoth /\ Landed' = Landed /\ (Early' <=> Early)
      BY <2>1, <2>2, SameBytes DEF FromLeft, FromBoth, Landed, Early
    <3>3. Loading'
      BY <2>1, <3>1, <3>2 DEF Loading, Settled
    <3> QED
      BY <2>1, <2>3, <2>5, <3>3 DEF PairInvariant
  <2> QED
    BY <2>4, <2>5
<1>2. CASE \E op \in {"ulw", "usw"}, addr \in Addresses : Begin(op, addr)
  BY <1>2, BeginStep
<1>3. CASE Left \/ Right
  BY <1>3, LeftStep, RightStep
<1>4. CASE \E c \in CPUs : Wait(c)
  BY <1>4, WaitStep
<1> QED
  BY <1>1, <1>2, <1>3, <1>4 DEF UnalignedNext

LEMMA PairsHold == ASSUME AtMostOneDelayed PROVE UnalignedSpec => []PairInvariant
  BY PairInit, PairSteps, PTL DEF UnalignedSpec

(* LWL/LWR and SWL/SWR pairs move whole words: for any register file, any   *)
(* mapped memory, any addresses, both byte orders and any interleaving with *)
(* the delayed loads, a ulw that completed holds the unaligned word, and a  *)
(* usw stored the register (cpu_run.cpp, the four cases).                   *)
THEOREM UnalignedTheorem ==
    ASSUME AtMostOneDelayed PROVE UnalignedSpec => []UnalignedWordsMove
BY PairsHold, PairMeansWords, PTL

(* What is not the moved word keeps its place: bytes of memory outside the  *)
(* word, and register bytes a half of the pair does not move.               *)
THEOREM BytesTheorem ==
    ASSUME AtMostOneDelayed PROVE UnalignedSpec => []BytesKeepTheirPlace
BY PairsHold, PairMeansWords, PTL

=============================================================================
