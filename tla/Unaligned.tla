------------------------------ MODULE Unaligned ------------------------------
(***************************************************************************)
(* LWL, LWR, SWL and SWR of run_spim, and the pairs of them that ULW and    *)
(* USW become, on top of the delayed loads.  A word is four bytes, byte 0   *)
(* the least significant; mem holds the words that are mapped, every access *)
(* to another one raises an exception.                                     *)
(***************************************************************************)
EXTENDS DelayedLoads, Integers, FiniteSets

CONSTANTS
    Rt,         \* the register the pairs load and store
    Memory,     \* the mapped words, as they are at first
    Register,   \* the word in every register at first
    Addresses,  \* the addresses the pairs are given
    MaxPairs,   \* bound: the pairs a program executes
    MaxWait     \* bound: the other instructions after each half of a pair

Byte == 0 .. 255
Word == [0 .. 3 -> Byte]

ASSUME UnalignedAssumption ==
    /\ Rt \in Regs /\ Register \in Word
    /\ DOMAIN Memory \subseteq Nat /\ Memory \in [DOMAIN Memory -> Word]
    /\ Addresses \subseteq Nat
    /\ NoLoad \notin [cpu : CPUs, reg : Regs, value : Word]

VARIABLES
    cpu,    \* the CPU that executes the pairs
    build,  \* SPIM_BIGENDIAN, and should_fail_on_exception
    mem,    \* mem[w]: the word at address 4 * w
    pair    \* the pair being executed

uvars == <<vars, cpu, build, mem, pair>>

ZeroWord == [i \in 0 .. 3 |-> 0]
Mapped(addr) == addr \div 4 \in DOMAIN mem
Place(addr) == IF build.big THEN 3 - (addr % 4) ELSE addr % 4
MemByte(memory, addr) == memory[addr \div 4][Place(addr)]

(* Mutants: a shift that forgets the byte order; a part one byte too long.  *)
ShiftOfLittleEndian(addr) == 3 - (addr % 4)
OneByteTooMany(top, below, s) == [i \in 0 .. 3 |-> IF i + 1 >= s THEN top[(i + 4 - s) % 4] ELSE below[i]]

(* How many bytes LWL and SWL shift by, and LWR and SWR the other way.      *)
ShiftOfLeft(addr) == IF build.big THEN addr % 4 ELSE 3 - (addr % 4)
ShiftOfRight(addr) == 3 - ShiftOfLeft(addr)

(* The bytes of one word moved up or down by s, over the bytes of another.  *)
ShiftedUp(top, below, s) == [i \in 0 .. 3 |-> IF i >= s THEN top[i - s] ELSE below[i]]
ShiftedDown(top, below, s) == [i \in 0 .. 3 |-> IF i + s <= 3 THEN top[i + s] ELSE below[i]]

read_mem_word(addr) == IF Mapped(addr) THEN mem[addr \div 4] ELSE ZeroWord
RegisterSeen == DO_DELAYED_UPDATE(cpu)[cpu][Rt]

(* A read that raised an exception gives its zero to the whole register; on *)
(* a CPU that stops instead of raising, the zero is merged.                *)
LoadPart(addr, merged) ==
    /\ ExecLoad(cpu, Rt, IF Mapped(addr) \/ build.fails THEN merged ELSE read_mem_word(addr))
    /\ UNCHANGED mem
LWL(addr) == LoadPart(addr, ShiftedUp(read_mem_word(addr), RegisterSeen, ShiftOfLeft(addr)))
LWR(addr) == LoadPart(addr, ShiftedDown(read_mem_word(addr), RegisterSeen, ShiftOfRight(addr)))

(* The word is read, changed and written; both accesses of a word that is   *)
(* not mapped raise an exception.                                          *)
StorePart(addr, data) ==
    /\ mem' = IF Mapped(addr) THEN [mem EXCEPT ![addr \div 4] = data] ELSE mem
    /\ ExecOther(cpu)
SWL(addr) == StorePart(addr, ShiftedDown(RegisterSeen, read_mem_word(addr), ShiftOfLeft(addr)))
SWR(addr) == StorePart(addr, ShiftedUp(RegisterSeen, read_mem_word(addr), ShiftOfRight(addr)))

(* The left instruction of a pair comes first and names the byte that is    *)
(* the most significant, the right one the least.                          *)
LeftEnd(addr) == IF build.big THEN addr ELSE addr + 3
RightEnd(addr) == IF build.big THEN addr + 3 ELSE addr

Settled == new = NoLoad /\ old = NoLoad
Idle == [op |-> "none", addr |-> 0, step |-> "done", gap |-> 0, reg |-> ZeroWord, mem |-> mem, count |-> 0]

Begin(op, addr) ==
    /\ pair.step = "done" /\ Settled /\ pair.count < MaxPairs
    /\ pair' = [op |-> op, addr |-> addr, step |-> "left", gap |-> 0,
                reg |-> R[cpu][Rt], mem |-> mem, count |-> pair.count + 1]
    /\ UNCHANGED <<vars, cpu, build, mem>>

(* A faulting instruction is the last of its pair.                         *)
Proceed(addr, step) == pair' = [pair EXCEPT !.step = IF Mapped(addr) THEN step ELSE "fault", !.gap = 0]

Left ==
    LET addr == LeftEnd(pair.addr)
    IN  /\ pair.step = "left"
        /\ IF pair.op = "ulw" THEN LWL(addr) ELSE SWL(addr)
        /\ Proceed(addr, "right")
        /\ UNCHANGED <<cpu, build>>

Right ==
    LET addr == RightEnd(pair.addr)
    IN  /\ pair.step = "right"
        /\ IF pair.op = "ulw" THEN LWR(addr) ELSE SWR(addr)
        /\ pair' = [pair EXCEPT !.step = IF Mapped(addr) THEN "done" ELSE "fault"]
        /\ UNCHANGED <<cpu, build>>

(* Another instruction of any CPU: between two pairs it lets loads land,    *)
(* between the halves of a pair it counts as a gap if it is of this CPU.    *)
Wait(c) ==
    /\ ExecOther(c)
    /\ IF pair.step = "right" /\ c = cpu
       THEN pair.gap < MaxWait /\ pair' = [pair EXCEPT !.gap = @ + 1]
       ELSE ~Settled /\ UNCHANGED pair
    /\ UNCHANGED <<cpu, build, mem>>

UnalignedInit ==
    /\ cpu \in CPUs /\ build \in [big : BOOLEAN, fails : BOOLEAN]
    /\ R = [c \in CPUs |-> [r \in Regs |-> Register]]
    /\ new = NoLoad /\ old = NoLoad
    /\ mem = Memory
    /\ pair = Idle

UnalignedNext ==
    \/ \E op \in {"ulw", "usw"}, addr \in Addresses : Begin(op, addr)
    \/ Left \/ Right
    \/ \E c \in CPUs : Wait(c)

UnalignedSpec == UnalignedInit /\ [][UnalignedNext]_uvars

-----------------------------------------------------------------------------
(* The bytes of the pair's word, by their place in a register: byte i is at *)
(* AddressOf(i).                                                           *)
AddressOf(i) == IF build.big THEN pair.addr + 3 - i ELSE pair.addr + i
Inside == {i \in 0 .. 3 : Mapped(AddressOf(i))}
Outside(a) == a \notin {AddressOf(i) : i \in 0 .. 3}
MappedBytes == {4 * w + k : w \in DOMAIN mem, k \in 0 .. 3}

(* LWL and LWR, SWL and SWR, in either byte order and at every alignment,   *)
(* move the whole unaligned word and nothing else; with delayed loads they  *)
(* do so only when an instruction separates the two loads, since otherwise  *)
(* the second merges with the register as it was before the first, whose   *)
(* bytes are lost.                                                         *)
UnalignedWordsMove ==
    pair.op # "none" /\ pair.step = "done" /\ Settled =>
        LET early == pair.op = "ulw" /\ cpu \in Delayed /\ pair.gap = 0
            fromRight == {i \in 0 .. 3 : AddressOf(i) \div 4 = RightEnd(pair.addr) \div 4}
        IN  /\ pair.op = "ulw" =>
                 \A i \in 0 .. 3 : R[cpu][Rt][i] =
                     IF early /\ i \notin fromRight THEN pair.reg[i] ELSE MemByte(mem, AddressOf(i))
            /\ pair.op = "usw" => \A i \in 0 .. 3 : MemByte(mem, AddressOf(i)) = pair.reg[i]

(* At every step, between the halves and after a fault too, a byte of the   *)
(* memory is the one of before or the register's byte of that place, and a  *)
(* byte outside the unaligned word never changes; a load changes no byte of *)
(* memory, a store none of the register.                                   *)
BytesKeepTheirPlace ==
    /\ \A a \in MappedBytes : Outside(a) \/ pair.op # "usw" => MemByte(mem, a) = MemByte(pair.mem, a)
    /\ pair.op = "usw" =>
         /\ \A i \in Inside : MemByte(mem, AddressOf(i)) \in {MemByte(pair.mem, AddressOf(i)), pair.reg[i]}
         /\ R[cpu][Rt] = pair.reg
=============================================================================
