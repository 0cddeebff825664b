---------------------------- MODULE FloatRegisters ----------------------------
(***************************************************************************)
(* The floating-point registers: one array of words that is read as singles *)
(* and, in even and odd pairs, as doubles.  LDC1 loads the two words of a   *)
(* double one by one, through the delayed-load slots when the CPU has them; *)
(* SDC1 stores them one by one.  What the arithmetic computes is the host's *)
(* and is any double, or any single, here.                                 *)
(***************************************************************************)
EXTENDS DelayedLoads, Integers

CONSTANTS Doubles,    \* the doubles that are computed
          Words,      \* the words of memory that are mapped
          MaxSteps    \* bound: the instructions a program executes

ASSUME FloatAssumption ==
    /\ Regs \subseteq Nat /\ \A r \in Regs : {2 * (r \div 2), 2 * (r \div 2) + 1} \subseteq Regs
    /\ Words \subseteq Nat
    /\ Doubles \X {0, 1} \subseteq Values

VARIABLES
    user,    \* the CPU that executes
    memory,  \* the mapped words
    meant,   \* what the program put last in every pair and in every two words
    steps

floatVars == <<vars, user, memory, meant, steps>>

(* A double the program means, and whether it came through an LDC1 with     *)
(* delayed loads; or Parts, after a single word was put there.             *)
Parts == [double |-> "none", late |-> FALSE]
Half(d, i) == <<d, i>>
Whole(d) == [double |-> d, late |-> FALSE]
Pairs == {r \div 2 : r \in Regs}
Nowhere == -2   \* an address that is not mapped, or not aligned

Seen == DO_DELAYED_UPDATE(user)[user]

(* Mutant: the register number taken for the number of the double.          *)
FromRegister(p) == [i \in {0, 1} |-> Seen[p + i]]

FPR_D(p) == [i \in {0, 1} |-> Seen[2 * p + i]]
SET_FPR_D(p, words) == [DO_DELAYED_UPDATE(user) EXCEPT ![user][2 * p] = words[0], ![user][2 * p + 1] = words[1]]
MemoryWord(w) == IF w \in Words THEN memory[w] ELSE Zero

(* Between a load and the next instruction that names its destination the   *)
(* program leaves another, as it must for the loads of the real machine.    *)
Free(r) == new # NoLoad => new.cpu # user \/ new.reg # r
PairFree(p) == Free(2 * p) /\ Free(2 * p + 1)

Step == steps < MaxSteps /\ steps' = steps + 1 /\ UNCHANGED user
Means(p, what) == meant' = [meant EXCEPT !.reg[p] = what]

(* Arithmetic and conversions with a double result.                         *)
WriteDouble(p, d) ==
    /\ Step /\ PairFree(p)
    /\ R' = SET_FPR_D(p, [i \in {0, 1} |-> Half(d, i)])
    /\ Shift(user, NoLoad)
    /\ Means(p, Whole(d)) /\ UNCHANGED memory

MOV_D(p, q) ==
    /\ Step /\ PairFree(p) /\ PairFree(q)
    /\ R' = SET_FPR_D(p, FPR_D(q))
    /\ Shift(user, NoLoad)
    /\ Means(p, meant.reg[q]) /\ UNCHANGED memory

(* Arithmetic, conversions and MTC1, with a result of one word.             *)
WriteWord(r) ==
    /\ Step /\ Free(r)
    /\ ExecWrite(user, r, Zero)
    /\ Means(r \div 2, Parts) /\ UNCHANGED memory

LWC1(r, w) ==
    /\ Step /\ Free(r)
    /\ ExecLoad(user, r, MemoryWord(w))
    /\ Means(r \div 2, Parts) /\ UNCHANGED memory

(* Both words go to the same slot: on a CPU with delayed loads the second   *)
(* takes the place of the first, and the even register keeps its word.      *)
LDC1(p, w) ==
    LET delayed == user \in Delayed
    IN  /\ Step /\ PairFree(p)
        /\ R' = IF delayed THEN DO_DELAYED_UPDATE(user)
                ELSE SET_FPR_D(p, [i \in {0, 1} |-> MemoryWord(w + i)])
        /\ Shift(user, [cpu |-> user, reg |-> 2 * p + 1, value |-> MemoryWord(w + 1)])
        /\ Means(p, IF w \notin Words \/ meant.mem[w] = Parts THEN Parts
                    ELSE [meant.mem[w] EXCEPT !.late = @ \/ delayed])
        /\ UNCHANGED memory

Put(w, words) == [a \in Words |-> IF a - w \in DOMAIN words THEN words[a - w] ELSE memory[a]]

(* Doubles that the stored words overlap are no longer whole.               *)
Overlapped(w, n) == {a \in Words : a + 1 >= w /\ a < w + n}
MeansStored(w, n, what) ==
    meant' = [meant EXCEPT !.mem =
                 [a \in Words |-> IF a = w THEN what ELSE IF a \in Overlapped(w, n) THEN Parts ELSE @[a]]]

SDC1(p, w) ==
    /\ Step /\ PairFree(p)
    /\ memory' = Put(w, FPR_D(p))
    /\ ExecOther(user)
    /\ MeansStored(w, 2, IF w + 1 \in Words THEN meant.reg[p] ELSE Parts)

SWC1(r, w) ==
    /\ Step /\ Free(r)
    /\ memory' = Put(w, [i \in {0} |-> Seen[r]])
    /\ ExecOther(user)
    /\ MeansStored(w, 1, Parts)

Other(c) == Step /\ ExecOther(c) /\ UNCHANGED <<memory, meant>>

FloatInit ==
    /\ Init
    /\ user \in CPUs
    /\ memory = [w \in Words |-> Zero]
    /\ meant = [reg |-> [p \in Pairs |-> Parts], mem |-> [w \in Words |-> Parts]]
    /\ steps = 0

FloatNext ==
    \/ \E p \in Pairs : \/ \E d \in Doubles : WriteDouble(p, d)
                        \/ \E q \in Pairs : MOV_D(p, q)
                        \/ \E w \in Words \cup {Nowhere} : LDC1(p, w) \/ SDC1(p, w)
    \/ \E r \in Regs : \/ WriteWord(r)
                       \/ \E w \in Words : LWC1(r, w) \/ SWC1(r, w)
    \/ \E c \in CPUs : Other(c)

FloatSpec == FloatInit /\ [][FloatNext]_floatVars

-----------------------------------------------------------------------------
(* The word a register holds once the loads on their way have landed.       *)
Lands(entry, r) == entry # NoLoad /\ entry.cpu = user /\ entry.reg = r
Settles(r) == IF Lands(new, r) THEN new.value ELSE IF Lands(old, r) THEN old.value ELSE R[user][r]

InPair(p, d) == Settles(2 * p) = Half(d, 0) /\ Settles(2 * p + 1) = Half(d, 1)
InWords(w, d) == memory[w] = Half(d, 0) /\ memory[w + 1] = Half(d, 1)

(* A double that is computed, moved, stored and loaded again in any order,  *)
(* over words of others, is never mixed with the words of another, in the  *)
(* registers or in memory, until a single word is put over one of its own.  *)
(* Excepted is one that came through an LDC1 with delayed loads: see        *)
(* DoublesArrive.                                                          *)
DoublesStayWhole ==
    /\ \A p \in Pairs : meant.reg[p] # Parts /\ ~meant.reg[p].late => InPair(p, meant.reg[p].double)
    /\ \A w \in Words : meant.mem[w] # Parts /\ ~meant.mem[w].late => InWords(w, meant.mem[w].double)

(* "The result from a load is not available until the subsequent instruction *)
(* has executed", and is then: every double that the program put in a pair  *)
(* is there, or its words are on their way, however it was loaded.         *)
DoublesArrive == \A p \in Pairs : meant.reg[p] # Parts => InPair(p, meant.reg[p].double)
=============================================================================
