-------------------------------- MODULE Memory --------------------------------
(***************************************************************************)
(* mem_image_t and the loads and stores of the CPU: the text, data, stack,  *)
(* kernel data and special segments, each an array with a base or a top     *)
(* that moves, the order in which an access looks for its segment, and the  *)
(* slow path that grows the stack or faults.  Kernel text is left out: no   *)
(* load or store reaches it.                                               *)
(*                                                                         *)
(* run_error is declared and never defined in the repository; like SPIM's   *)
(* it is taken not to return.                                              *)
(***************************************************************************)
EXTENDS Integers

CONSTANTS
    TEXT_BOT, TextSize,
    DATA_BOT, DataSize, DataLimit,
    STACK_TOP, StackSize, StackLimit,
    K_DATA_BOT, KDataSize, KDataLimit,
    SPECIAL_BOT, SPECIAL_TOP,
    DeviceAddrs,  \* SPIMBOT_IO_BOT .. SPIMBOT_IO_TOP
    StackWindow,  \* 16 * K * K: how far below the stack an access may grow it
    NullInst,     \* the null pointer of an empty text slot
    Byte,         \* what a byte may hold
    Loads,        \* the <<address, width>> pairs programs load from
    Stores,       \* the <<address, width>> pairs programs store to
    Words,        \* the words they store, functions from 0 .. 3 to Byte
    Sbrks,        \* the arguments of sbrk
    KGrowths      \* the arguments of expand_k_data

WordAligned(n) == n % 4 = 0

(* The segments lie in this order, each limit fits below the next segment,  *)
(* and the sizes are whole words.                                          *)
ASSUME LayoutAssumption ==
    /\ \A n \in {TEXT_BOT, DATA_BOT, STACK_TOP, K_DATA_BOT, SPECIAL_BOT, SPECIAL_TOP,
                 TextSize, DataSize, StackSize, KDataSize} : n \in Nat /\ WordAligned(n)
    /\ DataLimit \in Nat /\ StackLimit \in Nat /\ KDataLimit \in Nat
    /\ StackWindow \in Nat
    /\ 0 < TEXT_BOT /\ TEXT_BOT + TextSize <= DATA_BOT
    /\ 0 < DataSize /\ DataSize <= DataLimit
    /\ DATA_BOT + DataLimit <= STACK_TOP - StackLimit
    /\ 0 < StackSize /\ StackSize <= StackLimit
    /\ STACK_TOP <= K_DATA_BOT
    /\ KDataSize <= KDataLimit /\ K_DATA_BOT + KDataLimit <= SPECIAL_BOT
    /\ SPECIAL_BOT <= SPECIAL_TOP

ASSUME AccessAssumption ==
    /\ Byte \subseteq Nat /\ 0 \in Byte
    /\ Loads \subseteq Nat \X {1, 2, 4} /\ Stores \subseteq Nat \X {1, 2, 4}
    /\ Words \subseteq [0 .. 3 -> Byte] /\ NullInst \notin [0 .. 3 -> Byte]
    /\ Sbrks \subseteq Int /\ KGrowths \subseteq Nat
    /\ DeviceAddrs \subseteq {a \in Nat : a >= SPECIAL_TOP}

VARIABLES
    text_seg,
    data_seg, data_top,
    stack_seg, stack_bot,
    k_data_seg, k_data_top,
    special_seg,
    result   \* what the last operation returned, raised, or stopped with

segments == <<text_seg, data_seg, data_top, stack_seg, stack_bot,
              k_data_seg, k_data_top, special_seg>>
vars == <<text_seg, data_seg, data_top, stack_seg, stack_bot,
          k_data_seg, k_data_top, special_seg, result>>

Encoding == [0 .. 3 -> Byte]

TypeOK ==
    /\ text_seg \in [0 .. TextSize \div 4 - 1 -> Encoding \cup {NullInst}]
    /\ data_top \in Nat /\ WordAligned(data_top)
    /\ data_seg \in [0 .. data_top - DATA_BOT - 1 -> Byte]
    /\ stack_bot \in Nat /\ WordAligned(stack_bot)
    /\ stack_seg \in [0 .. STACK_TOP - stack_bot - 1 -> Byte]
    /\ k_data_top \in Nat /\ WordAligned(k_data_top)
    /\ k_data_seg \in [0 .. k_data_top - K_DATA_BOT - 1 -> Byte]
    /\ special_seg \in [0 .. SPECIAL_TOP - SPECIAL_BOT - 1 -> Byte]

Zeros(n) == [i \in 0 .. n - 1 |-> 0]

ROUND_UP(n) == ((n + 3) \div 4) * 4

MAX(a, b) == IF a >= b THEN a ELSE b

Init ==
    /\ text_seg = [i \in 0 .. TextSize \div 4 - 1 |-> NullInst]
    /\ data_seg = Zeros(DataSize) /\ data_top = DATA_BOT + DataSize
    /\ stack_seg = Zeros(StackSize) /\ stack_bot = STACK_TOP - StackSize
    /\ k_data_seg = Zeros(KDataSize) /\ k_data_top = K_DATA_BOT + KDataSize
    /\ special_seg = Zeros(SPECIAL_TOP - SPECIAL_BOT)
    /\ result = [op |-> "reset"]

make_memory ==
    /\ text_seg' = [i \in 0 .. TextSize \div 4 - 1 |-> NullInst]
    /\ data_seg' = Zeros(DataSize) /\ data_top' = DATA_BOT + DataSize
    /\ stack_seg' = Zeros(StackSize) /\ stack_bot' = STACK_TOP - StackSize
    /\ k_data_seg' = Zeros(KDataSize) /\ k_data_top' = K_DATA_BOT + KDataSize
    /\ special_seg' = Zeros(SPECIAL_TOP - SPECIAL_BOT)
    /\ result' = [op |-> "reset"]

-----------------------------------------------------------------------------
(* Which segment an address is in.                                         *)
InText(a) == TEXT_BOT <= a /\ a < TEXT_BOT + TextSize
InData(a) == DATA_BOT <= a /\ a < data_top
InStack(a) == stack_bot <= a /\ a < STACK_TOP
InKData(a) == K_DATA_BOT <= a /\ a < k_data_top
InSpecial(a) == SPECIAL_BOT <= a /\ a < SPECIAL_TOP

Aligned(a, w) == a % w = 0

InSegment(a) == InData(a) \/ InStack(a) \/ InKData(a) \/ InSpecial(a)

(* Below the stack, above the data, and not too far.                        *)
InWindow(a) == data_top < a /\ a < stack_bot /\ stack_bot - StackWindow < a

(* The segment an aligned access of the fast path finds first.              *)
ByteIn(a) ==
    IF InData(a) THEN data_seg[a - DATA_BOT]
    ELSE IF InStack(a) THEN stack_seg[a - stack_bot]
    ELSE IF InKData(a) THEN k_data_seg[a - K_DATA_BOT]
    ELSE special_seg[a - SPECIAL_BOT]

(* The words of the text segment and their bytes; an empty slot reads as 0. *)
Slot(a) == (a - TEXT_BOT) \div 4

TextByte(a) ==
    IF text_seg[Slot(a)] = NullInst THEN 0 ELSE text_seg[Slot(a)][(a - TEXT_BOT) % 4]

(* seg with the low w bytes of v at offset i.                               *)
Put(seg, i, v, w) ==
    [j \in DOMAIN seg |-> IF j \in i .. i + w - 1 THEN v[j - i] ELSE seg[j]]

-----------------------------------------------------------------------------
(* The outcomes of an operation.                                           *)
Returns(a, w, value) ==
    result' = [op |-> "read", addr |-> a, width |-> w, value |-> value]

Wrote(a, w, v) == result' = [op |-> "write", addr |-> a, width |-> w, value |-> v]

(* RAISE_EXCEPTION: a load returns 0 and a store is dropped.                *)
Faults(code, a, w) ==
    /\ result' = [op |-> "fault", code |-> code, addr |-> a, width |-> w]
    /\ UNCHANGED segments

run_error == result' = [op |-> "stop"] /\ UNCHANGED segments

(* A method called through the null pointer of an empty text slot.          *)
NullDereference(a, w) ==
    /\ result' = [op |-> "crash", addr |-> a, width |-> w]
    /\ UNCHANGED segments

read_spimbot_IO(a) == result' = [op |-> "device", addr |-> a] /\ UNCHANGED segments

write_spimbot_IO(a) == result' = [op |-> "device", addr |-> a] /\ UNCHANGED segments

-----------------------------------------------------------------------------
(* Mutant: it is only doubled.                                             *)
StackDoubled(addl) ==
    LET old_size == STACK_TOP - stack_bot IN  old_size + old_size

(* expand_stack(addl): the size it grows the stack to, at least doubled ... *)
StackGrown(addl) ==
    LET old_size == STACK_TOP - stack_bot
    IN  old_size + MAX(ROUND_UP(addl), old_size)

(* Mutant: realloc, which keeps the bottom of the block in place.           *)
StackReallocated(new_size) ==
    [i \in 0 .. new_size - 1 |-> IF i \in DOMAIN stack_seg THEN stack_seg[i] ELSE 0]

(* ... the new block, with the old contents at its top ...                  *)
StackCopied(new_size) ==
    LET shift == new_size - (STACK_TOP - stack_bot)
    IN  [i \in 0 .. new_size - 1 |-> IF i >= shift THEN stack_seg[i - shift] ELSE 0]

(* Mutant: nothing is compared with the limit.                             *)
StackUnlimited(new_size) == TRUE

(* ... and the limit, past which run_error ends the simulation.             *)
StackFits(new_size) == new_size <= StackLimit

(* Mutant: the array grows by what was asked, its top by whole words.       *)
DataGrownUnrounded(addl) ==
    [i \in 0 .. data_top - DATA_BOT + addl - 1 |->
        IF i \in DOMAIN data_seg THEN data_seg[i] ELSE 0]

DataGrown(addl) ==
    [i \in 0 .. data_top - DATA_BOT + ROUND_UP(addl) - 1 |->
        IF i \in DOMAIN data_seg THEN data_seg[i] ELSE 0]

(* expand_data, called by sbrk, which returns the old top.                  *)
expand_data(addl) ==
    IF addl < 0 \/ data_top - DATA_BOT + ROUND_UP(addl) > DataLimit
    THEN run_error
    ELSE /\ data_seg' = DataGrown(addl)
         /\ data_top' = data_top + ROUND_UP(addl)
         /\ result' = [op |-> "grow", addr |-> data_top, size |-> addl]
         /\ UNCHANGED <<text_seg, stack_seg, stack_bot, k_data_seg, k_data_top, special_seg>>

(* The loop that zeroes new kernel data adds sizes in words to a pointer to  *)
(* bytes, and so clears the bytes from old_size / 4 to new_size / 4.        *)
Cleared(old_size, new_size) == old_size \div 4 .. new_size \div 4 - 1

KDataGrown(old_size, new_size) ==
    [i \in 0 .. new_size - 1 |->
        IF i \in DOMAIN k_data_seg /\ i \notin Cleared(old_size, new_size)
        THEN k_data_seg[i] ELSE 0]

expand_k_data(addl) ==
    IF k_data_top - K_DATA_BOT + ROUND_UP(addl) > KDataLimit
    THEN run_error
    ELSE /\ k_data_seg' = KDataGrown(k_data_top - K_DATA_BOT,
                                    k_data_top - K_DATA_BOT + ROUND_UP(addl))
         /\ k_data_top' = k_data_top + ROUND_UP(addl)
         /\ result' = [op |-> "grow", addr |-> k_data_top, size |-> addl]
         /\ UNCHANGED <<text_seg, data_seg, data_top, stack_seg, stack_bot, special_seg>>

-----------------------------------------------------------------------------
(* bad_mem_read: the slow path of an aligned load.                          *)
ReadText(a, w) ==
    IF text_seg[Slot(a)] = NullInst /\ w < 4
    THEN NullDereference(a, w)
    ELSE /\ Returns(a, w, [k \in 0 .. w - 1 |-> TextByte(a + k)])
         /\ UNCHANGED segments

ReadBelowStack(a, w) ==
    LET new_size == StackGrown(stack_bot - a + 4)
    IN  IF ~ StackFits(new_size) THEN run_error
        ELSE /\ stack_seg' = StackCopied(new_size)
             /\ stack_bot' = STACK_TOP - new_size
             /\ Returns(a, w, Zeros(w))
             /\ UNCHANGED <<text_seg, data_seg, data_top, k_data_seg, k_data_top, special_seg>>

bad_mem_read(a, w) ==
    IF InText(a) THEN ReadText(a, w)
    ELSE IF InWindow(a) THEN ReadBelowStack(a, w)
    ELSE IF a \in DeviceAddrs THEN read_spimbot_IO(a)
    ELSE Faults("DBE", a, w)

(* read_mem_byte, read_mem_half and read_mem_word.                          *)
read_mem(a, w) ==
    IF ~ Aligned(a, w) THEN Faults("AdEL", a, w)
    ELSE IF InSegment(a)
         THEN Returns(a, w, [k \in 0 .. w - 1 |-> ByteIn(a + k)]) /\ UNCHANGED segments
         ELSE bad_mem_read(a, w)

-----------------------------------------------------------------------------
(* bad_mem_write: a store into text decodes the new word in place.          *)
WriteText(a, w, v) ==
    IF text_seg[Slot(a)] = NullInst /\ w < 4
    THEN NullDereference(a, w)
    ELSE LET low == (a - TEXT_BOT) % 4
             word == [k \in 0 .. 3 |->
                         IF k \in low .. low + w - 1 THEN v[k - low]
                         ELSE text_seg[Slot(a)][k]]
         IN  /\ text_seg' = [text_seg EXCEPT ![Slot(a)] = word]
             /\ Wrote(a, w, v)
             /\ UNCHANGED <<data_seg, data_top, stack_seg, stack_bot,
                            k_data_seg, k_data_top, special_seg>>

(* The store into the grown stack checks that it reached the address.       *)
WriteBelowStack(a, w, v) ==
    LET new_size == StackGrown(stack_bot - a + 4)
        bot == STACK_TOP - new_size
    IN  IF ~ StackFits(new_size) THEN run_error
        ELSE /\ stack_bot' = bot
             /\ IF a >= bot
                THEN stack_seg' = Put(StackCopied(new_size), a - bot, v, w) /\ Wrote(a, w, v)
                ELSE /\ stack_seg' = StackCopied(new_size)
                     /\ result' = [op |-> "fault", code |-> "DBE", addr |-> a, width |-> w]
             /\ UNCHANGED <<text_seg, data_seg, data_top, k_data_seg, k_data_top, special_seg>>

bad_mem_write(a, w, v) ==
    IF InText(a) THEN WriteText(a, w, v)
    ELSE IF InWindow(a) THEN WriteBelowStack(a, w, v)
    ELSE IF a \in DeviceAddrs THEN write_spimbot_IO(a)
    ELSE Faults("DBE", a, w)

(* The fast path of set_mem_byte, set_mem_half and set_mem_word.            *)
WriteSegment(a, w, v) ==
    /\ Wrote(a, w, v)
    /\ data_seg' = IF InData(a) THEN Put(data_seg, a - DATA_BOT, v, w) ELSE data_seg
    /\ stack_seg' = IF ~ InData(a) /\ InStack(a)
                    THEN Put(stack_seg, a - stack_bot, v, w) ELSE stack_seg
    /\ k_data_seg' = IF ~ InData(a) /\ ~ InStack(a) /\ InKData(a)
                     THEN Put(k_data_seg, a - K_DATA_BOT, v, w) ELSE k_data_seg
    /\ special_seg' = IF ~ InData(a) /\ ~ InStack(a) /\ ~ InKData(a)
                      THEN Put(special_seg, a - SPECIAL_BOT, v, w) ELSE special_seg
    /\ UNCHANGED <<text_seg, data_top, stack_bot, k_data_top>>

set_mem(a, w, v) ==
    IF ~ Aligned(a, w) THEN Faults("AdES", a, w)
    ELSE IF InSegment(a) THEN WriteSegment(a, w, v)
    ELSE bad_mem_write(a, w, v)

(* set_mem_inst: outside of text, bad_text_write stores the encoding as     *)
(* data, after an exception that is not modelled here.                      *)
set_mem_inst(a, encoding) ==
    IF InText(a) /\ Aligned(a, 4) THEN WriteText(a, 4, encoding) ELSE set_mem(a, 4, encoding)

-----------------------------------------------------------------------------
Running == result.op \notin {"stop", "crash"}

Access ==
    /\ Running
    /\ \/ \E p \in Loads : read_mem(p[1], p[2])
       \/ \E p \in Stores, v \in Words : set_mem(p[1], p[2], v)
       \/ \E p \in Stores, v \in Words : p[2] = 4 /\ set_mem_inst(p[1], v)

Growth ==
    /\ Running
    /\ \/ \E n \in Sbrks : expand_data(n)
       \/ \E n \in KGrowths : expand_k_data(n)

(* The next program is loaded into a fresh image.                           *)
Reload == result.op # "crash" /\ make_memory

Next == Access \/ Growth \/ Reload

Spec == Init /\ [][Next]_vars

-----------------------------------------------------------------------------
(* No address is in two segments, whatever grows: otherwise the order of    *)
(* the tests in read_mem_word would decide which one an access sees.        *)
SegmentsDisjoint ==
    \A a \in TEXT_BOT .. SPECIAL_TOP - 1 :
        /\ ~ (InText(a) /\ InSegment(a))
        /\ ~ (InData(a) /\ InStack(a))
        /\ ~ (InStack(a) /\ InKData(a))
        /\ ~ (InKData(a) /\ InSpecial(a))

(* An aligned access in the window below the stack never ends in a bus      *)
(* error: expand_stack reaches the address or stops the simulation, and the *)
(* branch of bad_mem_write that raises DBE after growing is dead.           *)
GrowthReachesAddress ==
    [][result'.op = "fault" /\ result'.code = "DBE"
          => ~ InWindow(result'.addr) /\ UNCHANGED segments]_vars

(* The bytes a program can load, and what it would load.                    *)
mapped == {a \in TEXT_BOT .. SPECIAL_TOP - 1 : InText(a) \/ InSegment(a)}
image == [a \in mapped |-> IF InText(a) THEN TextByte(a) ELSE ByteIn(a)]

(* The image behaves as one flat, growing, zero-initialised memory.         *)
Flat == INSTANCE FlatMemory WITH Code <- TEXT_BOT .. TEXT_BOT + TextSize - 1, cells <- image

ImplementsFlatMemory == Flat!Spec
=============================================================================
