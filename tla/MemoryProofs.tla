----------------------------- MODULE MemoryProofs -----------------------------
(***************************************************************************)
(* The arrays of the memory image keep the sizes their bases and tops say,  *)
(* no growth makes two segments meet, and growing the stack always reaches  *)
(* the address that asked for it: for every layout and every limit.  Byte   *)
(* by byte the image is then one flat memory, but for what expand_k_data    *)
(* clears.                                                                 *)
(***************************************************************************)
EXTENDS Memory, TLAPS

(* The sizes that expand_data, expand_stack and expand_k_data keep.         *)
Bounds ==
    /\ DATA_BOT <= data_top /\ data_top <= DATA_BOT + DataLimit
    /\ STACK_TOP - StackLimit <= stack_bot /\ stack_bot < STACK_TOP
    /\ K_DATA_BOT <= k_data_top /\ k_data_top <= K_DATA_BOT + KDataLimit

Inv == TypeOK /\ Bounds

(* The layout assumption, one constant at a time.                          *)
LEMMA LayoutFacts ==
    /\ TEXT_BOT \in Nat /\ DATA_BOT \in Nat /\ STACK_TOP \in Nat
    /\ K_DATA_BOT \in Nat /\ SPECIAL_BOT \in Nat /\ SPECIAL_TOP \in Nat
    /\ TextSize \in Nat /\ DataSize \in Nat /\ StackSize \in Nat /\ KDataSize \in Nat
    /\ DataLimit \in Nat /\ StackLimit \in Nat /\ KDataLimit \in Nat
    /\ WordAligned(TEXT_BOT) /\ WordAligned(DATA_BOT) /\ WordAligned(STACK_TOP)
    /\ WordAligned(K_DATA_BOT) /\ WordAligned(SPECIAL_BOT) /\ WordAligned(SPECIAL_TOP)
    /\ WordAligned(TextSize) /\ WordAligned(DataSize)
    /\ WordAligned(StackSize) /\ WordAligned(KDataSize)
    /\ 0 < TEXT_BOT /\ TEXT_BOT + TextSize <= DATA_BOT
    /\ 0 < DataSize /\ DataSize <= DataLimit
    /\ DATA_BOT + DataLimit <= STACK_TOP - StackLimit
    /\ 0 < StackSize /\ StackSize <= StackLimit
    /\ STACK_TOP <= K_DATA_BOT
    /\ KDataSize <= KDataLimit /\ K_DATA_BOT + KDataLimit <= SPECIAL_BOT
    /\ SPECIAL_BOT <= SPECIAL_TOP
  BY LayoutAssumption

LEMMA RoundUpFact ==
    ASSUME NEW n \in Nat
    PROVE  /\ ROUND_UP(n) \in Nat
           /\ n <= ROUND_UP(n)
           /\ WordAligned(ROUND_UP(n))
  BY DEF ROUND_UP, WordAligned

LEMMA AlignedSums ==
    ASSUME NEW m \in Int, NEW n \in Int, WordAligned(m), WordAligned(n)
    PROVE  WordAligned(m + n) /\ WordAligned(m - n)
  BY DEF WordAligned

LEMMA ZerosFact ==
    ASSUME NEW n \in Nat
    PROVE  Zeros(n) \in [0 .. n - 1 -> Byte]
  BY AccessAssumption DEF Zeros

LEMMA PutFact ==
    ASSUME NEW n \in Nat, NEW seg \in [0 .. n - 1 -> Byte], NEW i \in Int,
           NEW v \in Encoding, NEW w \in {1, 2, 4}
    PROVE  Put(seg, i, v, w) \in [0 .. n - 1 -> Byte]
  BY DEF Put, Encoding

(* Growing the stack for an access in its window reaches the address, and   *)
(* within the limit stays above the data segment.                          *)
LEMMA StackGrowth ==
    ASSUME Inv, NEW a \in Nat, InWindow(a),
           NEW new_size, new_size = StackGrown(stack_bot - a + 4), StackFits(new_size)
    PROVE  /\ new_size \in Nat
           /\ STACK_TOP - new_size \in Nat
           /\ WordAligned(STACK_TOP - new_size)
           /\ STACK_TOP - new_size <= a
           /\ STACK_TOP - new_size < STACK_TOP
           /\ STACK_TOP - StackLimit <= STACK_TOP - new_size
           /\ StackCopied(new_size) \in [0 .. new_size - 1 -> Byte]
  <1> DEFINE addl == stack_bot - a + 4
             old_size == STACK_TOP - stack_bot
             delta == ROUND_UP(addl)
  <1>1. /\ stack_bot \in Nat /\ STACK_TOP \in Nat /\ StackLimit \in Nat
        /\ DATA_BOT \in Nat /\ DataLimit \in Nat
        /\ WordAligned(stack_bot) /\ WordAligned(STACK_TOP)
        /\ stack_bot < STACK_TOP
        /\ DATA_BOT + DataLimit <= STACK_TOP - StackLimit
    BY LayoutFacts DEF Inv, TypeOK, Bounds
  <1>2. a < stack_bot
    BY DEF InWindow
  <1>3. addl \in Nat /\ old_size \in Nat /\ old_size > 0 /\ WordAligned(old_size)
    <2>1. WordAligned(STACK_TOP - stack_bot)
      BY <1>1, AlignedSums
    <2> QED
      BY <1>1, <1>2, <2>1
  <1>4. delta \in Nat /\ addl <= delta /\ WordAligned(delta)
    BY <1>3, RoundUpFact
  <1>5. new_size = old_size + MAX(delta, old_size)
    BY DEF StackGrown
  <1>6. /\ new_size \in Nat /\ old_size + delta <= new_size /\ old_size < new_size
        /\ WordAligned(new_size)
    <2> HIDE DEF delta, old_size, addl
    <2>1. MAX(delta, old_size) \in {delta, old_size} /\ MAX(delta, old_size) >= delta
          /\ MAX(delta, old_size) >= old_size
      BY <1>3, <1>4 DEF MAX
    <2> DEFINE max == MAX(delta, old_size)
    <2> HIDE DEF max
    <2>2. max \in Nat /\ WordAligned(max) /\ max >= delta /\ max >= old_size
      BY <2>1, <1>3, <1>4 DEF max
    <2>3. WordAligned(old_size + max)
      BY <2>2, <1>3, AlignedSums
    <2> QED
      BY <2>2, <2>3, <1>3, <1>4, <1>5 DEF max
  <1>7. new_size <= StackLimit
    BY DEF StackFits
  <1>8. StackCopied(new_size) \in [0 .. new_size - 1 -> Byte]
    <2>1. stack_seg \in [0 .. old_size - 1 -> Byte] /\ 0 \in Byte
      BY AccessAssumption DEF Inv, TypeOK
    <2>2. ASSUME NEW i \in 0 .. new_size - 1, i >= new_size - old_size
          PROVE  stack_seg[i - (new_size - old_size)] \in Byte
      <3> HIDE DEF old_size
      <3>1. i - (new_size - old_size) \in 0 .. old_size - 1
        BY <2>2, <1>3, <1>6
      <3> QED
        BY <3>1, <2>1
    <2> QED
      BY <2>1, <2>2 DEF StackCopied
  <1>9. STACK_TOP - new_size <= a
    <2> HIDE DEF delta
    <2> QED
      BY <1>1, <1>2, <1>4, <1>6
  <1>10. WordAligned(STACK_TOP - new_size)
    BY <1>1, <1>6, AlignedSums
  <1> QED
    BY <1>1, <1>6, <1>7, <1>8, <1>9, <1>10

-----------------------------------------------------------------------------
(* What each operation does to the segments; UNCHANGED segments needs no    *)
(* step of its own.                                                        *)
LEMMA Unchanged ==
    ASSUME Inv, UNCHANGED segments
    PROVE  Inv'
  BY DEF Inv, TypeOK, Bounds, segments, Encoding

LEMMA ReadKeeps ==
    ASSUME Inv, NEW a \in Nat, NEW w \in {1, 2, 4}, read_mem(a, w)
    PROVE  Inv'
  <1>1. CASE UNCHANGED segments
    BY <1>1, Unchanged
  <1>2. CASE InWindow(a) /\ ReadBelowStack(a, w)
    <2> DEFINE new_size == StackGrown(stack_bot - a + 4)
    <2>1. CASE ~ StackFits(new_size)
      BY <1>2, <2>1, Unchanged DEF ReadBelowStack, run_error
    <2>2. CASE StackFits(new_size)
      <3>1. /\ stack_seg' = StackCopied(new_size)
            /\ stack_bot' = STACK_TOP - new_size
            /\ UNCHANGED <<text_seg, data_seg, data_top, k_data_seg, k_data_top, special_seg>>
        BY <1>2, <2>2 DEF ReadBelowStack
      <3> HIDE DEF new_size
      <3>2. /\ new_size \in Nat
            /\ STACK_TOP - new_size \in Nat
            /\ WordAligned(STACK_TOP - new_size)
            /\ STACK_TOP - new_size < STACK_TOP
            /\ STACK_TOP - StackLimit <= STACK_TOP - new_size
            /\ StackCopied(new_size) \in [0 .. new_size - 1 -> Byte]
        BY <1>2, <2>2, StackGrowth DEF new_size
      <3>3. STACK_TOP - stack_bot' = new_size
        BY <3>1, <3>2, LayoutFacts
      <3> QED
        BY <3>1, <3>2, <3>3 DEF Inv, TypeOK, Bounds, Encoding
    <2> QED
      BY <2>1, <2>2
  <1> QED
    BY <1>1, <1>2 DEF read_mem, bad_mem_read, Faults, ReadText, NullDereference, read_spimbot_IO

LEMMA WriteTextKeeps ==
    ASSUME Inv, NEW a \in Nat, NEW w \in {1, 2, 4}, NEW v \in Encoding,
           InText(a), Aligned(a, w), WriteText(a, w, v)
    PROVE  Inv'
  <1>1. CASE UNCHANGED segments
    BY <1>1, Unchanged
  <1>2. CASE ~ (text_seg[Slot(a)] = NullInst /\ w < 4)
    <2> DEFINE low == (a - TEXT_BOT) % 4
               word == [k \in 0 .. 3 |->
                           IF k \in low .. low + w - 1 THEN v[k - low] ELSE text_seg[Slot(a)][k]]
    <2>1. /\ text_seg' = [text_seg EXCEPT ![Slot(a)] = word]
          /\ UNCHANGED <<data_seg, data_top, stack_seg, stack_bot,
                         k_data_seg, k_data_top, special_seg>>
      BY <1>2 DEF WriteText
    <2>2. /\ TEXT_BOT \in Nat /\ WordAligned(TEXT_BOT) /\ TextSize \in Nat
          /\ WordAligned(TextSize)
      BY LayoutFacts
    <2>3. Slot(a) \in 0 .. TextSize \div 4 - 1
      BY <2>2 DEF Slot, InText, WordAligned
    <2>4. low + w <= 4 /\ low \in 0 .. 3
      BY <2>2 DEF Aligned, WordAligned
    <2>5. w < 4 => text_seg[Slot(a)] \in Encoding
      BY <1>2, <2>3 DEF Inv, TypeOK
    <2>6. word \in Encoding
      <3> SUFFICES ASSUME NEW k \in 0 .. 3 PROVE word[k] \in Byte
        BY DEF Encoding
      <3> HIDE DEF low
      <3>1. CASE k \in low .. low + w - 1
        <4>1. k - low \in 0 .. 3
          BY <2>4, <3>1
        <4> QED
          BY <3>1, <4>1 DEF Encoding
      <3>2. CASE k \notin low .. low + w - 1
        <4>1. w < 4
          BY <2>4, <3>2
        <4> QED
          BY <3>2, <4>1, <2>5 DEF Encoding
      <3> QED
        BY <3>1, <3>2
    <2> HIDE DEF word, low
    <2>7. text_seg' \in [0 .. TextSize \div 4 - 1 -> Encoding \cup {NullInst}]
      BY <2>1, <2>3, <2>6 DEF Inv, TypeOK
    <2> QED
      BY <2>1, <2>7 DEF Inv, TypeOK, Bounds, Encoding
  <1> QED
    BY <1>1, <1>2 DEF WriteText, NullDereference

LEMMA WriteBelowKeeps ==
    ASSUME Inv, NEW a \in Nat, NEW w \in {1, 2, 4}, NEW v \in Encoding,
           InWindow(a), WriteBelowStack(a, w, v)
    PROVE  Inv' /\ result'.op # "fault"
  <1> DEFINE new_size == StackGrown(stack_bot - a + 4)
             bot == STACK_TOP - new_size
  <1>1. CASE ~ StackFits(new_size)
    <2>1. UNCHANGED segments /\ result' = [op |-> "stop"]
      BY <1>1 DEF WriteBelowStack, run_error
    <2> QED
      BY <2>1, Unchanged
  <1>2. CASE StackFits(new_size)
    <2>1. /\ new_size \in Nat
          /\ bot \in Nat /\ WordAligned(bot)
          /\ bot <= a /\ bot < STACK_TOP
          /\ STACK_TOP - StackLimit <= bot
          /\ StackCopied(new_size) \in [0 .. new_size - 1 -> Byte]
      <3> HIDE DEF new_size
      <3> QED
        BY <1>2, StackGrowth DEF new_size
    <2>2. /\ stack_seg' = Put(StackCopied(new_size), a - bot, v, w)
          /\ Wrote(a, w, v)
          /\ stack_bot' = bot
          /\ UNCHANGED <<text_seg, data_seg, data_top, k_data_seg, k_data_top, special_seg>>
      BY <1>2, <2>1 DEF WriteBelowStack
    <2> HIDE DEF new_size
    <2>3. STACK_TOP - bot = new_size
      BY <2>1, LayoutFacts
    <2>4. stack_seg' \in [0 .. new_size - 1 -> Byte]
      BY <2>1, <2>2, PutFact
    <2>5. Inv'
      BY <2>1, <2>2, <2>3, <2>4 DEF Inv, TypeOK, Bounds, Encoding
    <2>6. result'.op = "write"
      BY <2>2 DEF Wrote
    <2> QED
      BY <2>5, <2>6
  <1> QED
    BY <1>1, <1>2

LEMMA WriteSegmentKeeps ==
    ASSUME Inv, NEW a \in Nat, NEW w \in {1, 2, 4}, NEW v \in Encoding,
           WriteSegment(a, w, v)
    PROVE  Inv'
  <1>1. /\ data_top - DATA_BOT \in Nat /\ STACK_TOP - stack_bot \in Nat
        /\ k_data_top - K_DATA_BOT \in Nat /\ SPECIAL_TOP - SPECIAL_BOT \in Nat
        /\ a - DATA_BOT \in Int /\ a - stack_bot \in Int
        /\ a - K_DATA_BOT \in Int /\ a - SPECIAL_BOT \in Int
    BY LayoutFacts DEF Inv, TypeOK, Bounds
  <1>2. data_seg' \in [0 .. data_top - DATA_BOT - 1 -> Byte]
    BY <1>1, PutFact DEF WriteSegment, Inv, TypeOK
  <1>3. stack_seg' \in [0 .. STACK_TOP - stack_bot - 1 -> Byte]
    BY <1>1, PutFact DEF WriteSegment, Inv, TypeOK
  <1>4. k_data_seg' \in [0 .. k_data_top - K_DATA_BOT - 1 -> Byte]
    BY <1>1, PutFact DEF WriteSegment, Inv, TypeOK
  <1>5. special_seg' \in [0 .. SPECIAL_TOP - SPECIAL_BOT - 1 -> Byte]
    BY <1>1, PutFact DEF WriteSegment, Inv, TypeOK
  <1> QED
    BY <1>2, <1>3, <1>4, <1>5 DEF WriteSegment, Inv, TypeOK, Bounds, Encoding

LEMMA WriteKeeps ==
    ASSUME Inv, NEW a \in Nat, NEW w \in {1, 2, 4}, NEW v \in Encoding, set_mem(a, w, v)
    PROVE  Inv'
  <1>1. CASE UNCHANGED segments
    BY <1>1, Unchanged
  <1>2. CASE Aligned(a, w) /\ InText(a) /\ WriteText(a, w, v)
    BY <1>2, WriteTextKeeps
  <1>3. CASE InWindow(a) /\ WriteBelowStack(a, w, v)
    BY <1>3, WriteBelowKeeps
  <1>4. CASE WriteSegment(a, w, v)
    BY <1>4, WriteSegmentKeeps
  <1> QED
    BY <1>1, <1>2, <1>3, <1>4 DEF set_mem, bad_mem_write, Faults, write_spimbot_IO

LEMMA DataGrowth ==
    ASSUME Inv, NEW n \in Int, expand_data(n)
    PROVE  Inv'
  <1>1. CASE run_error
    BY <1>1, Unchanged DEF run_error
  <1>2. CASE ~ (n < 0 \/ data_top - DATA_BOT + ROUND_UP(n) > DataLimit)
    <2> DEFINE delta == ROUND_UP(n)
    <2>1. n \in Nat
      BY <1>2
    <2>2. delta \in Nat /\ WordAligned(delta)
      BY <2>1, RoundUpFact
    <2>3. /\ data_seg' = DataGrown(n) /\ data_top' = data_top + delta
          /\ UNCHANGED <<text_seg, stack_seg, stack_bot, k_data_seg, k_data_top, special_seg>>
      BY <1>2 DEF expand_data
    <2>4. /\ data_top \in Nat /\ DATA_BOT \in Nat /\ DATA_BOT <= data_top /\ DataLimit \in Nat
          /\ WordAligned(data_top)
          /\ data_seg \in [0 .. data_top - DATA_BOT - 1 -> Byte] /\ 0 \in Byte
      BY LayoutFacts, AccessAssumption DEF Inv, TypeOK, Bounds
    <2>5. data_top - DATA_BOT + delta <= DataLimit
      <3> HIDE DEF delta
      <3>1. ~ (data_top - DATA_BOT + delta > DataLimit)
        BY <1>2 DEF delta
      <3> QED
        BY <3>1, <2>2, <2>4
    <2>6. DataGrown(n) \in [0 .. data_top - DATA_BOT + delta - 1 -> Byte]
      BY <2>4 DEF DataGrown
    <2> HIDE DEF delta
    <2>7. /\ data_top' \in Nat /\ WordAligned(data_top')
          /\ data_top' - DATA_BOT - 1 = data_top - DATA_BOT + delta - 1
          /\ DATA_BOT <= data_top' /\ data_top' <= DATA_BOT + DataLimit
      <3>1. WordAligned(data_top + delta)
        BY <2>2, <2>4, AlignedSums
      <3> QED
        BY <2>2, <2>3, <2>4, <2>5, <3>1
    <2>8. data_seg' \in [0 .. data_top' - DATA_BOT - 1 -> Byte]
      BY <2>3, <2>6, <2>7
    <2> QED
      BY <2>3, <2>7, <2>8 DEF Inv, TypeOK, Bounds, Encoding
  <1> QED
    BY <1>1, <1>2 DEF expand_data

LEMMA KDataGrownFact ==
    ASSUME NEW m \in Nat, NEW n \in Int, k_data_seg \in [0 .. m - 1 -> Byte]
    PROVE  KDataGrown(m, n) \in [0 .. n - 1 -> Byte]
  BY AccessAssumption DEF KDataGrown

LEMMA KDataGrowth ==
    ASSUME Inv, NEW n \in Nat, expand_k_data(n)
    PROVE  Inv'
  <1>1. CASE run_error
    BY <1>1, Unchanged DEF run_error
  <1>2. CASE ~ (k_data_top - K_DATA_BOT + ROUND_UP(n) > KDataLimit)
    <2> DEFINE delta == ROUND_UP(n)
               size == k_data_top - K_DATA_BOT
    <2>1. delta \in Nat /\ WordAligned(delta)
      BY RoundUpFact
    <2>2. /\ k_data_seg' = KDataGrown(size, size + delta) /\ k_data_top' = k_data_top + delta
          /\ UNCHANGED <<text_seg, data_seg, data_top, stack_seg, stack_bot, special_seg>>
      BY <1>2 DEF expand_k_data
    <2>3. /\ k_data_top \in Nat /\ K_DATA_BOT \in Nat /\ K_DATA_BOT <= k_data_top
          /\ KDataLimit \in Nat /\ WordAligned(k_data_top)
          /\ k_data_seg \in [0 .. size - 1 -> Byte] /\ 0 \in Byte
      BY LayoutFacts, AccessAssumption DEF Inv, TypeOK, Bounds
    <2>4. size + delta <= KDataLimit
      <3> HIDE DEF delta
      <3>1. ~ (size + delta > KDataLimit)
        BY <1>2 DEF delta
      <3> QED
        BY <3>1, <2>1, <2>3
    <2>5. KDataGrown(size, size + delta) \in [0 .. size + delta - 1 -> Byte]
      BY <2>1, <2>3, KDataGrownFact
    <2> HIDE DEF delta
    <2>6. /\ k_data_top' \in Nat /\ WordAligned(k_data_top')
          /\ k_data_top' - K_DATA_BOT - 1 = size + delta - 1
          /\ K_DATA_BOT <= k_data_top' /\ k_data_top' <= K_DATA_BOT + KDataLimit
      <3>1. WordAligned(k_data_top + delta)
        BY <2>1, <2>3, AlignedSums
      <3> QED
        BY <2>1, <2>2, <2>3, <2>4, <3>1
    <2>7. k_data_seg' \in [0 .. k_data_top' - K_DATA_BOT - 1 -> Byte]
      BY <2>2, <2>5, <2>6
    <2> QED
      BY <2>2, <2>6, <2>7 DEF Inv, TypeOK, Bounds, Encoding
  <1> QED
    BY <1>1, <1>2 DEF expand_k_data

(* Both Init and make_memory.                                              *)
LEMMA Initially == Init => Inv
  <1> SUFFICES ASSUME Init PROVE Inv
    OBVIOUS
  <1>1. /\ DataSize \in Nat /\ StackSize \in Nat /\ KDataSize \in Nat
        /\ SPECIAL_TOP - SPECIAL_BOT \in Nat
        /\ data_top - DATA_BOT = DataSize /\ STACK_TOP - stack_bot = StackSize
        /\ k_data_top - K_DATA_BOT = KDataSize
    BY LayoutFacts DEF Init
  <1>2. /\ data_seg \in [0 .. data_top - DATA_BOT - 1 -> Byte]
        /\ stack_seg \in [0 .. STACK_TOP - stack_bot - 1 -> Byte]
        /\ k_data_seg \in [0 .. k_data_top - K_DATA_BOT - 1 -> Byte]
        /\ special_seg \in [0 .. SPECIAL_TOP - SPECIAL_BOT - 1 -> Byte]
    BY <1>1, ZerosFact DEF Init
  <1>3. /\ data_top \in Nat /\ stack_bot \in Nat /\ k_data_top \in Nat
    BY LayoutFacts DEF Init
  <1>4. WordAligned(data_top) /\ WordAligned(stack_bot) /\ WordAligned(k_data_top)
    BY LayoutFacts, AlignedSums DEF Init
  <1>5. text_seg \in [0 .. TextSize \div 4 - 1 -> Encoding \cup {NullInst}]
    BY DEF Init
  <1>6. Bounds
    BY LayoutFacts DEF Init, Bounds
  <1> QED
    BY <1>2, <1>3, <1>4, <1>5, <1>6 DEF Inv, TypeOK

LEMMA ReloadKeeps ==
    ASSUME make_memory
    PROVE  Inv'
  <1>1. /\ DataSize \in Nat /\ StackSize \in Nat /\ KDataSize \in Nat
        /\ SPECIAL_TOP - SPECIAL_BOT \in Nat
        /\ data_top' - DATA_BOT = DataSize /\ STACK_TOP - stack_bot' = StackSize
        /\ k_data_top' - K_DATA_BOT = KDataSize
    BY LayoutFacts DEF make_memory
  <1>2. /\ data_seg' \in [0 .. data_top' - DATA_BOT - 1 -> Byte]
        /\ stack_seg' \in [0 .. STACK_TOP - stack_bot' - 1 -> Byte]
        /\ k_data_seg' \in [0 .. k_data_top' - K_DATA_BOT - 1 -> Byte]
        /\ special_seg' \in [0 .. SPECIAL_TOP - SPECIAL_BOT - 1 -> Byte]
    BY <1>1, ZerosFact DEF make_memory
  <1>3. /\ data_top' \in Nat /\ stack_bot' \in Nat /\ k_data_top' \in Nat
    BY LayoutFacts DEF make_memory
  <1>4. WordAligned(data_top') /\ WordAligned(stack_bot') /\ WordAligned(k_data_top')
    BY LayoutFacts, AlignedSums DEF make_memory
  <1>5. text_seg' \in [0 .. TextSize \div 4 - 1 -> Encoding \cup {NullInst}]
    BY DEF make_memory
  <1>6. Bounds'
    BY LayoutFacts DEF make_memory, Bounds
  <1> QED
    BY <1>2, <1>3, <1>4, <1>5, <1>6 DEF Inv, TypeOK, Encoding

LEMMA StepKeeps == Inv /\ [Next]_vars => Inv'
  <1> SUFFICES ASSUME Inv, [Next]_vars PROVE Inv'
    OBVIOUS
  <1>1. ASSUME NEW p \in Loads, read_mem(p[1], p[2]) PROVE Inv'
    <2>1. p[1] \in Nat /\ p[2] \in {1, 2, 4}
      BY AccessAssumption
    <2> QED
      BY <1>1, <2>1, ReadKeeps
  <1>2. ASSUME NEW p \in Stores, NEW v \in Words, set_mem(p[1], p[2], v) PROVE Inv'
    <2>1. p[1] \in Nat /\ p[2] \in {1, 2, 4} /\ v \in Encoding
      BY AccessAssumption DEF Encoding
    <2> QED
      BY <1>2, <2>1, WriteKeeps
  <1>3. ASSUME NEW p \in Stores, NEW v \in Words, set_mem_inst(p[1], v) PROVE Inv'
    <2>1. p[1] \in Nat /\ v \in Encoding
      BY AccessAssumption DEF Encoding
    <2>2. CASE InText(p[1]) /\ Aligned(p[1], 4)
      BY <1>3, <2>1, <2>2, WriteTextKeeps DEF set_mem_inst
    <2>3. CASE ~ (InText(p[1]) /\ Aligned(p[1], 4))
      BY <1>3, <2>1, <2>3, WriteKeeps DEF set_mem_inst
    <2> QED
      BY <2>2, <2>3
  <1>4. ASSUME NEW n \in Sbrks, expand_data(n) PROVE Inv'
    BY <1>4, AccessAssumption, DataGrowth
  <1>5. ASSUME NEW n \in KGrowths, expand_k_data(n) PROVE Inv'
    BY <1>5, AccessAssumption, KDataGrowth
  <1>6. CASE make_memory
    BY <1>6, ReloadKeeps
  <1>7. CASE UNCHANGED vars
    BY <1>7, Unchanged DEF vars, segments
  <1> QED
    BY <1>1, <1>2, <1>3, <1>4, <1>5, <1>6, <1>7 DEF Next, Access, Growth, Reload

LEMMA Invariance == Spec => []Inv
  BY Initially, StepKeeps, PTL DEF Spec

(* The arrays always have the size that data_top, stack_bot and k_data_top  *)
(* give them, whatever the loads, stores, growth and reloads.               *)
THEOREM MemoryTypes == Spec => []TypeOK
  <1>1. Inv => TypeOK
    BY DEF Inv
  <1> QED
    BY <1>1, Invariance, PTL

(* No address is in two segments, for every layout whose limits fit.        *)
THEOREM MemoryDisjoint == Spec => []SegmentsDisjoint
  <1>1. Inv => SegmentsDisjoint
    BY LayoutFacts
       DEF Inv, TypeOK, Bounds, SegmentsDisjoint, InText, InSegment, InData, InStack, InKData,
           InSpecial
  <1> QED
    BY <1>1, Invariance, PTL

-----------------------------------------------------------------------------
(* A store, and a load, that ends in a bus error has changed nothing and    *)
(* was outside of the window.                                              *)
LEMMA StoreReaches ==
    ASSUME Inv, NEW a \in Nat, NEW w \in {1, 2, 4}, NEW v \in Encoding, set_mem(a, w, v),
           result'.op = "fault", result'.code = "DBE"
    PROVE  ~ InWindow(result'.addr) /\ UNCHANGED segments
  <1>1. CASE ~ Aligned(a, w)
    BY <1>1 DEF set_mem, Faults
  <1>2. CASE InSegment(a) /\ WriteSegment(a, w, v)
    BY <1>2 DEF WriteSegment, Wrote
  <1>3. CASE WriteText(a, w, v)
    BY <1>3 DEF WriteText, Wrote, NullDereference
  <1>4. CASE InWindow(a) /\ WriteBelowStack(a, w, v)
    BY <1>4, WriteBelowKeeps
  <1>5. CASE write_spimbot_IO(a)
    BY <1>5 DEF write_spimbot_IO
  <1>6. CASE ~ InWindow(a) /\ Faults("DBE", a, w)
    BY <1>6 DEF Faults
  <1> QED
    BY <1>1, <1>2, <1>3, <1>4, <1>5, <1>6 DEF set_mem, bad_mem_write

LEMMA LoadReaches ==
    ASSUME NEW a \in Nat, NEW w \in {1, 2, 4}, read_mem(a, w),
           result'.op = "fault", result'.code = "DBE"
    PROVE  ~ InWindow(result'.addr) /\ UNCHANGED segments
  <1>1. CASE ~ Aligned(a, w)
    BY <1>1 DEF read_mem, Faults
  <1>2. CASE Returns(a, w, [k \in 0 .. w - 1 |-> ByteIn(a + k)])
    BY <1>2 DEF Returns
  <1>3. CASE ReadText(a, w)
    BY <1>3 DEF ReadText, Returns, NullDereference
  <1>4. CASE ReadBelowStack(a, w)
    BY <1>4 DEF ReadBelowStack, Returns, run_error
  <1>5. CASE read_spimbot_IO(a)
    BY <1>5 DEF read_spimbot_IO
  <1>6. CASE ~ InWindow(a) /\ Faults("DBE", a, w)
    BY <1>6 DEF Faults
  <1> QED
    BY <1>1, <1>2, <1>3, <1>4, <1>5, <1>6 DEF read_mem, bad_mem_read

(* An aligned access in the window below the stack grows it to the address  *)
(* or stops at the limit; bad_mem_write's bus error after growing is dead.  *)
THEOREM GrowthReaches == Spec => GrowthReachesAddress
  <1> DEFINE Bus == result'.op = "fault" /\ result'.code = "DBE"
             Reaches == Bus => ~ InWindow(result'.addr) /\ UNCHANGED segments
  <1>1. Inv /\ [Next]_vars => [Reaches]_vars
    <2> SUFFICES ASSUME Inv, Next, Bus
                 PROVE  ~ InWindow(result'.addr) /\ UNCHANGED segments
      OBVIOUS
    <2>1. ASSUME NEW p \in Loads, read_mem(p[1], p[2])
          PROVE  ~ InWindow(result'.addr) /\ UNCHANGED segments
      <3>1. p[1] \in Nat /\ p[2] \in {1, 2, 4}
        BY AccessAssumption
      <3> QED
        BY <2>1, <3>1, LoadReaches
    <2>2. ASSUME NEW p \in Stores, NEW v \in Words, set_mem(p[1], p[2], v)
          PROVE  ~ InWindow(result'.addr) /\ UNCHANGED segments
      <3>1. p[1] \in Nat /\ p[2] \in {1, 2, 4} /\ v \in Encoding
        BY AccessAssumption DEF Encoding
      <3> QED
        BY <2>2, <3>1, StoreReaches
    <2>3. ASSUME NEW p \in Stores, NEW v \in Words, set_mem_inst(p[1], v)
          PROVE  ~ InWindow(result'.addr) /\ UNCHANGED segments
      <3>1. p[1] \in Nat /\ v \in Encoding
        BY AccessAssumption DEF Encoding
      <3>2. CASE WriteText(p[1], 4, v)
        BY <3>2 DEF WriteText, Wrote, NullDereference
      <3>3. CASE set_mem(p[1], 4, v)
        BY <3>1, <3>3, StoreReaches
      <3> QED
        BY <2>3, <3>2, <3>3 DEF set_mem_inst
    <2>4. CASE Growth
      BY <2>4 DEF Growth, expand_data, expand_k_data, run_error
    <2>5. CASE Reload
      BY <2>5 DEF Reload, make_memory
    <2> QED
      BY <2>1, <2>2, <2>3, <2>4, <2>5 DEF Next, Access
  <1> QED
    BY <1>1, Invariance, PTL DEF Spec, GrowthReachesAddress


-----------------------------------------------------------------------------
(* The image, byte by byte.                                                 *)
ImageIs ==
    /\ DOMAIN image = mapped
    /\ \A b \in Int : b \in mapped <=> InText(b) \/ InSegment(b)
    /\ \A b \in mapped : image[b] = IF InText(b) THEN TextByte(b) ELSE ByteIn(b)

LEMMA ImageFact == Inv => ImageIs
<1> SUFFICES ASSUME Inv PROVE ImageIs
  OBVIOUS
<1>1. \A b \in Int : b \in mapped <=> InText(b) \/ InSegment(b)
  BY LayoutFacts DEF Inv, TypeOK, Bounds, mapped, InText, InSegment, InData, InStack, InKData, InSpecial
<1> QED
  BY <1>1 DEF ImageIs, image

LEMMA ImageKept == UNCHANGED segments => image' = image /\ mapped' = mapped
BY DEF segments, image, mapped, InText, InSegment, InData, InStack, InKData, InSpecial, TextByte, ByteIn, Slot

(* An aligned access does not leave the segment it begins in.               *)
LEMMA SpanFact ==
    ASSUME NEW a \in Nat, NEW w \in {1, 2, 4}, Aligned(a, w),
           NEW lo \in Nat, NEW hi \in Nat, WordAligned(lo), WordAligned(hi), lo <= a, a < hi,
           NEW b \in a .. a + w - 1
    PROVE  b \in Nat /\ lo <= b /\ b < hi
<1>1. CASE w = 1
  BY <1>1
<1>2. CASE w = 2
  BY <1>2 DEF Aligned, WordAligned
<1>3. CASE w = 4
  BY <1>3 DEF Aligned, WordAligned
<1> QED
  BY <1>1, <1>2, <1>3

LEMMA SegmentSpan ==
    ASSUME Inv, NEW a \in Nat, NEW w \in {1, 2, 4}, Aligned(a, w), NEW b \in a .. a + w - 1
    PROVE  /\ InText(a) => InText(b)
           /\ InData(a) => InData(b)
           /\ InStack(a) => InStack(b)
           /\ InKData(a) => InKData(b)
           /\ InSpecial(a) => InSpecial(b)
<1>1. WordAligned(TEXT_BOT + TextSize) /\ TEXT_BOT + TextSize \in Nat
  BY LayoutFacts, AlignedSums
<1>2. /\ data_top \in Nat /\ WordAligned(data_top) /\ stack_bot \in Nat /\ WordAligned(stack_bot)
      /\ k_data_top \in Nat /\ WordAligned(k_data_top)
  BY DEF Inv, TypeOK
<1>3. InText(a) => InText(b)
  <2> DEFINE end == TEXT_BOT + TextSize
  <2>1. end \in Nat /\ WordAligned(end) /\ TEXT_BOT \in Nat /\ WordAligned(TEXT_BOT)
    BY <1>1, LayoutFacts
  <2>2. \A c \in Int : InText(c) <=> TEXT_BOT <= c /\ c < end
    BY DEF InText
  <2> HIDE DEF end
  <2> QED
    BY <2>1, <2>2, SpanFact
<1>4. InData(a) => InData(b)
  BY <1>2, LayoutFacts, SpanFact DEF InData
<1>5. InStack(a) => InStack(b)
  BY <1>2, LayoutFacts, SpanFact DEF InStack
<1>6. InKData(a) => InKData(b)
  BY <1>2, LayoutFacts, SpanFact DEF InKData
<1>7. InSpecial(a) => InSpecial(b)
  BY LayoutFacts, SpanFact DEF InSpecial
<1> QED
  BY <1>3, <1>4, <1>5, <1>6, <1>7

SegmentsApart ==
    \A b \in Int :
        /\ InText(b) => ~ InData(b) /\ ~ InStack(b) /\ ~ InKData(b) /\ ~ InSpecial(b)
        /\ InData(b) => ~ InStack(b) /\ ~ InKData(b) /\ ~ InSpecial(b)
        /\ InStack(b) => ~ InKData(b) /\ ~ InSpecial(b)
        /\ InKData(b) => ~ InSpecial(b)

LEMMA Apart == Inv => SegmentsApart
BY LayoutFacts DEF Inv, TypeOK, Bounds, SegmentsApart, InText, InData, InStack, InKData, InSpecial

-----------------------------------------------------------------------------
(* A load that leaves the image as it is, or with new zeros.                *)
LEMMA LoadIsFlat ==
    ASSUME Inv, Inv', NEW a \in Nat, NEW w \in {1, 2, 4}, Aligned(a, w), NEW value, Returns(a, w, value),
           a .. a + w - 1 \subseteq mapped', mapped \subseteq mapped',
           a \in mapped => mapped' = mapped,
           \A b \in mapped' : image'[b] = IF b \in mapped THEN image[b] ELSE 0,
           \A k \in 0 .. w - 1 : value[k] = image'[a + k]
    PROVE  Flat!Access
<1>1. ImageIs /\ ImageIs'
  BY ImageFact, PTL
<1>2. DOMAIN image = mapped /\ DOMAIN image' = mapped'
  BY <1>1 DEF ImageIs
<1>3. /\ result'.op = "read" /\ result'.addr = a /\ result'.width = w
      /\ \A k \in 0 .. w - 1 : result'.value[k] = value[k]
  BY DEF Returns
<1>4. \A k \in 0 .. w - 1 : a + k \in a .. a + w - 1
  OBVIOUS
<1>5. a \in a .. a + w - 1
  OBVIOUS
<1>6. Flat!KeepsTheRest(a, w)
  BY <1>2 DEF Flat!KeepsTheRest, Flat!Mapped, Flat!Span
<1>7. Flat!Read(a, w)
  BY <1>2, <1>3, <1>4, <1>6 DEF Flat!Read, Flat!Mapped
<1>8. Flat!GrowsIfNeeded(a, w)
  BY <1>2, <1>5 DEF Flat!GrowsIfNeeded, Flat!Mapped, Flat!Span
<1> QED
  BY <1>3, <1>7, <1>8 DEF Flat!Access, Aligned

LEMMA StoreIsFlat ==
    ASSUME Inv, Inv', NEW a \in Nat, NEW w \in {1, 2, 4}, Aligned(a, w), NEW v, Wrote(a, w, v),
           a .. a + w - 1 \subseteq mapped', mapped \subseteq mapped',
           a \in mapped => mapped' = mapped,
           \A b \in mapped' : image'[b] = IF b \in a .. a + w - 1 THEN v[b - a]
                                          ELSE IF b \in mapped THEN image[b] ELSE 0
    PROVE  Flat!Access
<1>1. ImageIs /\ ImageIs'
  BY ImageFact, PTL
<1>2. DOMAIN image = mapped /\ DOMAIN image' = mapped'
  BY <1>1 DEF ImageIs
<1>3. result'.op = "write" /\ result'.addr = a /\ result'.width = w /\ result'.value = v
  BY DEF Wrote
<1>4. \A k \in 0 .. w - 1 : a + k \in a .. a + w - 1 /\ a + k - a = k
  OBVIOUS
<1>5. a \in a .. a + w - 1
  OBVIOUS
<1>6. Flat!KeepsTheRest(a, w)
  BY <1>2 DEF Flat!KeepsTheRest, Flat!Mapped, Flat!Span
<1>7. Flat!Write(a, w)
  BY <1>2, <1>3, <1>4, <1>6 DEF Flat!Write
<1>8. Flat!GrowsIfNeeded(a, w)
  BY <1>2, <1>5 DEF Flat!GrowsIfNeeded, Flat!Mapped, Flat!Span
<1> QED
  BY <1>3, <1>7, <1>8 DEF Flat!Access, Aligned

LEMMA FaultIsFlat ==
    ASSUME Inv, NEW a \in Nat, NEW w \in {1, 2, 4}, NEW code, Faults(code, a, w),
           ~ Aligned(a, w) \/ a \notin mapped
    PROVE  Flat!Fault
<1>1. DOMAIN image = mapped /\ image' = image /\ a \in a .. a + w - 1
  BY ImageFact, ImageKept DEF ImageIs, Faults
<1>2. result'.op = "fault" /\ result'.addr = a /\ result'.width = w
  BY DEF Faults
<1> QED
  BY <1>1, <1>2 DEF Flat!Fault, Flat!Span, Flat!Mapped, Aligned

LEMMA DeviceIsFlat ==
    ASSUME Inv, NEW a \in DeviceAddrs, read_spimbot_IO(a) \/ write_spimbot_IO(a)
    PROVE  Flat!Device
<1>1. a \notin mapped
  BY AccessAssumption, LayoutFacts DEF mapped
<1>2. DOMAIN image = mapped /\ image' = image
  BY ImageFact, ImageKept DEF ImageIs, read_spimbot_IO, write_spimbot_IO
<1>3. result'.op = "device" /\ result'.addr = a
  BY DEF read_spimbot_IO, write_spimbot_IO
<1> QED
  BY <1>1, <1>2, <1>3 DEF Flat!Device, Flat!Mapped

LEMMA StopIsFlat == run_error => Flat!Stop
BY ImageKept DEF run_error, Flat!Stop

LEMMA CrashIsFlat ==
    ASSUME NEW a \in Nat, NEW w \in {1, 2, 4}, w < 4, InText(a), NullDereference(a, w)
    PROVE  Flat!Crash
<1>1. a \in TEXT_BOT .. TEXT_BOT + TextSize - 1
  BY LayoutFacts DEF InText
<1>2. image' = image /\ result'.op = "crash" /\ result'.addr = a /\ result'.width = w
  BY ImageKept DEF NullDereference
<1> QED
  BY <1>1, <1>2 DEF Flat!Crash

(* Where nothing but the result, or only bytes, changes.                    *)
LEMMA SameMap ==
    ASSUME UNCHANGED <<data_top, stack_bot, k_data_top>>
    PROVE  mapped' = mapped
BY DEF mapped, InText, InSegment, InData, InStack, InKData, InSpecial

LEMMA LoadMapped ==
    ASSUME Inv, Inv', NEW a \in Nat, NEW w \in {1, 2, 4}, Aligned(a, w), InSegment(a),
           Returns(a, w, [k \in 0 .. w - 1 |-> ByteIn(a + k)]), UNCHANGED segments
    PROVE  Flat!Access
<1> DEFINE value == [k \in 0 .. w - 1 |-> ByteIn(a + k)]
<1>1. image' = image /\ mapped' = mapped /\ ImageIs
  BY ImageFact, ImageKept
<1>2. ASSUME NEW b \in a .. a + w - 1
      PROVE  b \in mapped /\ image[b] = ByteIn(b)
  <2>1. InSegment(b) /\ b \in Int /\ ~ InText(b)
    BY SegmentSpan, Apart DEF InSegment, SegmentsApart
  <2> QED
    BY <1>1, <2>1 DEF ImageIs
<1>3. \A k \in 0 .. w - 1 : value[k] = image[a + k]
  <2>1. \A k \in 0 .. w - 1 : a + k \in a .. a + w - 1
    OBVIOUS
  <2> QED
    BY <1>2, <2>1
<1>4. Returns(a, w, value)
  OBVIOUS
<1> HIDE DEF value
<1> QED
  BY <1>1, <1>2, <1>3, <1>4, LoadIsFlat

LEMMA LoadText ==
    ASSUME Inv, Inv', NEW a \in Nat, NEW w \in {1, 2, 4}, Aligned(a, w), InText(a),
           Returns(a, w, [k \in 0 .. w - 1 |-> TextByte(a + k)]), UNCHANGED segments
    PROVE  Flat!Access
<1> DEFINE value == [k \in 0 .. w - 1 |-> TextByte(a + k)]
<1>1. image' = image /\ mapped' = mapped /\ ImageIs
  BY ImageFact, ImageKept
<1>2. ASSUME NEW b \in a .. a + w - 1
      PROVE  b \in mapped /\ image[b] = TextByte(b)
  <2>1. InText(b) /\ b \in Int
    BY SegmentSpan
  <2> QED
    BY <1>1, <2>1 DEF ImageIs
<1>3. \A k \in 0 .. w - 1 : value[k] = image[a + k]
  <2>1. \A k \in 0 .. w - 1 : a + k \in a .. a + w - 1
    OBVIOUS
  <2> QED
    BY <1>2, <2>1
<1>4. Returns(a, w, value)
  OBVIOUS
<1> HIDE DEF value
<1> QED
  BY <1>1, <1>2, <1>3, <1>4, LoadIsFlat

(* The grown stack: the bytes of before where they were, zeros below.       *)
LEMMA GrownStack ==
    ASSUME Inv, Inv', NEW new_size \in Nat, STACK_TOP - new_size < stack_bot,
           stack_bot' = STACK_TOP - new_size,
           NEW copied, copied = StackCopied(new_size),
           UNCHANGED <<text_seg, data_seg, data_top, k_data_seg, k_data_top, special_seg>>
    PROVE  /\ mapped' = mapped \cup (STACK_TOP - new_size .. stack_bot - 1)
           /\ mapped \cap (STACK_TOP - new_size .. stack_bot - 1) = {}
           /\ \A b \in mapped' : InStack(b)' =>
                copied[b - stack_bot'] = IF b \in mapped THEN image[b] ELSE 0
           /\ \A b \in mapped' : ~ InStack(b)' => b \in mapped /\ image'[b] = image[b]
           /\ \A b \in mapped' : InStack(b)' => image'[b] = stack_seg'[b - stack_bot']
<1> DEFINE bot == STACK_TOP - new_size
<1>1. ImageIs /\ ImageIs'
  BY ImageFact, PTL
<1>2. /\ stack_bot \in Nat /\ STACK_TOP \in Nat /\ stack_bot < STACK_TOP
      /\ bot \in Int /\ bot = stack_bot' /\ bot < stack_bot
  BY LayoutFacts DEF Inv, TypeOK, Bounds
<1>3. /\ \A b \in Int : InText(b)' <=> InText(b)
      /\ \A b \in Int : InData(b)' <=> InData(b)
      /\ \A b \in Int : InKData(b)' <=> InKData(b)
      /\ \A b \in Int : InSpecial(b)' <=> InSpecial(b)
      /\ \A b \in Int : InStack(b)' <=> InStack(b) \/ b \in bot .. stack_bot - 1
      /\ \A b \in Int : InStack(b) => b \notin bot .. stack_bot - 1
  BY <1>2 DEF InText, InData, InStack, InKData, InSpecial
<1>4. \A b \in Int : InStack(b)' => ~ InText(b) /\ ~ InData(b) /\ ~ InKData(b) /\ ~ InSpecial(b)
  <2>1. SegmentsApart'
    BY Apart, PTL
  <2>2. \A b \in Int : InStack(b)' => ~ InText(b)' /\ ~ InData(b)' /\ ~ InKData(b)' /\ ~ InSpecial(b)'
    BY <2>1 DEF SegmentsApart
  <2> QED
    BY <1>3, <2>2
<1>5. /\ mapped \subseteq Int /\ mapped' \subseteq Int
      /\ \A b \in Int : b \in mapped <=> InText(b) \/ InSegment(b)
      /\ \A b \in Int : b \in mapped' <=> InText(b)' \/ InSegment(b)'
  <2>1. mapped \subseteq Int /\ mapped' \subseteq Int
    BY DEF mapped
  <2> QED
    BY <1>1, <2>1 DEF ImageIs
<1>6. mapped \cap (bot .. stack_bot - 1) = {}
  BY <1>2, <1>3, <1>4, <1>5 DEF InSegment
<1>7. mapped' = mapped \cup (bot .. stack_bot - 1)
  <2>1. bot .. stack_bot - 1 \subseteq Int
    BY <1>2
  <2> HIDE DEF bot
  <2> QED
    BY <1>3, <1>5, <2>1 DEF InSegment
<1>8. ASSUME NEW b \in mapped', InStack(b)'
      PROVE  copied[b - stack_bot'] = IF b \in mapped THEN image[b] ELSE 0
  <2>1. b \in Int /\ ~ InText(b) /\ ~ InData(b) /\ bot <= b /\ b < STACK_TOP /\ (b \in mapped <=> InStack(b))
    BY <1>2, <1>3, <1>4, <1>5, <1>8 DEF InSegment, InStack
  <2>2. b - bot \in 0 .. new_size - 1
    BY <1>2, <2>1
  <2>3. copied[b - bot] = IF b - bot >= stack_bot - bot THEN stack_seg[b - bot - (stack_bot - bot)] ELSE 0
    <3>1. new_size - (STACK_TOP - stack_bot) = stack_bot - bot
      BY <1>2
    <3> HIDE DEF bot
    <3> QED
      BY <2>2, <3>1 DEF StackCopied
  <2>4. InStack(b) <=> b >= stack_bot
    BY <1>2, <2>1 DEF InStack
  <2>5. b - bot - (stack_bot - bot) = b - stack_bot /\ (b - bot >= stack_bot - bot <=> b >= stack_bot)
    BY <1>2, <2>1
  <2>6. b \in mapped => image[b] = stack_seg[b - stack_bot]
    BY <1>1, <2>1 DEF ImageIs, ByteIn
  <2> QED
    BY <1>2, <2>1, <2>3, <2>4, <2>5, <2>6
<1>9. ASSUME NEW b \in mapped', ~ InStack(b)'
      PROVE  b \in mapped /\ image'[b] = image[b]
  <2>1. b \in Int /\ b \in mapped /\ ~ InStack(b)
    BY <1>2, <1>3, <1>5, <1>7, <1>9
  <2>2. image'[b] = IF InText(b)' THEN TextByte(b)' ELSE ByteIn(b)'
    BY <1>1 DEF ImageIs
  <2>3. image[b] = IF InText(b) THEN TextByte(b) ELSE ByteIn(b)
    BY <1>1, <2>1 DEF ImageIs
  <2>4. TextByte(b)' = TextByte(b)
    BY DEF TextByte, Slot
  <2>5. ByteIn(b)' = ByteIn(b)
    BY <1>3, <1>9, <2>1 DEF ByteIn
  <2> QED
    BY <1>3, <2>1, <2>2, <2>3, <2>4, <2>5
<1>10. ASSUME NEW b \in mapped', InStack(b)'
       PROVE  image'[b] = stack_seg'[b - stack_bot']
  <2>1. b \in Int /\ ~ InText(b)' /\ ~ InData(b)'
    BY <1>3, <1>4, <1>5, <1>10
  <2>2. image'[b] = ByteIn(b)'
    BY <1>1, <2>1 DEF ImageIs
  <2> QED
    BY <1>10, <2>1, <2>2 DEF ByteIn
<1> QED
  BY <1>6, <1>7, <1>8, <1>9, <1>10

(* The window is not mapped, and all of the access is in the grown stack.    *)
LEMMA WindowFacts ==
    ASSUME Inv, NEW a \in Nat, NEW w \in {1, 2, 4}, Aligned(a, w), InWindow(a), ~ InText(a),
           ~ InSegment(a), NEW new_size, new_size = StackGrown(stack_bot - a + 4), StackFits(new_size)
    PROVE  /\ a \notin mapped
           /\ new_size \in Nat /\ STACK_TOP - new_size < stack_bot
           /\ a .. a + w - 1 \subseteq STACK_TOP - new_size .. stack_bot - 1
<1>1. a \notin mapped
  BY DEF mapped
<1>2. new_size \in Nat /\ STACK_TOP - new_size \in Nat /\ WordAligned(STACK_TOP - new_size) /\ STACK_TOP - new_size <= a
  BY StackGrowth
<1>3. stack_bot \in Nat /\ WordAligned(stack_bot) /\ a < stack_bot
  BY DEF Inv, TypeOK, InWindow
<1> DEFINE bot == STACK_TOP - new_size
<1>4. bot \in Nat /\ WordAligned(bot) /\ bot <= a /\ bot < stack_bot
  BY <1>2, <1>3
<1> HIDE DEF bot
<1>5. \A b \in a .. a + w - 1 : b \in Nat /\ bot <= b /\ b < stack_bot
  BY <1>3, <1>4, SpanFact
<1>6. a .. a + w - 1 \subseteq bot .. stack_bot - 1
  BY <1>3, <1>4, <1>5
<1> QED
  BY <1>1, <1>2, <1>4, <1>6 DEF bot

LEMMA LoadBelow ==
    ASSUME Inv, Inv', NEW a \in Nat, NEW w \in {1, 2, 4}, Aligned(a, w), InWindow(a), ~ InText(a),
           ~ InSegment(a), ReadBelowStack(a, w)
    PROVE  Flat!Access \/ Flat!Stop
<1> DEFINE new_size == StackGrown(stack_bot - a + 4)
<1>1. CASE ~ StackFits(new_size)
  BY <1>1, StopIsFlat DEF ReadBelowStack
<1>2. CASE StackFits(new_size)
  <2>1. /\ stack_seg' = StackCopied(new_size) /\ stack_bot' = STACK_TOP - new_size /\ Returns(a, w, Zeros(w))
        /\ UNCHANGED <<text_seg, data_seg, data_top, k_data_seg, k_data_top, special_seg>>
    BY <1>2 DEF ReadBelowStack
  <2> DEFINE bot == STACK_TOP - new_size
  <2>2. /\ a \notin mapped /\ new_size \in Nat /\ bot < stack_bot
        /\ a .. a + w - 1 \subseteq bot .. stack_bot - 1
    BY <1>2, WindowFacts
  <2> HIDE DEF new_size
  <2>3. /\ mapped' = mapped \cup (bot .. stack_bot - 1)
        /\ mapped \cap (bot .. stack_bot - 1) = {}
        /\ \A b \in mapped' : InStack(b)' => stack_seg'[b - stack_bot'] = IF b \in mapped THEN image[b] ELSE 0
        /\ \A b \in mapped' : ~ InStack(b)' => b \in mapped /\ image'[b] = image[b]
        /\ \A b \in mapped' : InStack(b)' => image'[b] = stack_seg'[b - stack_bot']
    BY <2>1, <2>2, GrownStack
  <2>4. \A b \in mapped' : image'[b] = IF b \in mapped THEN image[b] ELSE 0
    BY <2>3
  <2>5. a .. a + w - 1 \subseteq mapped' /\ mapped \subseteq mapped'
    BY <2>2, <2>3
  <2>6. \A k \in 0 .. w - 1 : Zeros(w)[k] = image'[a + k]
    <3>1. TAKE k \in 0 .. w - 1
    <3>2. a + k \in a .. a + w - 1
      OBVIOUS
    <3>3. a + k \in mapped' /\ a + k \notin mapped
      BY <2>2, <2>3, <2>5, <3>2
    <3> QED
      BY <2>4, <3>3 DEF Zeros
  <2> HIDE DEF bot
  <2> QED
    BY <2>1, <2>2, <2>4, <2>5, <2>6, LoadIsFlat
<1> QED
  BY <1>1, <1>2

LEMMA LoadFlat ==
    ASSUME Inv, Inv', NEW a \in Nat, NEW w \in {1, 2, 4}, read_mem(a, w)
    PROVE  Flat!Access \/ Flat!Fault \/ Flat!Device \/ Flat!Stop \/ Flat!Crash
<1>1. CASE ~ Aligned(a, w)
  BY <1>1, FaultIsFlat DEF read_mem
<1>2. CASE Aligned(a, w) /\ InSegment(a)
  BY <1>2, LoadMapped DEF read_mem
<1>3. CASE Aligned(a, w) /\ ~ InSegment(a) /\ InText(a)
  <2>1. ReadText(a, w)
    BY <1>3 DEF read_mem, bad_mem_read
  <2>2. CASE text_seg[Slot(a)] = NullInst /\ w < 4
    BY <1>3, <2>1, <2>2, CrashIsFlat DEF ReadText
  <2>3. CASE ~ (text_seg[Slot(a)] = NullInst /\ w < 4)
    BY <1>3, <2>1, <2>3, LoadText DEF ReadText
  <2> QED
    BY <2>2, <2>3
<1>4. CASE Aligned(a, w) /\ ~ InSegment(a) /\ ~ InText(a)
  <2>1. bad_mem_read(a, w) /\ a \notin mapped
    BY <1>4 DEF read_mem, mapped
  <2>2. CASE InWindow(a)
    BY <1>4, <2>1, <2>2, LoadBelow DEF bad_mem_read
  <2>3. CASE ~ InWindow(a) /\ a \in DeviceAddrs
    BY <1>4, <2>1, <2>3, DeviceIsFlat DEF bad_mem_read
  <2>4. CASE ~ InWindow(a) /\ a \notin DeviceAddrs
    BY <1>4, <2>1, <2>4, FaultIsFlat DEF bad_mem_read
  <2> QED
    BY <2>2, <2>3, <2>4
<1> QED
  BY <1>1, <1>2, <1>3, <1>4

-----------------------------------------------------------------------------
(* The segment that WriteSegment stores to, and the others.                 *)
LEMMA StoreMapped ==
    ASSUME Inv, Inv', NEW a \in Nat, NEW w \in {1, 2, 4}, Aligned(a, w), InSegment(a),
           NEW v, WriteSegment(a, w, v)
    PROVE  Flat!Access
<1>1. /\ Wrote(a, w, v) /\ mapped' = mapped
      /\ UNCHANGED <<text_seg, data_top, stack_bot, k_data_top>>
  BY SameMap DEF WriteSegment
<1>2. ImageIs /\ ImageIs'
  BY ImageFact, PTL
<1>3. /\ \A b \in Int : InText(b)' = InText(b)
      /\ \A b \in Int : InData(b)' = InData(b)
      /\ \A b \in Int : InStack(b)' = InStack(b)
      /\ \A b \in Int : InKData(b)' = InKData(b)
      /\ \A b \in Int : InSpecial(b)' = InSpecial(b)
  BY <1>1 DEF InText, InData, InStack, InKData, InSpecial
<1>4. /\ data_top \in Nat /\ stack_bot \in Nat /\ k_data_top \in Nat
      /\ DOMAIN data_seg = 0 .. data_top - DATA_BOT - 1
      /\ DOMAIN stack_seg = 0 .. STACK_TOP - stack_bot - 1
      /\ DOMAIN k_data_seg = 0 .. k_data_top - K_DATA_BOT - 1
      /\ DOMAIN special_seg = 0 .. SPECIAL_TOP - SPECIAL_BOT - 1
  BY DEF Inv, TypeOK
<1>5. ASSUME NEW b \in a .. a + w - 1
      PROVE  /\ b \in mapped /\ b \in Int
             /\ InData(a) => InData(b)
             /\ InStack(a) => InStack(b)
             /\ InKData(a) => InKData(b)
             /\ InSpecial(a) => InSpecial(b)
  <2>1. /\ InData(a) => InData(b)
        /\ InStack(a) => InStack(b)
        /\ InKData(a) => InKData(b)
        /\ InSpecial(a) => InSpecial(b)
    BY SegmentSpan
  <2> QED
    BY <1>2, <2>1 DEF ImageIs, InSegment
<1>6. ASSUME NEW b \in mapped
      PROVE  image'[b] = IF b \in a .. a + w - 1 THEN v[b - a] ELSE image[b]
  <2>0. DATA_BOT \in Int /\ stack_bot \in Int /\ K_DATA_BOT \in Int /\ SPECIAL_BOT \in Int
    BY <1>4, LayoutFacts
  <2>1. b \in Int
    BY DEF mapped
  <2>2. /\ image[b] = IF InText(b) THEN TextByte(b) ELSE ByteIn(b)
        /\ image'[b] = IF InText(b) THEN TextByte(b)' ELSE ByteIn(b)'
        /\ InText(b) \/ InSegment(b)
    BY <1>1, <1>2, <1>3, <2>1 DEF ImageIs
  <2>3. /\ InText(b) => ~ InData(b) /\ ~ InStack(b) /\ ~ InKData(b) /\ ~ InSpecial(b)
        /\ InData(b) => ~ InStack(b) /\ ~ InKData(b) /\ ~ InSpecial(b)
        /\ InStack(b) => ~ InKData(b) /\ ~ InSpecial(b)
        /\ InKData(b) => ~ InSpecial(b)
    BY <2>1, Apart DEF SegmentsApart
  <2>4. /\ InText(a) => ~ InData(a) /\ ~ InStack(a) /\ ~ InKData(a) /\ ~ InSpecial(a)
        /\ InData(a) => ~ InStack(a) /\ ~ InKData(a) /\ ~ InSpecial(a)
        /\ InStack(a) => ~ InKData(a) /\ ~ InSpecial(a)
        /\ InKData(a) => ~ InSpecial(a)
    BY Apart DEF SegmentsApart
  <2>5. CASE InText(b)
    <3>1. TextByte(b)' = TextByte(b)
      BY <1>1 DEF TextByte, Slot
    <3>2. b \notin a .. a + w - 1
      BY <1>5, <2>3, <2>5 DEF InSegment
    <3> QED
      BY <2>2, <2>5, <3>1, <3>2
  <2>6. CASE InData(b)
    <3>1. image'[b] = data_seg'[b - DATA_BOT] /\ image[b] = data_seg[b - DATA_BOT]
      BY <1>3, <2>1, <2>2, <2>3, <2>6 DEF ByteIn
    <3>2. b - DATA_BOT \in DOMAIN data_seg
      BY <1>4, <2>1, <2>6, LayoutFacts DEF InData
    <3>3. CASE InData(a)
      <4>1. data_seg' = Put(data_seg, a - DATA_BOT, v, w)
        BY <3>3 DEF WriteSegment
      <4>2. Put(data_seg, a - DATA_BOT, v, w)[b - DATA_BOT] = IF b \in a .. a + w - 1 THEN v[b - a] ELSE data_seg[b - DATA_BOT]
        <5>1. Put(data_seg, a - DATA_BOT, v, w)[b - DATA_BOT] = IF b - DATA_BOT \in a - DATA_BOT .. a - DATA_BOT + w - 1
                  THEN v[b - DATA_BOT - (a - DATA_BOT)] ELSE data_seg[b - DATA_BOT]
          BY <3>2 DEF Put
        <5>2. b - DATA_BOT - (a - DATA_BOT) = b - a /\ (b - DATA_BOT \in a - DATA_BOT .. a - DATA_BOT + w - 1 <=> b \in a .. a + w - 1)
          BY <2>0, <2>1
        <5> QED
          BY <5>1, <5>2
      <4> QED
        BY <3>1, <4>1, <4>2
    <3>4. CASE ~ InData(a)
      <4>1. data_seg' = data_seg
        BY <3>4 DEF WriteSegment
      <4>2. b \notin a .. a + w - 1
        BY <1>5, <2>3, <2>6, <3>4 DEF InSegment
      <4> QED
        BY <3>1, <4>1, <4>2
    <3> QED
      BY <3>3, <3>4
  <2>7. CASE InStack(b)
    <3>1. image'[b] = stack_seg'[b - stack_bot] /\ image[b] = stack_seg[b - stack_bot]
      BY <1>1, <1>3, <2>1, <2>2, <2>3, <2>7 DEF ByteIn
    <3>2. b - stack_bot \in DOMAIN stack_seg
      BY <1>4, <2>1, <2>7, LayoutFacts DEF InStack
    <3>3. CASE InStack(a)
      <4>1. stack_seg' = Put(stack_seg, a - stack_bot, v, w)
        BY <2>4, <3>3 DEF WriteSegment
      <4>2. Put(stack_seg, a - stack_bot, v, w)[b - stack_bot] = IF b \in a .. a + w - 1 THEN v[b - a] ELSE stack_seg[b - stack_bot]
        <5>1. Put(stack_seg, a - stack_bot, v, w)[b - stack_bot] = IF b - stack_bot \in a - stack_bot .. a - stack_bot + w - 1
                  THEN v[b - stack_bot - (a - stack_bot)] ELSE stack_seg[b - stack_bot]
          BY <3>2 DEF Put
        <5>2. b - stack_bot - (a - stack_bot) = b - a /\ (b - stack_bot \in a - stack_bot .. a - stack_bot + w - 1 <=> b \in a .. a + w - 1)
          BY <2>0, <2>1
        <5> QED
          BY <5>1, <5>2
      <4> QED
        BY <3>1, <4>1, <4>2
    <3>4. CASE ~ InStack(a)
      <4>1. stack_seg' = stack_seg
        BY <3>4 DEF WriteSegment
      <4>2. b \notin a .. a + w - 1
        BY <1>5, <2>3, <2>7, <3>4 DEF InSegment
      <4> QED
        BY <3>1, <4>1, <4>2
    <3> QED
      BY <3>3, <3>4
  <2>8. CASE InKData(b)
    <3>1. image'[b] = k_data_seg'[b - K_DATA_BOT] /\ image[b] = k_data_seg[b - K_DATA_BOT]
      BY <1>3, <2>1, <2>2, <2>3, <2>8 DEF ByteIn
    <3>2. b - K_DATA_BOT \in DOMAIN k_data_seg
      BY <1>4, <2>1, <2>8, LayoutFacts DEF InKData
    <3>3. CASE InKData(a)
      <4>1. k_data_seg' = Put(k_data_seg, a - K_DATA_BOT, v, w)
        BY <2>4, <3>3 DEF WriteSegment
      <4>2. Put(k_data_seg, a - K_DATA_BOT, v, w)[b - K_DATA_BOT] = IF b \in a .. a + w - 1 THEN v[b - a] ELSE k_data_seg[b - K_DATA_BOT]
        <5>1. Put(k_data_seg, a - K_DATA_BOT, v, w)[b - K_DATA_BOT] = IF b - K_DATA_BOT \in a - K_DATA_BOT .. a - K_DATA_BOT + w - 1
                  THEN v[b - K_DATA_BOT - (a - K_DATA_BOT)] ELSE k_data_seg[b - K_DATA_BOT]
          BY <3>2 DEF Put
        <5>2. b - K_DATA_BOT - (a - K_DATA_BOT) = b - a /\ (b - K_DATA_BOT \in a - K_DATA_BOT .. a - K_DATA_BOT + w - 1 <=> b \in a .. a + w - 1)
          BY <2>0, <2>1
        <5> QED
          BY <5>1, <5>2
      <4> QED
        BY <3>1, <4>1, <4>2
    <3>4. CASE ~ InKData(a)
      <4>1. k_data_seg' = k_data_seg
        BY <3>4 DEF WriteSegment
      <4>2. b \notin a .. a + w - 1
        BY <1>5, <2>3, <2>8, <3>4 DEF InSegment
      <4> QED
        BY <3>1, <4>1, <4>2
    <3> QED
      BY <3>3, <3>4
  <2>9. CASE InSpecial(b)
    <3>1. image'[b] = special_seg'[b - SPECIAL_BOT] /\ image[b] = special_seg[b - SPECIAL_BOT]
      BY <1>3, <2>1, <2>2, <2>3, <2>9 DEF ByteIn
    <3>2. b - SPECIAL_BOT \in DOMAIN special_seg
      BY <1>4, <2>1, <2>9, LayoutFacts DEF InSpecial
    <3>3. CASE InSpecial(a)
      <4>1. special_seg' = Put(special_seg, a - SPECIAL_BOT, v, w)
        BY <2>4, <3>3 DEF WriteSegment
      <4>2. Put(special_seg, a - SPECIAL_BOT, v, w)[b - SPECIAL_BOT] = IF b \in a .. a + w - 1 THEN v[b - a] ELSE special_seg[b - SPECIAL_BOT]
        <5>1. Put(special_seg, a - SPECIAL_BOT, v, w)[b - SPECIAL_BOT] = IF b - SPECIAL_BOT \in a - SPECIAL_BOT .. a - SPECIAL_BOT + w - 1
                  THEN v[b - SPECIAL_BOT - (a - SPECIAL_BOT)] ELSE special_seg[b - SPECIAL_BOT]
          BY <3>2 DEF Put
        <5>2. b - SPECIAL_BOT - (a - SPECIAL_BOT) = b - a /\ (b - SPECIAL_BOT \in a - SPECIAL_BOT .. a - SPECIAL_BOT + w - 1 <=> b \in a .. a + w - 1)
          BY <2>0, <2>1
        <5> QED
          BY <5>1, <5>2
      <4> QED
        BY <3>1, <4>1, <4>2
    <3>4. CASE ~ InSpecial(a)
      <4>1. special_seg' = special_seg
        BY <3>4 DEF WriteSegment, InSegment
      <4>2. b \notin a .. a + w - 1
        BY <1>5, <2>3, <2>9, <3>4 DEF InSegment
      <4> QED
        BY <3>1, <4>1, <4>2
    <3> QED
      BY <3>3, <3>4
  <2> QED
    BY <2>2, <2>5, <2>6, <2>7, <2>8, <2>9 DEF InSegment
<1>7. a .. a + w - 1 \subseteq mapped
  BY <1>5
<1>8. \A b \in mapped' : image'[b] = IF b \in a .. a + w - 1 THEN v[b - a]
                                     ELSE IF b \in mapped THEN image[b] ELSE 0
  BY <1>1, <1>6
<1> QED
  BY <1>1, <1>7, <1>8, StoreIsFlat

(* The bytes of an aligned access are in one slot.                          *)
LEMMA SlotSpan ==
    ASSUME NEW x \in Nat, NEW y \in Nat, NEW w \in {1, 2, 4}, y % w = 0
    PROVE  /\ x \in y .. y + w - 1 <=> x \div 4 = y \div 4 /\ (x % 4) \in (y % 4) .. (y % 4) + w - 1
           /\ x \div 4 = y \div 4 => x - y = (x % 4) - (y % 4)
           /\ x % 4 \in 0 .. 3 /\ y % 4 \in 0 .. 3
           /\ w = 4 => y % 4 = 0
<1>1. CASE w = 1
  BY <1>1
<1>2. CASE w = 2
  BY <1>2
<1>3. CASE w = 4
  BY <1>3
<1> QED
  BY <1>1, <1>2, <1>3

LEMMA StoreText ==
    ASSUME Inv, Inv', NEW a \in Nat, NEW w \in {1, 2, 4}, Aligned(a, w), InText(a),
           NEW v \in Encoding, WriteText(a, w, v)
    PROVE  Flat!Access \/ Flat!Crash
<1>1. CASE text_seg[Slot(a)] = NullInst /\ w < 4
  BY <1>1, CrashIsFlat DEF WriteText
<1>2. CASE ~ (text_seg[Slot(a)] = NullInst /\ w < 4)
  <2> DEFINE low == (a - TEXT_BOT) % 4
             word == [k \in 0 .. 3 |-> IF k \in low .. low + w - 1 THEN v[k - low] ELSE text_seg[Slot(a)][k]]
  <2>1. /\ text_seg' = [text_seg EXCEPT ![Slot(a)] = word] /\ Wrote(a, w, v)
        /\ UNCHANGED <<data_seg, data_top, stack_seg, stack_bot, k_data_seg, k_data_top, special_seg>>
    BY <1>2 DEF WriteText
  <2>2. mapped' = mapped /\ ImageIs /\ ImageIs'
    <3>1. ImageIs /\ ImageIs'
      BY ImageFact, PTL
    <3> QED
      BY <2>1, <3>1, SameMap
  <2>3. /\ TEXT_BOT \in Nat /\ TextSize \in Nat /\ WordAligned(TEXT_BOT) /\ WordAligned(TextSize)
        /\ DOMAIN text_seg = 0 .. TextSize \div 4 - 1 /\ DOMAIN text_seg' = 0 .. TextSize \div 4 - 1
        /\ \A s \in 0 .. TextSize \div 4 - 1 : text_seg'[s] \in Encoding \cup {NullInst}
    BY LayoutFacts DEF Inv, TypeOK
  <2> DEFINE y == a - TEXT_BOT
  <2>4. y \in Nat /\ y % w = 0 /\ Slot(a) = y \div 4 /\ low = y % 4
    <3>1. CASE w = 1
      BY <2>3, <3>1 DEF InText, Slot
    <3>2. CASE w = 2
      BY <2>3, <3>2 DEF InText, Slot, Aligned, WordAligned
    <3>3. CASE w = 4
      BY <2>3, <3>3 DEF InText, Slot, Aligned, WordAligned
    <3> QED
      BY <3>1, <3>2, <3>3
  <2>5. ASSUME NEW b \in mapped
        PROVE  image'[b] = IF b \in a .. a + w - 1 THEN v[b - a] ELSE image[b]
    <3>1. b \in Int
      BY DEF mapped
    <3>2. CASE ~ InText(b)
      <4>1. b \notin a .. a + w - 1
        BY <3>2, SegmentSpan
      <4>2. InText(b)' = InText(b) /\ ByteIn(b)' = ByteIn(b)
        BY <2>1 DEF InText, ByteIn, InData, InStack, InKData
      <4> QED
        BY <2>2, <3>2, <4>1, <4>2 DEF ImageIs
    <3>3. CASE InText(b)
      <4> DEFINE x == b - TEXT_BOT
      <4>1. x \in Nat /\ Slot(b) = x \div 4 /\ x \div 4 \in 0 .. TextSize \div 4 - 1
        BY <2>3, <3>1, <3>3 DEF InText, Slot, WordAligned
      <4>2. InText(b)' /\ image[b] = TextByte(b) /\ image'[b] = TextByte(b)'
        BY <2>2, <3>3 DEF ImageIs, InText
      <4>3. /\ TextByte(b) = IF text_seg[x \div 4] = NullInst THEN 0 ELSE text_seg[x \div 4][x % 4]
            /\ TextByte(b)' = IF text_seg'[x \div 4] = NullInst THEN 0 ELSE text_seg'[x \div 4][x % 4]
        BY <4>1 DEF TextByte, Slot
      <4>4. /\ x \in y .. y + w - 1 <=> b \in a .. a + w - 1
            /\ x - y = b - a
        BY <2>3, <3>1
      <4> HIDE DEF x, y, low
      <4>5. /\ x \in y .. y + w - 1 <=> x \div 4 = y \div 4 /\ (x % 4) \in (y % 4) .. (y % 4) + w - 1
            /\ x \div 4 = y \div 4 => x - y = (x % 4) - (y % 4)
            /\ x % 4 \in 0 .. 3 /\ y % 4 \in 0 .. 3
            /\ w = 4 => y % 4 = 0
        BY <2>4, <4>1, SlotSpan
      <4>6. CASE x \div 4 # y \div 4
        <5>1. text_seg'[x \div 4] = text_seg[x \div 4]
          BY <2>1, <2>3, <2>4, <4>1, <4>6
        <5> QED
          BY <4>2, <4>3, <4>4, <4>5, <4>6, <5>1
      <4>7. CASE x \div 4 = y \div 4
        <5>1. text_seg'[x \div 4] = word
          BY <2>1, <2>3, <2>4, <4>1, <4>7
        <5>2. word # NullInst
          <6>1. word \in Encoding
            <7>1. w < 4 => text_seg[Slot(a)] \in Encoding
              BY <1>2, <2>4, <4>1, <4>7 DEF Inv, TypeOK
            <7>2. \A k \in 0 .. 3 : k \in low .. low + w - 1 => k - low \in 0 .. 3
              BY <2>4, <4>5
            <7>3. w = 4 => \A k \in 0 .. 3 : k \in low .. low + w - 1
              BY <2>4, <4>5
            <7> QED
              BY <7>1, <7>2, <7>3 DEF Encoding
          <6> QED
            BY <6>1, AccessAssumption DEF Encoding
        <5>3. image'[b] = IF (x % 4) \in (y % 4) .. (y % 4) + w - 1 THEN v[(x % 4) - (y % 4)] ELSE text_seg[y \div 4][x % 4]
          BY <2>4, <4>2, <4>3, <4>5, <5>1, <5>2
        <5>4. (x % 4) \notin (y % 4) .. (y % 4) + w - 1 => text_seg[x \div 4] # NullInst
          BY <1>2, <2>4, <4>5, <4>7
        <5> QED
          BY <4>2, <4>3, <4>4, <4>5, <4>7, <5>3, <5>4
      <4> QED
        BY <4>6, <4>7
    <3> QED
      BY <3>2, <3>3
  <2>6. a .. a + w - 1 \subseteq mapped
    BY <2>2, SegmentSpan DEF ImageIs
  <2>7. \A b \in mapped' : image'[b] = IF b \in a .. a + w - 1 THEN v[b - a]
                                       ELSE IF b \in mapped THEN image[b] ELSE 0
    BY <2>2, <2>5
  <2> HIDE DEF word, low, y
  <2> QED
    BY <2>1, <2>2, <2>6, <2>7, StoreIsFlat
<1> QED
  BY <1>1, <1>2

LEMMA StoreBelow ==
    ASSUME Inv, Inv', NEW a \in Nat, NEW w \in {1, 2, 4}, Aligned(a, w), InWindow(a), ~ InText(a),
           ~ InSegment(a), NEW v, WriteBelowStack(a, w, v)
    PROVE  Flat!Access \/ Flat!Stop
<1> DEFINE new_size == StackGrown(stack_bot - a + 4)
           bot == STACK_TOP - new_size
<1>1. CASE ~ StackFits(new_size)
  BY <1>1, StopIsFlat DEF WriteBelowStack
<1>2. CASE StackFits(new_size)
  <2>1. /\ a \notin mapped /\ new_size \in Nat /\ bot < stack_bot
        /\ a .. a + w - 1 \subseteq bot .. stack_bot - 1
    BY <1>2, WindowFacts
  <2>2. a \in a .. a + w - 1
    OBVIOUS
  <2>3. a >= bot
    <3>1. bot \in Int /\ stack_bot \in Int
      <4> HIDE DEF new_size
      <4> QED
        BY <2>1, LayoutFacts DEF Inv, TypeOK
    <3> HIDE DEF bot
    <3> QED
      BY <2>1, <2>2, <3>1
  <2> DEFINE copied == StackCopied(new_size)
  <2>4. /\ stack_bot' = bot /\ stack_seg' = Put(copied, a - bot, v, w) /\ Wrote(a, w, v)
        /\ UNCHANGED <<text_seg, data_seg, data_top, k_data_seg, k_data_top, special_seg>>
    BY <1>2, <2>3 DEF WriteBelowStack
  <2>5. DOMAIN copied = 0 .. new_size - 1
    BY DEF StackCopied
  <2>6. copied = StackCopied(new_size)
    OBVIOUS
  <2> HIDE DEF new_size, copied
  <2>7. /\ mapped' = mapped \cup (bot .. stack_bot - 1)
        /\ mapped \cap (bot .. stack_bot - 1) = {}
        /\ \A b \in mapped' : InStack(b)' => copied[b - stack_bot'] = IF b \in mapped THEN image[b] ELSE 0
        /\ \A b \in mapped' : ~ InStack(b)' => b \in mapped /\ image'[b] = image[b]
        /\ \A b \in mapped' : InStack(b)' => image'[b] = stack_seg'[b - stack_bot']
    BY <2>1, <2>4, <2>6, GrownStack
  <2>8. bot \in Int /\ STACK_TOP \in Nat /\ new_size \in Nat
    BY <2>1, LayoutFacts
  <2>9. ASSUME NEW b \in mapped'
        PROVE  image'[b] = IF b \in a .. a + w - 1 THEN v[b - a] ELSE IF b \in mapped THEN image[b] ELSE 0
    <3>1. b \in Int
      BY DEF mapped
    <3>2. CASE InStack(b)'
      <4>1. b - bot \in DOMAIN copied
        BY <2>4, <2>5, <2>8, <3>1, <3>2 DEF InStack
      <4> HIDE DEF bot
      <4>2. stack_seg'[b - bot] = IF b \in a .. a + w - 1 THEN v[b - a] ELSE copied[b - bot]
        <5>1. stack_seg'[b - bot] = IF b - bot \in a - bot .. a - bot + w - 1 THEN v[b - bot - (a - bot)]
                                    ELSE copied[b - bot]
          BY <2>4, <4>1 DEF Put
        <5>2. b - bot - (a - bot) = b - a /\ (b - bot \in a - bot .. a - bot + w - 1 <=> b \in a .. a + w - 1)
          BY <2>8, <3>1
        <5> QED
          BY <5>1, <5>2
      <4> QED
        BY <2>4, <2>7, <3>2, <4>2
    <3>3. CASE ~ InStack(b)'
      BY <2>1, <2>7, <3>3
    <3> QED
      BY <3>2, <3>3
  <2>10. a .. a + w - 1 \subseteq mapped' /\ mapped \subseteq mapped'
    BY <2>1, <2>7
  <2> HIDE DEF bot
  <2> QED
    BY <2>1, <2>4, <2>9, <2>10, StoreIsFlat
<1> QED
  BY <1>1, <1>2

AccessSteps == Flat!Access \/ Flat!Fault \/ Flat!Device \/ Flat!Stop \/ Flat!Crash

LEMMA StoreFlat ==
    ASSUME Inv, Inv', NEW a \in Nat, NEW w \in {1, 2, 4}, NEW v \in Encoding, set_mem(a, w, v)
    PROVE  AccessSteps
<1>1. CASE ~ Aligned(a, w)
  BY <1>1, FaultIsFlat DEF set_mem, AccessSteps
<1>2. CASE Aligned(a, w) /\ InSegment(a)
  BY <1>2, StoreMapped DEF set_mem, AccessSteps
<1>3. CASE Aligned(a, w) /\ ~ InSegment(a) /\ InText(a)
  BY <1>3, StoreText DEF set_mem, bad_mem_write, AccessSteps
<1>4. CASE Aligned(a, w) /\ ~ InSegment(a) /\ ~ InText(a)
  <2>1. bad_mem_write(a, w, v) /\ a \notin mapped
    BY <1>4 DEF set_mem, mapped
  <2>2. CASE InWindow(a)
    BY <1>4, <2>1, <2>2, StoreBelow DEF bad_mem_write, AccessSteps
  <2>3. CASE ~ InWindow(a) /\ a \in DeviceAddrs
    BY <1>4, <2>1, <2>3, DeviceIsFlat DEF bad_mem_write, AccessSteps
  <2>4. CASE ~ InWindow(a) /\ a \notin DeviceAddrs
    BY <1>4, <2>1, <2>4, FaultIsFlat DEF bad_mem_write, AccessSteps
  <2> QED
    BY <2>2, <2>3, <2>4
<1> QED
  BY <1>1, <1>2, <1>3, <1>4

(* A segment whose top moves up: its bytes stay, those above are zero.       *)
LEMMA GrowIsFlat ==
    ASSUME Inv, Inv', NEW top \in Nat, NEW n \in Nat, NEW added \in Nat, n <= added,
           result' = [op |-> "grow", addr |-> top, size |-> n],
           mapped' = mapped \cup (top .. top + added - 1), mapped \cap (top .. top + added - 1) = {},
           \A b \in mapped' : image'[b] = IF b \in mapped THEN image[b] ELSE 0
    PROVE  Flat!Grow
<1>1. DOMAIN image = mapped /\ DOMAIN image' = mapped'
  <2>1. ImageIs /\ ImageIs'
    BY ImageFact, PTL
  <2> QED
    BY <2>1 DEF ImageIs
<1>2. result'.op = "grow" /\ result'.addr = top /\ result'.size = n
  OBVIOUS
<1>3. top .. top + n - 1 \subseteq top .. top + added - 1
  OBVIOUS
<1>4. top .. top + 0 - 1 = {}
  OBVIOUS
<1>5. Flat!KeepsTheRest(top, 0)
  BY <1>1, <1>4 DEF Flat!KeepsTheRest, Flat!Mapped, Flat!Span
<1> QED
  BY <1>1, <1>2, <1>3, <1>5 DEF Flat!Grow, Flat!Mapped, Flat!Span

LEMMA DataGrowthFlat ==
    ASSUME Inv, Inv', NEW n \in Int, expand_data(n)
    PROVE  Flat!Grow \/ Flat!Stop
<1>1. CASE n < 0 \/ data_top - DATA_BOT + ROUND_UP(n) > DataLimit
  BY <1>1, StopIsFlat DEF expand_data
<1>2. CASE ~ (n < 0 \/ data_top - DATA_BOT + ROUND_UP(n) > DataLimit)
  <2> DEFINE delta == ROUND_UP(n)
             added == data_top .. data_top + delta - 1
  <2>1. n \in Nat
    BY <1>2
  <2>2. delta \in Nat /\ n <= delta
    BY <2>1, RoundUpFact
  <2>3. /\ data_seg' = DataGrown(n) /\ data_top' = data_top + delta
        /\ result' = [op |-> "grow", addr |-> data_top, size |-> n]
        /\ UNCHANGED <<text_seg, stack_seg, stack_bot, k_data_seg, k_data_top, special_seg>>
    BY <1>2 DEF expand_data
  <2>4. /\ data_top \in Nat /\ DATA_BOT \in Nat /\ DATA_BOT <= data_top
        /\ DOMAIN data_seg = 0 .. data_top - DATA_BOT - 1
    BY LayoutFacts DEF Inv, TypeOK, Bounds
  <2>5. DataGrown(n) = [i \in 0 .. data_top - DATA_BOT + delta - 1 |->
                           IF i \in DOMAIN data_seg THEN data_seg[i] ELSE 0]
    BY DEF DataGrown
  <2> HIDE DEF delta
  <2>6. ImageIs /\ ImageIs'
    BY ImageFact, PTL
  <2>7. SegmentsApart /\ SegmentsApart'
    BY Apart, PTL
  <2>8. /\ \A b \in Int : InText(b)' <=> InText(b)
        /\ \A b \in Int : InStack(b)' <=> InStack(b)
        /\ \A b \in Int : InKData(b)' <=> InKData(b)
        /\ \A b \in Int : InSpecial(b)' <=> InSpecial(b)
        /\ \A b \in Int : InData(b)' <=> InData(b) \/ b \in added
        /\ \A b \in Int : InData(b) => b \notin added
    BY <2>2, <2>3, <2>4 DEF InText, InData, InStack, InKData, InSpecial
  <2>9. \A b \in Int : InData(b)' => ~ InText(b) /\ ~ InStack(b) /\ ~ InKData(b) /\ ~ InSpecial(b)
    BY <2>7, <2>8 DEF SegmentsApart
  <2>10. mapped \subseteq Int /\ mapped' \subseteq Int /\ added \subseteq Int
    BY <2>2, <2>4 DEF mapped
  <2>11. /\ \A b \in Int : b \in mapped <=> InText(b) \/ InSegment(b)
         /\ \A b \in Int : b \in mapped' <=> InText(b)' \/ InSegment(b)'
    BY <2>6 DEF ImageIs
  <2> HIDE DEF added
  <2>12. mapped' = mapped \cup added /\ mapped \cap added = {}
    BY <2>8, <2>9, <2>10, <2>11 DEF InSegment
  <2>13. ASSUME NEW b \in mapped'
         PROVE  image'[b] = IF b \in mapped THEN image[b] ELSE 0
    <3>1. b \in Int
      BY <2>10
    <3>2. /\ image'[b] = IF InText(b)' THEN TextByte(b)' ELSE ByteIn(b)'
          /\ b \in mapped => image[b] = IF InText(b) THEN TextByte(b) ELSE ByteIn(b)
      BY <2>6 DEF ImageIs
    <3>3. CASE ~ InData(b)'
      <4>1. b \in mapped
        BY <2>8, <2>11, <3>1, <3>3 DEF InSegment
      <4>2. TextByte(b)' = TextByte(b) /\ ByteIn(b)' = ByteIn(b)
        BY <2>3, <2>8, <3>1, <3>3 DEF TextByte, ByteIn, Slot
      <4> QED
        BY <2>8, <3>1, <3>2, <4>1, <4>2
    <3>4. CASE InData(b)'
      <4>1. image'[b] = data_seg'[b - DATA_BOT] /\ ~ InText(b)
        BY <2>8, <2>9, <3>1, <3>2, <3>4 DEF ByteIn
      <4>2. b \in mapped <=> InData(b)
        BY <2>9, <2>11, <3>1, <3>4 DEF InSegment
      <4>3. InData(b) => image[b] = data_seg[b - DATA_BOT]
        BY <3>2, <4>1, <4>2 DEF ByteIn
      <4>4. b - DATA_BOT \in 0 .. data_top - DATA_BOT + delta - 1 /\ (b - DATA_BOT \in DOMAIN data_seg <=> InData(b))
        BY <2>2, <2>3, <2>4, <3>1, <3>4 DEF InData
      <4>5. data_seg'[b - DATA_BOT] = IF InData(b) THEN data_seg[b - DATA_BOT] ELSE 0
        BY <2>3, <2>5, <4>4
      <4> QED
        BY <4>1, <4>2, <4>3, <4>5
    <3> QED
      BY <3>3, <3>4
  <2> QED
    BY <2>1, <2>2, <2>3, <2>4, <2>12, <2>13, GrowIsFlat DEF added
<1> QED
  BY <1>1, <1>2

-----------------------------------------------------------------------------
(* expand_k_data clears bytes that programs can have stored to; it behaves  *)
(* where they do not, or where kernel data does not grow.                  *)
KernelDataSpared ==
    KGrowths = {} \/ \A p \in Stores : \A b \in p[1] .. p[1] + p[2] - 1 :
                        b - K_DATA_BOT \notin KDataSize \div 4 .. KDataLimit \div 4 - 1

ClearedAreZero ==
    /\ K_DATA_BOT + KDataSize <= k_data_top
    /\ \A i \in DOMAIN k_data_seg : i \in KDataSize \div 4 .. KDataLimit \div 4 - 1 => k_data_seg[i] = 0

LEMMA ClearedFact ==
    ASSUME Inv, ClearedAreZero, NEW m \in Nat, m = k_data_top - K_DATA_BOT,
           NEW n \in Nat, n <= KDataLimit, NEW i \in DOMAIN k_data_seg, i \in Cleared(m, n)
    PROVE  k_data_seg[i] = 0
<1>1. KDataSize \in Nat /\ KDataLimit \in Nat /\ K_DATA_BOT \in Nat /\ k_data_top \in Nat
  BY LayoutFacts DEF Inv, TypeOK
<1>2. KDataSize <= m
  BY <1>1 DEF ClearedAreZero
<1>3. i \in KDataSize \div 4 .. KDataLimit \div 4 - 1
  BY <1>1, <1>2 DEF Cleared
<1> QED
  BY <1>3 DEF ClearedAreZero

LEMMA KDataByte ==
    ASSUME NEW m, NEW n
    PROVE  \A i \in 0 .. n - 1 : KDataGrown(m, n)[i] =
               IF i \in DOMAIN k_data_seg /\ i \notin Cleared(m, n) THEN k_data_seg[i] ELSE 0
BY DEF KDataGrown

LEMMA KDataGrowthFlat ==
    ASSUME Inv, Inv', ClearedAreZero, NEW n \in Nat, expand_k_data(n)
    PROVE  Flat!Grow \/ Flat!Stop
<1>1. CASE k_data_top - K_DATA_BOT + ROUND_UP(n) > KDataLimit
  BY <1>1, StopIsFlat DEF expand_k_data
<1>2. CASE ~ (k_data_top - K_DATA_BOT + ROUND_UP(n) > KDataLimit)
  <2> DEFINE delta == ROUND_UP(n)
             added == k_data_top .. k_data_top + delta - 1
             size == k_data_top - K_DATA_BOT
             total == size + delta
  <2>1. delta \in Nat /\ n <= delta
    BY RoundUpFact
  <2>2. /\ k_data_seg' = KDataGrown(size, total) /\ k_data_top' = k_data_top + delta
        /\ result' = [op |-> "grow", addr |-> k_data_top, size |-> n]
        /\ UNCHANGED <<text_seg, data_seg, data_top, stack_seg, stack_bot, special_seg>>
    BY <1>2 DEF expand_k_data
  <2>3. /\ k_data_top \in Nat /\ K_DATA_BOT \in Nat /\ K_DATA_BOT <= k_data_top /\ KDataLimit \in Nat
        /\ DOMAIN k_data_seg = 0 .. k_data_top - K_DATA_BOT - 1
    BY LayoutFacts DEF Inv, TypeOK, Bounds
  <2>4. \A i \in 0 .. total - 1 : KDataGrown(size, total)[i] =
            IF i \in DOMAIN k_data_seg /\ i \notin Cleared(size, total) THEN k_data_seg[i] ELSE 0
    <3> HIDE DEF size, total
    <3> QED
      BY KDataByte
  <2>5. total <= KDataLimit
    <3> HIDE DEF delta
    <3>1. ~ (size + delta > KDataLimit)
      BY <1>2 DEF delta
    <3> QED
      BY <2>1, <2>3, <3>1
  <2> HIDE DEF delta
  <2>6. size \in Nat /\ total \in Nat /\ total = size + delta
    BY <2>1, <2>3
  <2>7. \A i \in DOMAIN k_data_seg : i \in Cleared(size, total) => k_data_seg[i] = 0
    <3> DEFINE m == size
    <3>1. m = k_data_top - K_DATA_BOT
      OBVIOUS
    <3> HIDE DEF m, total
    <3>2. \A i \in DOMAIN k_data_seg : i \in Cleared(m, total) => k_data_seg[i] = 0
      BY <2>5, <2>6, <3>1, ClearedFact DEF m
    <3> QED
      BY <3>2 DEF m
  <2> HIDE DEF total
  <2>8. ImageIs /\ ImageIs'
    BY ImageFact, PTL
  <2>9. SegmentsApart /\ SegmentsApart'
    BY Apart, PTL
  <2>10. /\ \A b \in Int : InText(b)' <=> InText(b)
         /\ \A b \in Int : InStack(b)' <=> InStack(b)
         /\ \A b \in Int : InData(b)' <=> InData(b)
         /\ \A b \in Int : InSpecial(b)' <=> InSpecial(b)
         /\ \A b \in Int : InKData(b)' <=> InKData(b) \/ b \in added
         /\ \A b \in Int : InKData(b) => b \notin added
    BY <2>1, <2>2, <2>3 DEF InText, InData, InStack, InKData, InSpecial
  <2>11. \A b \in Int : InKData(b)' => ~ InText(b) /\ ~ InStack(b) /\ ~ InData(b) /\ ~ InSpecial(b)
    BY <2>9, <2>10 DEF SegmentsApart
  <2>12. mapped \subseteq Int /\ mapped' \subseteq Int /\ added \subseteq Int
    BY <2>1, <2>3 DEF mapped
  <2>13. /\ \A b \in Int : b \in mapped <=> InText(b) \/ InSegment(b)
         /\ \A b \in Int : b \in mapped' <=> InText(b)' \/ InSegment(b)'
    BY <2>8 DEF ImageIs
  <2> HIDE DEF added
  <2>14. mapped' = mapped \cup added /\ mapped \cap added = {}
    BY <2>10, <2>11, <2>12, <2>13 DEF InSegment
  <2>15. ASSUME NEW b \in mapped'
         PROVE  image'[b] = IF b \in mapped THEN image[b] ELSE 0
    <3>1. b \in Int
      BY <2>12
    <3>2. /\ image'[b] = IF InText(b)' THEN TextByte(b)' ELSE ByteIn(b)'
          /\ b \in mapped => image[b] = IF InText(b) THEN TextByte(b) ELSE ByteIn(b)
      BY <2>8 DEF ImageIs
    <3>3. CASE ~ InKData(b)'
      <4>1. b \in mapped
        BY <2>10, <2>13, <3>1, <3>3 DEF InSegment
      <4>2. TextByte(b)' = TextByte(b) /\ ByteIn(b)' = ByteIn(b)
        BY <2>2, <2>10, <3>1, <3>3 DEF TextByte, ByteIn, Slot
      <4> QED
        BY <2>10, <3>1, <3>2, <4>1, <4>2
    <3>4. CASE InKData(b)'
      <4>1. image'[b] = k_data_seg'[b - K_DATA_BOT] /\ ~ InText(b) /\ ~ InData(b) /\ ~ InStack(b)
        BY <2>10, <2>11, <3>1, <3>2, <3>4 DEF ByteIn
      <4>2. b \in mapped <=> InKData(b)
        BY <2>11, <2>13, <3>1, <3>4 DEF InSegment
      <4>3. InKData(b) => image[b] = k_data_seg[b - K_DATA_BOT]
        BY <3>2, <4>1, <4>2 DEF ByteIn
      <4>4. b - K_DATA_BOT \in 0 .. total - 1 /\ (b - K_DATA_BOT \in DOMAIN k_data_seg <=> InKData(b))
        BY <2>1, <2>2, <2>3, <2>6, <3>1, <3>4 DEF InKData
      <4>5. k_data_seg'[b - K_DATA_BOT] = IF InKData(b) THEN k_data_seg[b - K_DATA_BOT] ELSE 0
        <5> HIDE DEF size
        <5> QED
          BY <2>2, <2>4, <2>7, <4>4
      <4> QED
        BY <4>1, <4>2, <4>3, <4>5
    <3> QED
      BY <3>3, <3>4
  <2> QED
    BY <2>1, <2>2, <2>3, <2>14, <2>15, GrowIsFlat DEF added
<1> QED
  BY <1>1, <1>2

LEMMA ResetIsFlat ==
    ASSUME Inv, Inv', make_memory
    PROVE  Flat!Reset
<1>1. ImageIs'
  BY ImageFact, PTL
<1>2. ASSUME NEW b \in mapped'
      PROVE  image'[b] = 0
  <2>1. b \in Int /\ (InText(b)' \/ InSegment(b)')
    BY <1>1 DEF ImageIs, mapped
  <2>2. InText(b)' => TextByte(b)' = 0
    <3> SUFFICES ASSUME InText(b)' PROVE TextByte(b)' = 0
      OBVIOUS
    <3>1. Slot(b) \in 0 .. TextSize \div 4 - 1
      BY <2>1, LayoutFacts DEF InText, Slot, WordAligned
    <3>2. text_seg'[Slot(b)] = NullInst
      BY <3>1 DEF make_memory
    <3> QED
      BY <3>2 DEF TextByte, Slot
  <2>3. InSegment(b)' => ByteIn(b)' = 0
    <3> SUFFICES ASSUME InSegment(b)' PROVE ByteIn(b)' = 0
      OBVIOUS
    <3>1. CASE InData(b)'
      BY <2>1, <3>1, LayoutFacts DEF InData, ByteIn, make_memory, Zeros
    <3>2. CASE ~ InData(b)' /\ InStack(b)'
      BY <2>1, <3>2, LayoutFacts DEF InStack, ByteIn, make_memory, Zeros
    <3>3. CASE ~ InData(b)' /\ ~ InStack(b)' /\ InKData(b)'
      BY <2>1, <3>3, LayoutFacts DEF InKData, ByteIn, make_memory, Zeros
    <3>4. CASE ~ InData(b)' /\ ~ InStack(b)' /\ ~ InKData(b)' /\ InSpecial(b)'
      BY <2>1, <3>4, LayoutFacts DEF InSpecial, ByteIn, make_memory, Zeros
    <3> QED
      BY <3>1, <3>2, <3>3, <3>4 DEF InSegment
  <2> QED
    BY <1>1, <2>1, <2>2, <2>3 DEF ImageIs
<1>3. DOMAIN image' = mapped'
  BY <1>1 DEF ImageIs
<1> QED
  BY <1>2, <1>3 DEF Flat!Reset, make_memory

LEMMA InitIsFlat == Init => Flat!Init
<1> SUFFICES ASSUME Init PROVE Flat!Init
  OBVIOUS
<1>1. ImageIs
  BY Initially, ImageFact
<1>2. ASSUME NEW b \in mapped
      PROVE  image[b] = 0
  <2>1. b \in Int /\ (InText(b) \/ InSegment(b))
    BY <1>1 DEF ImageIs, mapped
  <2>2. InText(b) => TextByte(b) = 0
    BY <2>1, LayoutFacts DEF InText, Slot, WordAligned, Init, TextByte
  <2>3. InSegment(b) => ByteIn(b) = 0
    <3> SUFFICES ASSUME InSegment(b) PROVE ByteIn(b) = 0
      OBVIOUS
    <3>1. CASE InData(b)
      BY <2>1, <3>1, LayoutFacts DEF InData, ByteIn, Init, Zeros
    <3>2. CASE ~ InData(b) /\ InStack(b)
      BY <2>1, <3>2, LayoutFacts DEF InStack, ByteIn, Init, Zeros
    <3>3. CASE ~ InData(b) /\ ~ InStack(b) /\ InKData(b)
      BY <2>1, <3>3, LayoutFacts DEF InKData, ByteIn, Init, Zeros
    <3>4. CASE ~ InData(b) /\ ~ InStack(b) /\ ~ InKData(b) /\ InSpecial(b)
      BY <2>1, <3>4, LayoutFacts DEF InSpecial, ByteIn, Init, Zeros
    <3> QED
      BY <3>1, <3>2, <3>3, <3>4 DEF InSegment
  <2> QED
    BY <1>1, <2>1, <2>2, <2>3 DEF ImageIs
<1>3. DOMAIN image = mapped
  BY <1>1 DEF ImageIs
<1> QED
  BY <1>2, <1>3 DEF Flat!Init, Flat!Mapped, Init

(* Nothing is stored where expand_k_data clears.                            *)
LEMMA ClearedKept ==
    ASSUME UNCHANGED <<k_data_seg, k_data_top>>, ClearedAreZero
    PROVE  ClearedAreZero'
BY DEF ClearedAreZero

LEMMA ClearedStore ==
    ASSUME Inv, ClearedAreZero, NEW a \in Nat, NEW w \in {1, 2, 4}, NEW v,
           set_mem(a, w, v),
           \A b \in a .. a + w - 1 : b - K_DATA_BOT \notin KDataSize \div 4 .. KDataLimit \div 4 - 1
    PROVE  ClearedAreZero'
<1>1. CASE UNCHANGED <<k_data_seg, k_data_top>>
  BY <1>1, ClearedKept
<1>2. CASE WriteSegment(a, w, v) /\ k_data_seg' = Put(k_data_seg, a - K_DATA_BOT, v, w)
  <2>1. k_data_top' = k_data_top /\ DOMAIN k_data_seg' = DOMAIN k_data_seg
    BY <1>2 DEF WriteSegment, Put
  <2>2. \A i \in DOMAIN k_data_seg : i \in Int
    BY DEF Inv, TypeOK
  <2>3. ASSUME NEW i \in DOMAIN k_data_seg, i \in KDataSize \div 4 .. KDataLimit \div 4 - 1
        PROVE  k_data_seg'[i] = 0
    <3>1. i \in Int /\ K_DATA_BOT \in Int
      BY <2>2, LayoutFacts
    <3>2. i \notin a - K_DATA_BOT .. a - K_DATA_BOT + w - 1
      <4> SUFFICES ASSUME i \in a - K_DATA_BOT .. a - K_DATA_BOT + w - 1 PROVE FALSE
        OBVIOUS
      <4> DEFINE b == i + K_DATA_BOT
      <4>1. b \in a .. a + w - 1 /\ b - K_DATA_BOT = i
        BY <3>1
      <4> HIDE DEF b
      <4> QED
        BY <2>3, <4>1
    <3>3. k_data_seg'[i] = k_data_seg[i]
      BY <1>2, <3>2 DEF Put
    <3> QED
      BY <2>3, <3>3 DEF ClearedAreZero
  <2> QED
    BY <2>1, <2>3 DEF ClearedAreZero
<1>3. CASE bad_mem_write(a, w, v)
  <2>1. UNCHANGED <<k_data_seg, k_data_top>>
    BY <1>3 DEF bad_mem_write, WriteText, NullDereference, WriteBelowStack, run_error, Faults,
                write_spimbot_IO, segments
  <2> QED
    BY <2>1, ClearedKept
<1> QED
  BY <1>1, <1>2, <1>3 DEF set_mem, Faults, WriteSegment, segments

LEMMA ClearedLoad ==
    ASSUME ClearedAreZero, NEW a, NEW w, read_mem(a, w)
    PROVE  ClearedAreZero'
<1>1. UNCHANGED <<k_data_seg, k_data_top>>
  BY DEF read_mem, bad_mem_read, ReadText, NullDereference, ReadBelowStack, run_error, Faults,
         read_spimbot_IO, segments
<1> QED
  BY <1>1, ClearedKept

LEMMA ClearedText ==
    ASSUME ClearedAreZero, NEW a, NEW w, NEW v, WriteText(a, w, v)
    PROVE  ClearedAreZero'
<1>1. UNCHANGED <<k_data_seg, k_data_top>>
  BY DEF WriteText, NullDereference, segments
<1> QED
  BY <1>1, ClearedKept

LEMMA ClearedGrowth ==
    ASSUME Inv, ClearedAreZero, NEW n \in Nat, expand_k_data(n)
    PROVE  ClearedAreZero'
<1>1. CASE k_data_top - K_DATA_BOT + ROUND_UP(n) > KDataLimit
  BY <1>1, ClearedKept DEF expand_k_data, run_error, segments
<1>2. CASE ~ (k_data_top - K_DATA_BOT + ROUND_UP(n) > KDataLimit)
  <2> DEFINE m == k_data_top - K_DATA_BOT
             o == m + ROUND_UP(n)
  <2>1. k_data_seg' = KDataGrown(m, o) /\ k_data_top' = k_data_top + ROUND_UP(n)
    BY <1>2 DEF expand_k_data
  <2>2. ROUND_UP(n) \in Nat /\ k_data_top \in Nat /\ K_DATA_BOT + KDataSize \in Nat
    BY RoundUpFact, LayoutFacts DEF Inv, TypeOK
  <2> HIDE DEF m, o
  <2>3. \A i \in DOMAIN k_data_seg' : (i \in DOMAIN k_data_seg /\ k_data_seg'[i] = k_data_seg[i]) \/ k_data_seg'[i] = 0
    BY <2>1 DEF KDataGrown
  <2>4. K_DATA_BOT + KDataSize <= k_data_top'
    <3> DEFINE delta == ROUND_UP(n)
    <3> HIDE DEF delta
    <3>1. delta \in Nat /\ k_data_top' = k_data_top + delta
      BY <2>1, <2>2 DEF delta
    <3> QED
      BY <2>2, <3>1 DEF ClearedAreZero
  <2> QED
    BY <2>3, <2>4 DEF ClearedAreZero
<1> QED
  BY <1>1, <1>2

LEMMA ClearedInit == Init => ClearedAreZero
BY LayoutFacts DEF Init, ClearedAreZero, Zeros

LEMMA ClearedReload == make_memory => ClearedAreZero'
BY LayoutFacts DEF make_memory, ClearedAreZero, Zeros

Layout == Inv /\ (KGrowths = {} \/ ClearedAreZero)

LEMMA LayoutSteps == KernelDataSpared /\ Layout /\ [Next]_vars => Layout'
<1> SUFFICES ASSUME KernelDataSpared, Layout, [Next]_vars PROVE Layout'
  OBVIOUS
<1>1. Inv'
  BY StepKeeps DEF Layout
<1>2. CASE KGrowths = {}
  BY <1>1, <1>2 DEF Layout
<1>3. CASE KGrowths # {}
  <2>1. Inv /\ ClearedAreZero
    BY <1>3 DEF Layout
  <2>2. ASSUME NEW p \in Stores
        PROVE  /\ p[1] \in Nat /\ p[2] \in {1, 2, 4}
               /\ \A b \in p[1] .. p[1] + p[2] - 1 : b - K_DATA_BOT \notin KDataSize \div 4 .. KDataLimit \div 4 - 1
    BY <1>3, AccessAssumption DEF KernelDataSpared
  <2>3. CASE \E p \in Loads : read_mem(p[1], p[2])
    BY <1>1, <2>1, <2>3, ClearedLoad DEF Layout
  <2>4. CASE \E p \in Stores, v \in Words : set_mem(p[1], p[2], v)
    BY <1>1, <2>1, <2>2, <2>4, ClearedStore DEF Layout
  <2>5. ASSUME NEW p \in Stores, NEW v \in Words, p[2] = 4, set_mem_inst(p[1], v)
        PROVE  Layout'
    <3>1. CASE WriteText(p[1], 4, v)
      BY <1>1, <2>1, <3>1, ClearedText DEF Layout
    <3>2. CASE set_mem(p[1], p[2], v)
      BY <1>1, <2>1, <2>2, <3>2, ClearedStore DEF Layout
    <3> QED
      BY <2>5, <3>1, <3>2 DEF set_mem_inst
  <2>6. CASE \E n \in Sbrks : expand_data(n)
    BY <1>1, <2>1, <2>6, ClearedKept DEF Layout, expand_data, run_error, segments
  <2>7. CASE \E n \in KGrowths : expand_k_data(n)
    BY <1>1, <2>1, <2>7, ClearedGrowth, AccessAssumption DEF Layout
  <2>8. CASE Reload
    BY <1>1, <2>8, ClearedReload DEF Layout, Reload
  <2>9. CASE UNCHANGED vars
    BY <1>1, <2>1, <2>9, ClearedKept DEF Layout, vars
  <2> QED
    BY <2>3, <2>4, <2>5, <2>6, <2>7, <2>8, <2>9 DEF Next, Access, Growth
<1> QED
  BY <1>2, <1>3

LEMMA FlatSteps == Layout /\ Layout' /\ [Next]_vars => [Flat!Next]_<<image, result>>
<1> SUFFICES ASSUME Layout, Layout', Next PROVE Flat!Next
  <2>1. UNCHANGED vars => UNCHANGED <<image, result>>
    BY ImageKept DEF vars, segments
  <2> QED
    BY <2>1
<1>1. Inv /\ Inv'
  BY DEF Layout
<1>2. CASE Access
  <2>1. Running
    BY <1>2 DEF Access
  <2>2. ASSUME NEW p \in Loads, read_mem(p[1], p[2])
        PROVE  AccessSteps
    <3>1. p[1] \in Nat /\ p[2] \in {1, 2, 4}
      BY AccessAssumption
    <3> QED
      BY <1>1, <2>2, <3>1, LoadFlat DEF AccessSteps
  <2>3. ASSUME NEW p \in Stores, NEW v \in Words, set_mem(p[1], p[2], v)
        PROVE  AccessSteps
    <3>1. p[1] \in Nat /\ p[2] \in {1, 2, 4} /\ v \in Encoding
      BY AccessAssumption DEF Encoding
    <3> QED
      BY <1>1, <2>3, <3>1, StoreFlat
  <2>4. ASSUME NEW p \in Stores, NEW v \in Words, set_mem_inst(p[1], v)
        PROVE  AccessSteps
    <3>1. p[1] \in Nat /\ v \in Encoding
      BY AccessAssumption DEF Encoding
    <3>2. CASE InText(p[1]) /\ Aligned(p[1], 4) /\ WriteText(p[1], 4, v)
      BY <1>1, <3>1, <3>2, StoreText DEF AccessSteps
    <3>3. CASE set_mem(p[1], 4, v)
      BY <1>1, <3>1, <3>3, StoreFlat
    <3> QED
      BY <2>4, <3>2, <3>3 DEF set_mem_inst
  <2>5. AccessSteps
    BY <1>2, <2>2, <2>3, <2>4 DEF Access
  <2> QED
    BY <2>1, <2>5 DEF AccessSteps, Flat!Next, Flat!Running, Running
<1>3. CASE Growth
  <2>1. Running
    BY <1>3 DEF Growth
  <2>2. ASSUME NEW n \in Sbrks, expand_data(n)
        PROVE  Flat!Grow \/ Flat!Stop
    BY <1>1, <2>2, AccessAssumption, DataGrowthFlat
  <2>3. ASSUME NEW n \in KGrowths, expand_k_data(n)
        PROVE  Flat!Grow \/ Flat!Stop
    <3>1. ClearedAreZero /\ n \in Nat
      BY AccessAssumption DEF Layout
    <3> QED
      BY <1>1, <2>3, <3>1, KDataGrowthFlat
  <2>4. Flat!Grow \/ Flat!Stop
    BY <1>3, <2>2, <2>3 DEF Growth
  <2> QED
    BY <2>1, <2>4 DEF Flat!Next, Flat!Running, Running
<1>4. CASE Reload
  BY <1>1, <1>4, ResetIsFlat DEF Reload, Flat!Next
<1> QED
  BY <1>2, <1>3, <1>4 DEF Next

(* The image implements one flat memory, for every layout, program and       *)
(* growth, but for the bytes that the loop of expand_k_data clears: those    *)
(* either nobody stores to, or kernel data never grows (mem.cpp).            *)
THEOREM FlatTheorem == ASSUME KernelDataSpared PROVE Spec => ImplementsFlatMemory
<1>1. Init => Layout
  BY Initially, ClearedInit DEF Layout
<1>2. Layout /\ [Next]_vars => Layout'
  BY LayoutSteps
<1>3. Spec => []Layout
  BY <1>1, <1>2, PTL DEF Spec
<1>4. Spec => Flat!Spec
  BY <1>3, InitIsFlat, FlatSteps, PTL DEF Spec, Flat!Spec
<1> QED
  BY <1>4 DEF ImplementsFlatMemory

=============================================================================
