----------------------------- MODULE DataSegment -----------------------------
(***************************************************************************)
(* The data directives of the assembler, one line at a time: where the next *)
(* datum of the user's and of the kernel's segment goes, how it is aligned  *)
(* and the label of its line with it, how a datum that is not aligned is    *)
(* stored in parts, and how the user's segment grows.  The k-th byte of a   *)
(* datum, from the least significant, is <<datum, k>>.                     *)
(***************************************************************************)
EXTENDS Powers, SequencesExt

CONSTANTS
    Room,          \* bytes by which a segment grows: 64 K in the code
    DataBot, KDataBot,   \* where the user's and the kernel's segments start
    Data,          \* what .byte ... .double list: pairs of a kind and a number of data
    SpaceSizes, Alignments, CommSizes,
    DataPoints,    \* the addresses .data may name
    MaxLines,      \* bound of the programs assembled
    DataLimit      \* data_limit: the bytes a segment may have

VARIABLES
    big,             \* SPIM_BIGENDIAN
    in_kernel, auto_alignment,
    pc,              \* next_data_pc and next_k_data_pc
    top,             \* data_top and k_data_top
    bytes,           \* address -> byte
    items,           \* the data stored, each with the label of its line
    lines            \* lines assembled

dvars == <<big, in_kernel, auto_alignment, pc, top, bytes, items, lines>>

(* The user's segment ends before the kernel's begins.                      *)
ASSUME SegmentAssumption ==
    /\ Room \in Nat \ {0} /\ {DataBot, KDataBot, DataLimit} \subseteq Nat
    /\ DataBot + DataLimit <= KDataBot
    /\ SpaceSizes \cup Alignments \cup CommSizes \cup DataPoints \subseteq Nat
    /\ \A d \in Data : d[1] \in {"byte", "half", "word", "float", "double"} /\ d[2] \in Nat

Here == IF in_kernel THEN "kernel" ELSE "user"
RoundUp(n, unit) == ((n + unit - 1) \div unit) * unit

(* A line of the program: LABEL: DIRECTIVE.                                *)
NoLabel == -1
Line == [at |-> pc[Here], top |-> top[Here], bytes |-> bytes, items |-> items, label |-> pc[Here]]

(* Mutants: the label stays where the line began; the parts of a datum that *)
(* is not aligned always start with the least significant.                 *)
AlignedAlone(c, n) == [c EXCEPT !.at = RoundUp(@, Pow2[n])]
LowPartFirst(v) == <<SubSeq(v, 1, Len(v) \div 2), SubSeq(v, Len(v) \div 2 + 1, Len(v))>>

(* align_data, which moves the label as well; set_data_alignment.           *)
align_data(c, n) == LET at == RoundUp(c.at, Pow2[n]) IN [c EXCEPT !.at = at, !.label = at]
set_data_alignment(c, n) == IF auto_alignment THEN align_data(c, n) ELSE c

increment_data_pc(c, n) ==
    LET at == c.at + n
    IN  [c EXCEPT !.at = at, !.top = IF @ <= at THEN @ + RoundUp(at - @ + 1, Room) ELSE @]

(* What is stored at or after the top of its segment is lost.              *)
InMemory(v) == IF big THEN Reverse(v) ELSE v
set_mem(c, v) ==
    LET here == c.at .. c.at + Len(v) - 1
    IN  IF c.at >= c.top THEN c
        ELSE [c EXCEPT !.bytes = [a \in here \cup DOMAIN c.bytes |->
                                     IF a \in here THEN InMemory(v)[a - c.at + 1] ELSE c.bytes[a]]]
PutData(c, v) == increment_data_pc(set_mem(c, v), Len(v))

Low(v) == SubSeq(v, 1, Len(v) \div 2)
High(v) == SubSeq(v, Len(v) \div 2 + 1, Len(v))
PartsOf(v) == IF big THEN <<High(v), Low(v)>> ELSE <<Low(v), High(v)>>

store_byte(c, v) == PutData(c, v)
store_half(c, v) ==
    IF c.at % 2 # 0 THEN store_byte(store_byte(c, PartsOf(v)[1]), PartsOf(v)[2]) ELSE PutData(c, v)
store_word(c, v) ==
    IF c.at % 4 # 0 THEN store_half(store_half(c, PartsOf(v)[1]), PartsOf(v)[2]) ELSE PutData(c, v)
store_float(c, v) ==
    IF c.at % 4 # 0 THEN store_half(store_half(c, Low(v)), High(v)) ELSE PutData(c, v)

(* A double is stored as two words, in the order of the host's memory.      *)
store_double(c, v) ==
    IF c.at % 8 # 0 THEN store_word(store_word(c, PartsOf(v)[1]), PartsOf(v)[2])
    ELSE PutData(PutData(c, PartsOf(v)[1]), PartsOf(v)[2])
Filled(c, chars) ==
    LET d[i \in Nat] == IF i = 0 THEN c ELSE store_byte(d[i - 1], <<chars[i]>>) IN d
store_string(c, chars) == Filled(c, chars)[Len(chars)]

Size == [byte |-> 1, half |-> 2, word |-> 4, float |-> 4, double |-> 8]
Alignment == [half |-> 1, word |-> 2, float |-> 2, double |-> 3]   \* .byte aligns nothing

(* The data of a list are stored one after the other; the label is the      *)
(* first one's.  Only the properties read items.                           *)
Noted(c, kind, label, image) ==
    [c EXCEPT !.items = Append(@, [kind |-> kind, kernel |-> in_kernel, at |-> c.at, top |-> c.top,
                                   label |-> label, image |-> image, auto |-> auto_alignment]),
              !.label = NoLabel]
Fresh(c, size) == [k \in 1 .. size |-> <<Len(c.items) + 1, k>>]
Stored(c, kind) ==
    LET v == Fresh(c, Size[kind])
        d == Noted(c, kind, c.label, InMemory(v))
    IN  CASE kind = "byte" -> store_byte(d, v)
          [] kind = "half" -> store_half(d, v)
          [] kind = "word" -> store_word(d, v)
          [] kind = "float" -> store_float(d, v)
          [] kind = "double" -> store_double(d, v)

(* The end of a line.  What the growth of the kernel's segment does to it   *)
(* is in Memory.                                                           *)
Ends(c) ==
    /\ lines < MaxLines /\ lines' = lines + 1
    /\ c.at <= (IF in_kernel THEN KDataBot ELSE DataBot) + DataLimit
    /\ in_kernel => c.top = top[Here]
    /\ pc' = [pc EXCEPT ![Here] = c.at]
    /\ top' = [top EXCEPT ![Here] = c.top]
    /\ bytes' = c.bytes /\ items' = c.items
    /\ UNCHANGED <<big, in_kernel>>

(* .byte, .half, .word, .float, .double, of a list of data                  *)
Listed(start, kind) ==
    LET c[i \in Nat] == IF i = 0 THEN start ELSE Stored(c[i - 1], kind) IN c
Datum(kind, count) ==
    LET start == IF kind \in DOMAIN Alignment THEN set_data_alignment(Line, Alignment[kind]) ELSE Line
    IN  /\ Ends(Listed(start, kind)[count])
        /\ UNCHANGED auto_alignment

(* .asciiz of one character, .ascii of three                               *)
Terminated(n) == <<<<n, 1>>, <<0, 0>>>>
Ascii(chars) ==
    /\ Ends(store_string(Noted(Line, "string", Line.label, chars), chars))
    /\ UNCHANGED auto_alignment

(* .space SIZE, and .comm NAME SIZE of a name that is not defined           *)
Space(size) ==
    /\ Ends(increment_data_pc(Noted(Line, "space", Line.label, <<>>), size))
    /\ UNCHANGED auto_alignment
Comm(size) ==
    LET c == align_data(Line, 2)
    IN  /\ Ends(increment_data_pc(Noted(c, "comm", c.at, <<>>), size))
        /\ UNCHANGED auto_alignment

(* .lcomm NAME SIZE of an item that does not fit the $gp area: its name is  *)
(* recorded in the user's segment.                                         *)
Lcomm(size) ==
    LET zeros == [k \in 1 .. size |-> <<0, 0>>]
    IN  /\ Ends(store_string(Noted(Line, "lcomm", pc["user"], zeros), zeros))
        /\ UNCHANGED auto_alignment

(* .align N; .align 0 switches the alignment of data off                    *)
Align(n) ==
    /\ Ends(IF n = 0 THEN Line ELSE align_data(Line, n))
    /\ auto_alignment' = (n # 0 /\ auto_alignment)

(* .data, .kdata and .data ADDRESS, where the program has stored nothing    *)
Segment(kernel, address) ==
    LET seg == IF kernel THEN "kernel" ELSE "user"
    IN  /\ lines < MaxLines /\ lines' = lines + 1
        /\ address >= pc[seg] /\ pc' = [pc EXCEPT ![seg] = address]
        /\ in_kernel' = kernel /\ auto_alignment' = TRUE
        /\ UNCHANGED <<big, top, bytes, items>>

DataInit ==
    /\ big \in BOOLEAN
    /\ in_kernel = FALSE /\ auto_alignment = TRUE
    /\ pc = [user |-> DataBot + Room, kernel |-> KDataBot]
    /\ top = [user |-> DataBot + 2 * Room, kernel |-> KDataBot + Room]
    /\ bytes = <<>> /\ items = <<>> /\ lines = 0

DataNext ==
    \/ \E d \in Data : Datum(d[1], d[2])
    \/ Ascii([k \in 1 .. 3 |-> <<Len(items) + 1, k>>]) \/ Ascii(Terminated(Len(items) + 1))
    \/ \E size \in SpaceSizes : Space(size)
    \/ \E size \in CommSizes : Comm(size) \/ Lcomm(size)
    \/ \E n \in Alignments : Align(n)
    \/ \E kernel \in BOOLEAN : Segment(kernel, pc[IF kernel THEN "kernel" ELSE "user"])
    \/ \E a \in DataPoints : Segment(FALSE, a)

DataSpec == DataInit /\ [][DataNext]_dvars

-----------------------------------------------------------------------------
ReadsBack(item) ==
    \A k \in DOMAIN item.image :
        /\ item.at + k - 1 \in DOMAIN bytes
        /\ bytes[item.at + k - 1] = item.image[k]

(* The cases in which a datum is not what the program wrote: it began at    *)
(* the top of the segment, where .data ADDRESS and .align may put it, or it *)
(* is a float that is not aligned, whose halves are swapped when the build  *)
(* is big-endian.                                                          *)
Beyond(item) == item.at >= item.top
Swapped(item) == big /\ item.kind = "float" /\ item.at % 4 # 0

(* Every other datum reads back from its address, whatever directives came  *)
(* before and after it, aligned or stored in parts, in either byte order,   *)
(* with the segment growing under it, and in either segment.               *)
DataReadBack == \A n \in DOMAIN items : Beyond(items[n]) \/ Swapped(items[n]) \/ ReadsBack(items[n])

(* A label is the address of the datum of its line, wherever alignment puts *)
(* it, and a datum is aligned to its size unless .align 0 came before.  The *)
(* exception is .lcomm in the kernel's segment.                            *)
LabelsReachData ==
    \A n \in DOMAIN items :
        LET item == items[n]
        IN  /\ item.label \in {NoLabel, item.at} \/ (item.kind = "lcomm" /\ item.kernel)
            /\ item.auto /\ item.kind \in DOMAIN Alignment => item.at % Size[item.kind] = 0
=============================================================================
