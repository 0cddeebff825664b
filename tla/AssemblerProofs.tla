--------------------------- MODULE AssemblerProofs ---------------------------
(***************************************************************************)
(* Proofs about DataSegment for every list of data, size, alignment and     *)
(* address the directives may give, and every number of lines: a datum that *)
(* is stored is found again at its label.  And about Codec, for every row   *)
(* of the instruction table and every distance, register and condition     *)
(* code: branches lead to their labels, the lists of opcodes agree with the *)
(* formats and the bits of the words, and a copy keeps its meaning.        *)
(***************************************************************************)
EXTENDS DataSegment, Codec, NumberFacts, SequenceTheorems, TLAPS

(* Rounding up goes to a multiple, and not down.                            *)
LEMMA RoundUpFact ==
    ASSUME NEW n \in Nat, NEW u \in Nat \ {0}
    PROVE  RoundUp(n, u) \in Nat /\ RoundUp(n, u) >= n /\ RoundUp(n, u) % u = 0
<1> DEFINE m == n + u - 1
           q == m \div u
<1>1. m \in Nat
  OBVIOUS
<1>2. q \in Nat /\ m % u \in 0 .. u - 1 /\ m = q * u + (m % u)
  BY <1>1, SplitFact
<1>3. q * u \in Nat /\ q * u >= n
  <2>1. q * u \in Nat
    BY <1>2, SMT
  <2> DEFINE p == q * u
             r == m % u
  <2>2. p \in Nat /\ r \in 0 .. u - 1 /\ n + u - 1 = p + r
    BY <1>2, <2>1
  <2> HIDE DEF p, r
  <2>3. p >= n
    BY <2>2
  <2>4. QED
    BY <2>1, <2>3 DEF p
<1>4. (q * u) % u = 0
  <2> DEFINE p == q * u
  <2>1. p \in Int /\ p = q * u + 0 /\ q \in Int /\ 0 \in 0 .. u - 1
    BY <1>2, <1>3
  <2> HIDE DEF p, q
  <2>2. p % u = 0
    BY <2>1, ModUnique
  <2>3. QED
    BY <2>2 DEF p
<1>5. QED
  BY <1>3, <1>4 DEF RoundUp

(* A line of the assembler: where it is, and the fields it has.             *)
Shaped(c) == c \in [at : Nat, top : Nat, bytes : {c.bytes}, items : {c.items}, label : {c.label}]

(* The stores that lead from line c to line d put image at c, if c is below *)
(* the top of its segment, and nothing else.                               *)
Written(c, d, image) ==
    /\ Shaped(d) /\ d.at = c.at + Len(image) /\ d.items = c.items /\ d.label = c.label
    /\ d.top >= c.top /\ (Len(image) > 0 => d.top > d.at)
    /\ \A a \in DOMAIN c.bytes : a \notin c.at .. c.at + Len(image) - 1 => a \in DOMAIN d.bytes /\ d.bytes[a] = c.bytes[a]
    /\ c.at < c.top =>
          \A k \in 1 .. Len(image) : c.at + k - 1 \in DOMAIN d.bytes /\ d.bytes[c.at + k - 1] = image[k]

LEMMA Reversal ==
    ASSUME NEW S, NEW v \in Seq(S)
    PROVE  /\ Reverse(v) \in Seq(S) /\ Len(Reverse(v)) = Len(v)
           /\ \A k \in 1 .. Len(v) : Reverse(v)[k] = v[Len(v) - k + 1]
BY DEF Reverse

LEMMA MemoryImage ==
    ASSUME NEW S, NEW v \in Seq(S)
    PROVE  InMemory(v) \in Seq(S) /\ Len(InMemory(v)) = Len(v)
BY Reversal DEF InMemory

LEMMA Increment ==
    ASSUME NEW c, Shaped(c), NEW n \in Nat
    PROVE  LET d == increment_data_pc(c, n)
           IN  /\ Shaped(d) /\ d.at = c.at + n /\ d.top >= c.top /\ d.top > d.at
               /\ d.bytes = c.bytes /\ d.items = c.items /\ d.label = c.label
<1> DEFINE at == c.at + n
           more == RoundUp(at - c.top + 1, Room)
           top1 == IF c.top <= at THEN c.top + more ELSE c.top
           d == increment_data_pc(c, n)
<1>1. at \in Nat /\ c.top \in Nat
  BY DEF Shaped
<1>2. c.top <= at => more \in Nat /\ more >= at - c.top + 1
  BY <1>1, RoundUpFact, SegmentAssumption
<1>3. d = [c EXCEPT !.at = at, !.top = top1]
  BY DEF increment_data_pc, Shaped
<1> HIDE DEF at, more, d
<1>4. top1 \in Nat /\ top1 >= c.top /\ top1 > at
  BY <1>1, <1>2
<1> HIDE DEF top1
<1>5. d.at = at /\ d.top = top1 /\ d.bytes = c.bytes /\ d.items = c.items /\ d.label = c.label
  BY <1>3 DEF Shaped
<1>6. Shaped(d)
  BY <1>1, <1>3, <1>4, <1>5 DEF Shaped
<1>7. QED
  BY <1>4, <1>5, <1>6 DEF at, d

LEMMA PutWrites ==
    ASSUME NEW c, Shaped(c), NEW S, NEW v \in Seq(S)
    PROVE  Written(c, PutData(c, v), InMemory(v))
<1> DEFINE image == InMemory(v)
           n == Len(v)
           here == c.at .. c.at + n - 1
           stored == [a \in here \cup DOMAIN c.bytes |-> IF a \in here THEN image[a - c.at + 1] ELSE c.bytes[a]]
           e == set_mem(c, v)
           d == increment_data_pc(e, n)
<1>1. n \in Nat /\ image \in Seq(S) /\ Len(image) = n
  BY MemoryImage
<1>2. c.at \in Nat /\ c.top \in Nat
  BY DEF Shaped
<1>3. /\ Shaped(e) /\ e.at = c.at /\ e.top = c.top /\ e.items = c.items /\ e.label = c.label
      /\ e.bytes = IF c.at >= c.top THEN c.bytes ELSE stored
  BY DEF Shaped, set_mem
<1> HIDE DEF e, n
<1>4. /\ Shaped(d) /\ d.at = e.at + n /\ d.top >= e.top /\ d.top > d.at
      /\ d.bytes = e.bytes /\ d.items = e.items /\ d.label = e.label
  BY <1>1, <1>3, Increment
<1> HIDE DEF d, image
<1>5. CASE c.at >= c.top
  BY <1>1, <1>2, <1>3, <1>4, <1>5 DEF Written, PutData, n, e, d, image
<1>6. CASE c.at < c.top
  <2>1. e.bytes = stored
    BY <1>2, <1>3, <1>6
  <2>2. \A k \in 1 .. n : c.at + k - 1 \in here /\ (c.at + k - 1) - c.at + 1 = k
    BY <1>1, <1>2
  <2>3. \A k \in 1 .. n : c.at + k - 1 \in DOMAIN e.bytes /\ e.bytes[c.at + k - 1] = image[k]
    BY <2>1, <2>2
  <2>4. \A a \in DOMAIN c.bytes : a \notin here => a \in DOMAIN e.bytes /\ e.bytes[a] = c.bytes[a]
    BY <2>1
  <2> HIDE DEF stored
  <2>5. Written(c, d, image)
    BY <1>1, <1>3, <1>4, <2>3, <2>4 DEF Written
  <2>6. QED
    BY <2>5 DEF PutData, n, e, d, image
<1>7. QED
  BY <1>2, <1>5, <1>6

(* One store after another.                                                *)
Joined(first, second, image) ==
    /\ Len(image) = Len(first) + Len(second)
    /\ \A k \in 1 .. Len(first) : image[k] = first[k]
    /\ \A k \in 1 .. Len(second) : image[Len(first) + k] = second[k]

LEMMA WrittenTwice ==
    ASSUME NEW c, NEW d, NEW e, Shaped(c), NEW S, NEW first \in Seq(S), NEW second \in Seq(S), NEW image,
           Joined(first, second, image), Written(c, d, first), Written(d, e, second)
    PROVE  Written(c, e, image)
<1> DEFINE m == Len(first)
           n == Len(second)
<1>1. m \in Nat /\ n \in Nat /\ Len(image) = m + n
  BY DEF Joined
<1>2. c.at \in Nat /\ c.top \in Nat /\ d.at \in Nat /\ d.top \in Nat /\ e.at \in Nat /\ e.top \in Nat
  BY DEF Written, Shaped
<1>3. /\ d.at = c.at + m /\ d.top >= c.top /\ (m > 0 => d.top > d.at)
      /\ e.at = d.at + n /\ e.top >= d.top /\ (n > 0 => e.top > e.at)
  BY DEF Written
<1>4. /\ Shaped(e) /\ e.at = c.at + Len(image) /\ e.items = c.items /\ e.label = c.label
      /\ e.top >= c.top /\ (Len(image) > 0 => e.top > e.at)
  <2>1. Shaped(e) /\ e.items = c.items /\ e.label = c.label
    BY DEF Written
  <2>2. e.at = c.at + Len(image) /\ e.top >= c.top
    BY <1>1, <1>2, <1>3
  <2>3. ASSUME Len(image) > 0 PROVE e.top > e.at
    BY <1>1, <1>2, <1>3, <2>3
  <2>4. QED
    BY <2>1, <2>2, <2>3
<1>5. ASSUME NEW a \in DOMAIN c.bytes, a \notin c.at .. c.at + Len(image) - 1
      PROVE  a \in DOMAIN e.bytes /\ e.bytes[a] = c.bytes[a]
  <2>1. a \notin c.at .. c.at + m - 1 /\ a \notin d.at .. d.at + n - 1
    <3> DEFINE at1 == c.at
               at2 == d.at
               l == Len(image)
    <3>1. at1 \in Nat /\ at2 \in Nat /\ at2 = at1 + m /\ l = m + n /\ a \notin at1 .. at1 + l - 1
      BY <1>1, <1>2, <1>3, <1>5
    <3> HIDE DEF at1, at2, l, m, n
    <3>2. a \notin at1 .. at1 + m - 1 /\ a \notin at2 .. at2 + n - 1
      BY <1>1, <3>1
    <3>3. QED
      BY <3>2 DEF at1, at2, m, n
  <2>2. a \in DOMAIN d.bytes /\ d.bytes[a] = c.bytes[a]
    BY <2>1 DEF Written
  <2>3. QED
    BY <2>1, <2>2 DEF Written
<1>6. ASSUME c.at < c.top, NEW k \in 1 .. Len(image)
      PROVE  c.at + k - 1 \in DOMAIN e.bytes /\ e.bytes[c.at + k - 1] = image[k]
  <2>1. CASE k <= m
    <3>1. c.at + k - 1 \in DOMAIN d.bytes /\ d.bytes[c.at + k - 1] = first[k] /\ image[k] = first[k]
      BY <1>1, <1>6, <2>1 DEF Written, Joined
    <3>2. c.at + k - 1 \notin d.at .. d.at + n - 1
      BY <1>1, <1>2, <1>3, <2>1
    <3>3. QED
      BY <3>1, <3>2 DEF Written
  <2>2. CASE k > m
    <3> DEFINE j == k - m
    <3>1. j \in 1 .. n /\ k = m + j /\ d.at + j - 1 = c.at + k - 1
      BY <1>1, <1>2, <1>3, <2>2
    <3>2. d.at < d.top
      BY <1>2, <1>3, <1>6
    <3>3. d.at + j - 1 \in DOMAIN e.bytes /\ e.bytes[d.at + j - 1] = second[j]
      BY <3>1, <3>2 DEF Written
    <3>4. image[k] = second[j]
      BY <3>1 DEF Joined
    <3>5. QED
      BY <3>1, <3>3, <3>4
  <2>3. QED
    BY <1>1, <2>1, <2>2
<1>7. QED
  BY <1>4, <1>5, <1>6 DEF Written

(* A datum of an even number of bytes, in two halves.                       *)
LEMMA HalvesFact ==
    ASSUME NEW S, NEW v \in Seq(S), NEW h \in Nat, Len(v) = 2 * h
    PROVE  /\ Low(v) \in Seq(S) /\ Len(Low(v)) = h /\ \A k \in 1 .. h : Low(v)[k] = v[k]
           /\ High(v) \in Seq(S) /\ Len(High(v)) = h /\ \A k \in 1 .. h : High(v)[k] = v[h + k]
<1>1. Len(v) \div 2 = h
  BY Z3
<1>2. Low(v) = SubSeq(v, 1, h) /\ High(v) = SubSeq(v, h + 1, 2 * h)
  BY <1>1 DEF Low, High
<1>3. h <= Len(v) /\ h + 1 \in 1 .. Len(v) + 1 /\ 2 * h <= Len(v)
  OBVIOUS
<1>4. Low(v) \in Seq(S) /\ Len(Low(v)) = h /\ \A k \in 1 .. h : Low(v)[k] = v[k]
  BY <1>2, <1>3
<1>5. High(v) \in Seq(S) /\ Len(High(v)) = h /\ \A k \in 1 .. h : High(v)[k] = v[h + k]
  BY <1>2, <1>3
<1>6. QED
  BY <1>4, <1>5

(* The halves, each in the byte order of the build and put in its order,    *)
(* are the datum in that order.                                            *)
LEMMA PartsJoin ==
    ASSUME NEW S, NEW v \in Seq(S), NEW h \in Nat, Len(v) = 2 * h
    PROVE  /\ PartsOf(v)[1] \in Seq(S) /\ Len(PartsOf(v)[1]) = h
           /\ PartsOf(v)[2] \in Seq(S) /\ Len(PartsOf(v)[2]) = h
           /\ Joined(InMemory(PartsOf(v)[1]), InMemory(PartsOf(v)[2]), InMemory(v))
<1> DEFINE l == Low(v)
           u == High(v)
<1>1. /\ l \in Seq(S) /\ Len(l) = h /\ \A k \in 1 .. h : l[k] = v[k]
      /\ u \in Seq(S) /\ Len(u) = h /\ \A k \in 1 .. h : u[k] = v[h + k]
  BY HalvesFact
<1>2. PartsOf(v)[1] = (IF big THEN u ELSE l) /\ PartsOf(v)[2] = (IF big THEN l ELSE u)
  BY DEF PartsOf
<1> HIDE DEF l, u
<1>3. CASE ~big
  BY <1>1, <1>2, <1>3 DEF InMemory, Joined
<1>4. CASE big
  <2> DEFINE rl == Reverse(l)
             ru == Reverse(u)
             rv == Reverse(v)
  <2>1. /\ Len(rl) = h /\ \A k \in 1 .. h : rl[k] = l[h - k + 1]
        /\ Len(ru) = h /\ \A k \in 1 .. h : ru[k] = u[h - k + 1]
        /\ Len(rv) = 2 * h /\ \A k \in 1 .. 2 * h : rv[k] = v[2 * h - k + 1]
    <3>1. Len(rl) = h /\ \A k \in 1 .. h : rl[k] = l[h - k + 1]
      <4>1. Len(rl) = Len(l) /\ \A k \in 1 .. Len(l) : rl[k] = l[Len(l) - k + 1]
        BY <1>1, Reversal
      <4> HIDE DEF rl, ru, rv
      <4>2. QED
        BY <1>1, <4>1
    <3>2. Len(ru) = h /\ \A k \in 1 .. h : ru[k] = u[h - k + 1]
      <4>1. Len(ru) = Len(u) /\ \A k \in 1 .. Len(u) : ru[k] = u[Len(u) - k + 1]
        BY <1>1, Reversal
      <4> HIDE DEF rl, ru, rv
      <4>2. QED
        BY <1>1, <4>1
    <3>3. Len(rv) = Len(v) /\ \A k \in 1 .. Len(v) : rv[k] = v[Len(v) - k + 1]
      BY Reversal
    <3> HIDE DEF rl, ru, rv
    <3>4. QED
      BY <3>1, <3>2, <3>3
  <2> HIDE DEF rl, ru, rv
  <2>2. ASSUME NEW k \in 1 .. h PROVE rv[k] = ru[k]
    <3>1. h - k + 1 \in 1 .. h /\ h + (h - k + 1) = 2 * h - k + 1 /\ k \in 1 .. 2 * h
      OBVIOUS
    <3>2. QED
      BY <1>1, <2>1, <3>1
  <2>3. ASSUME NEW k \in 1 .. h PROVE rv[h + k] = rl[k]
    <3>1. h - k + 1 \in 1 .. h /\ 2 * h - (h + k) + 1 = h - k + 1 /\ h + k \in 1 .. 2 * h
      OBVIOUS
    <3>2. QED
      BY <1>1, <2>1, <3>1
  <2>4. Joined(ru, rl, rv)
    BY <2>1, <2>2, <2>3 DEF Joined
  <2>5. QED
    BY <1>1, <1>2, <1>4, <2>4 DEF InMemory, rl, ru, rv
<1>5. QED
  BY <1>3, <1>4

LEMMA StoreByte ==
    ASSUME NEW c, Shaped(c), NEW S, NEW v \in Seq(S)
    PROVE  Written(c, store_byte(c, v), InMemory(v)) /\ Shaped(store_byte(c, v))
BY PutWrites DEF store_byte, Written

LEMMA StoreHalf ==
    ASSUME NEW c, Shaped(c), NEW S, NEW v \in Seq(S), Len(v) = 2
    PROVE  Written(c, store_half(c, v), InMemory(v)) /\ Shaped(store_half(c, v))
<1> DEFINE a == PartsOf(v)[1]
           b == PartsOf(v)[2]
           d == store_byte(c, a)
           e == store_byte(d, b)
<1>1. a \in Seq(S) /\ b \in Seq(S) /\ Joined(InMemory(a), InMemory(b), InMemory(v))
  <2>1. 1 \in Nat /\ Len(v) = 2 * 1
    OBVIOUS
  <2>2. QED
    BY <2>1, PartsJoin
<1> HIDE DEF a, b
<1>2. Written(c, d, InMemory(a)) /\ Shaped(d)
  BY <1>1, StoreByte
<1> HIDE DEF d
<1>3. Written(d, e, InMemory(b)) /\ Shaped(e)
  BY <1>1, <1>2, StoreByte
<1> HIDE DEF e
<1>4. Written(c, e, InMemory(v))
  BY <1>1, <1>2, <1>3, MemoryImage, WrittenTwice
<1>5. store_half(c, v) = IF c.at % 2 # 0 THEN e ELSE PutData(c, v)
  BY DEF store_half, a, b, d, e
<1>6. QED
  BY <1>4, <1>5, PutWrites DEF Written

LEMMA StoreWord ==
    ASSUME NEW c, Shaped(c), NEW S, NEW v \in Seq(S), Len(v) = 4
    PROVE  Written(c, store_word(c, v), InMemory(v)) /\ Shaped(store_word(c, v))
<1> DEFINE a == PartsOf(v)[1]
           b == PartsOf(v)[2]
           d == store_half(c, a)
           e == store_half(d, b)
<1>1. a \in Seq(S) /\ Len(a) = 2 /\ b \in Seq(S) /\ Len(b) = 2 /\ Joined(InMemory(a), InMemory(b), InMemory(v))
  <2>1. 2 \in Nat /\ Len(v) = 2 * 2
    OBVIOUS
  <2>2. QED
    BY <2>1, PartsJoin
<1> HIDE DEF a, b
<1>2. Written(c, d, InMemory(a)) /\ Shaped(d)
  BY <1>1, StoreHalf
<1> HIDE DEF d
<1>3. Written(d, e, InMemory(b)) /\ Shaped(e)
  BY <1>1, <1>2, StoreHalf
<1> HIDE DEF e
<1>4. Written(c, e, InMemory(v))
  BY <1>1, <1>2, <1>3, MemoryImage, WrittenTwice
<1>5. store_word(c, v) = IF c.at % 4 # 0 THEN e ELSE PutData(c, v)
  BY DEF store_word, a, b, d, e
<1>6. QED
  BY <1>4, <1>5, PutWrites DEF Written

LEMMA StoreDouble ==
    ASSUME NEW c, Shaped(c), NEW S, NEW v \in Seq(S), Len(v) = 8
    PROVE  Written(c, store_double(c, v), InMemory(v)) /\ Shaped(store_double(c, v))
<1> DEFINE a == PartsOf(v)[1]
           b == PartsOf(v)[2]
           d == store_word(c, a)
           e == store_word(d, b)
           f == PutData(c, a)
           g == PutData(f, b)
<1>1. a \in Seq(S) /\ Len(a) = 4 /\ b \in Seq(S) /\ Len(b) = 4 /\ Joined(InMemory(a), InMemory(b), InMemory(v))
  <2>1. 4 \in Nat /\ Len(v) = 2 * 4
    OBVIOUS
  <2>2. QED
    BY <2>1, PartsJoin
<1> HIDE DEF a, b
<1>2. Written(c, d, InMemory(a)) /\ Shaped(d) /\ Written(c, f, InMemory(a)) /\ Shaped(f)
  <2>1. Written(c, d, InMemory(a)) /\ Shaped(d)
    BY <1>1, StoreWord
  <2>2. Written(c, f, InMemory(a))
    BY <1>1, PutWrites
  <2>3. Shaped(f)
    BY <2>2 DEF Written
  <2>4. QED
    BY <2>1, <2>2, <2>3
<1> HIDE DEF d, f
<1>3. Written(d, e, InMemory(b)) /\ Shaped(e) /\ Written(f, g, InMemory(b)) /\ Shaped(g)
  <2>1. Written(d, e, InMemory(b)) /\ Shaped(e)
    BY <1>1, <1>2, StoreWord
  <2>2. Written(f, g, InMemory(b))
    BY <1>1, <1>2, PutWrites
  <2>3. Shaped(g)
    BY <2>2 DEF Written
  <2>4. QED
    BY <2>1, <2>2, <2>3
<1> HIDE DEF e, g
<1>4. Written(c, e, InMemory(v)) /\ Written(c, g, InMemory(v))
  BY <1>1, <1>2, <1>3, MemoryImage, WrittenTwice
<1>5. store_double(c, v) = IF c.at % 8 # 0 THEN e ELSE g
  BY DEF store_double, a, b, d, e, f, g
<1>6. QED
  BY <1>3, <1>4, <1>5

(* A float that is not aligned is put low half first: its bytes are the     *)
(* float's when the build is little-endian.                                *)
LEMMA StoreFloat ==
    ASSUME NEW c, Shaped(c), NEW S, NEW v \in Seq(S), Len(v) = 4
    PROVE  \E image \in Seq(S) :
               /\ Len(image) = 4 /\ Written(c, store_float(c, v), image)
               /\ image = InMemory(v) \/ (big /\ c.at % 4 # 0)
<1> DEFINE a == Low(v)
           b == High(v)
           d == store_half(c, a)
           e == store_half(d, b)
<1>0. 2 \in Nat /\ Len(v) = 2 * 2
  OBVIOUS
<1>1. a \in Seq(S) /\ Len(a) = 2 /\ b \in Seq(S) /\ Len(b) = 2
  BY <1>0, HalvesFact
<1>2. ~big => Joined(InMemory(a), InMemory(b), InMemory(v))
  <2>1. Joined(InMemory(PartsOf(v)[1]), InMemory(PartsOf(v)[2]), InMemory(v))
    BY <1>0, PartsJoin
  <2>2. ~big => PartsOf(v)[1] = a /\ PartsOf(v)[2] = b
    BY DEF PartsOf
  <2>3. QED
    BY <2>1, <2>2
<1> HIDE DEF a, b
<1>3. Written(c, d, InMemory(a)) /\ Shaped(d)
  BY <1>1, StoreHalf
<1> HIDE DEF d
<1>4. Written(d, e, InMemory(b)) /\ Shaped(e)
  BY <1>1, <1>3, StoreHalf
<1> HIDE DEF e
<1>5. store_float(c, v) = IF c.at % 4 # 0 THEN e ELSE PutData(c, v)
  BY DEF store_float, a, b, d, e
<1>6. InMemory(v) \in Seq(S) /\ Len(InMemory(v)) = 4
  BY MemoryImage
<1>7. CASE c.at % 4 = 0
  BY <1>5, <1>6, <1>7, PutWrites
<1>8. CASE c.at % 4 # 0 /\ ~big
  <2>1. Written(c, e, InMemory(v))
    BY <1>1, <1>2, <1>3, <1>4, <1>8, MemoryImage, WrittenTwice
  <2>2. QED
    BY <1>5, <1>6, <1>8, <2>1
<1>9. CASE c.at % 4 # 0 /\ big
  <2> DEFINE ia == InMemory(a)
             ib == InMemory(b)
             image == [k \in 1 .. 4 |-> IF k <= 2 THEN ia[k] ELSE ib[k - 2]]
  <2>1. ia \in Seq(S) /\ Len(ia) = 2 /\ ib \in Seq(S) /\ Len(ib) = 2
    BY <1>1, MemoryImage
  <2> HIDE DEF ia, ib
  <2>2. image \in Seq(S) /\ Len(image) = 4
    <3>1. \A k \in 1 .. 4 : IF k <= 2 THEN k \in 1 .. 2 ELSE k - 2 \in 1 .. 2
      OBVIOUS
    <3>2. \A k \in 1 .. 2 : ia[k] \in S /\ ib[k] \in S
      <4>1. (\A k \in 1 .. Len(ia) : ia[k] \in S) /\ (\A k \in 1 .. Len(ib) : ib[k] \in S)
        BY <2>1, ElementOfSeq
      <4>2. QED
        BY <2>1, <4>1
    <3>3. \A k \in 1 .. 4 : image[k] \in S
      BY <3>1, <3>2
    <3>4. QED
      BY <3>3
  <2>3. Joined(ia, ib, image)
    BY <2>1, <2>2 DEF Joined
  <2> HIDE DEF image
  <2>4. Written(c, e, image)
    BY <1>3, <1>4, <2>1, <2>3, WrittenTwice DEF ia, ib
  <2>5. QED
    BY <1>5, <1>9, <2>2, <2>4
<1>10. QED
  BY <1>7, <1>8, <1>9

LEMMA FilledSteps ==
    ASSUME NEW c, NEW chars
    PROVE  /\ Filled(c, chars)[0] = c
           /\ \A n \in Nat : Filled(c, chars)[n + 1] = store_byte(Filled(c, chars)[n], <<chars[n + 1]>>)
<1> DEFINE Def(d, n) == store_byte(d, <<chars[n]>>)
           f == Filled(c, chars)
<1>1. NatInductiveDefHypothesis(f, c, Def)
  BY DEF Filled, NatInductiveDefHypothesis
<1> HIDE DEF Def, f
<1>2. NatInductiveDefConclusion(f, c, Def)
  BY <1>1, NatInductiveDef
<1>3. f = [n \in Nat |-> IF n = 0 THEN c ELSE store_byte(f[n - 1], <<chars[n]>>)]
  BY <1>2 DEF NatInductiveDefConclusion, Def
<1>4. ASSUME NEW n \in Nat PROVE f[n + 1] = store_byte(f[n], <<chars[n + 1]>>)
  <2>1. n + 1 \in Nat /\ n + 1 # 0 /\ (n + 1) - 1 = n
    OBVIOUS
  <2>2. QED
    BY <1>3, <2>1
<1>5. QED
  BY <1>3, <1>4 DEF f

LEMMA StoreString ==
    ASSUME NEW c, Shaped(c), NEW S, NEW chars \in Seq(S)
    PROVE  Written(c, store_string(c, chars), chars)
<1> DEFINE f == Filled(c, chars)
           Upto(n) == SubSeq(chars, 1, n)
           T == {n \in Nat : n <= Len(chars) => Written(c, f[n], Upto(n))}
<1>1. f[0] = c /\ \A n \in Nat : f[n + 1] = store_byte(f[n], <<chars[n + 1]>>)
  BY FilledSteps
<1> HIDE DEF f
<1>2. 0 \in T
  <2>1. Upto(0) = <<>>
    OBVIOUS
  <2>2. Written(c, c, <<>>)
    <3>1. c.at \in Nat /\ c.top \in Nat /\ Len(<<>>) = 0 /\ 1 .. 0 = {} /\ c.at + 0 = c.at
      BY DEF Shaped
    <3>2. c.at .. c.at + Len(<<>>) - 1 = {}
      BY <3>1
    <3>3. c.top >= c.top
      BY <3>1
    <3>4. QED
      BY <3>1, <3>2, <3>3 DEF Written
  <2>3. QED
    BY <1>1, <2>1, <2>2
<1>3. ASSUME NEW n \in Nat, n \in T PROVE n + 1 \in T
  <2>1. SUFFICES ASSUME n + 1 <= Len(chars) PROVE Written(c, f[n + 1], Upto(n + 1))
    OBVIOUS
  <2> DEFINE v == <<chars[n + 1]>>
             image == InMemory(v)
             before == Upto(n)
             after == Upto(n + 1)
  <2>2. Len(chars) \in Nat /\ n <= Len(chars) /\ n + 1 \in 1 .. Len(chars)
    BY <2>1
  <2>3. Written(c, f[n], before) /\ Shaped(f[n])
    BY <1>3, <2>2 DEF Written
  <2>4. v \in Seq(S) /\ Len(v) = 1 /\ v[1] = chars[n + 1]
    BY <2>2, ElementOfSeq
  <2>5. before \in Seq(S) /\ Len(before) = n /\ \A k \in 1 .. n : before[k] = chars[k]
    BY <2>2
  <2>6. after \in Seq(S) /\ Len(after) = n + 1 /\ \A k \in 1 .. n + 1 : after[k] = chars[k]
    BY <2>2
  <2> HIDE DEF v, before, after
  <2>7. image \in Seq(S) /\ Len(image) = 1 /\ image[1] = chars[n + 1]
    <3>1. InMemory(v) \in Seq(S) /\ Len(InMemory(v)) = 1
      BY <2>4, MemoryImage
    <3>2. Reverse(v)[1] = v[1]
      BY <2>4, Reversal
    <3>3. QED
      BY <2>4, <3>1, <3>2 DEF InMemory
  <2>8. Written(f[n], f[n + 1], image)
    BY <1>1, <2>3, <2>4, StoreByte DEF v
  <2> HIDE DEF image
  <2>9. Joined(before, image, after)
    <3>1. \A k \in 1 .. n : k \in 1 .. n + 1
      OBVIOUS
    <3>2. \A k \in 1 .. 1 : image[k] = chars[n + 1] /\ after[n + k] = chars[n + 1]
      BY <2>6, <2>7
    <3>3. QED
      BY <2>5, <2>6, <2>7, <3>1, <3>2 DEF Joined
  <2>10. Written(c, f[n + 1], after)
    BY <2>3, <2>5, <2>7, <2>8, <2>9, WrittenTwice
  <2>11. QED
    BY <2>10 DEF after
<1> HIDE DEF T
<1>4. Nat \subseteq T
  BY <1>2, <1>3, SetInduction
<1>5. Len(chars) \in Nat /\ Upto(Len(chars)) = chars
  OBVIOUS
<1>6. Written(c, f[Len(chars)], chars)
  <2> DEFINE l == Len(chars)
  <2>1. l \in Nat /\ l <= l /\ l \in T
    BY <1>4, <1>5
  <2>2. l <= Len(chars) => Written(c, f[l], Upto(l))
    <3> HIDE DEF l, Upto
    <3>1. QED
      BY <2>1 DEF T
  <2>3. QED
    BY <1>5, <2>1, <2>2
<1>7. QED
  BY <1>6 DEF store_string, f

----------------------------------------------------------------------------
Byte == Nat \X Nat
Kinds == {"byte", "half", "word", "float", "double", "string", "space", "comm", "lcomm"}
Item ==
    [kind : Kinds, kernel : BOOLEAN, at : Nat, top : Nat, label : Nat \cup {NoLabel},
     image : Seq(Byte), auto : BOOLEAN]

SegmentOf(kernel) == IF kernel THEN "kernel" ELSE "user"

(* An item is in memory b, below bound and in its own segment, aligned and  *)
(* labelled.                                                               *)
Holds(item, b) ==
    \A k \in DOMAIN item.image : item.at + k - 1 \in DOMAIN b /\ b[item.at + k - 1] = item.image[k]
Labelled(item) ==
    /\ item.label \in {NoLabel, item.at} \/ (item.kind = "lcomm" /\ item.kernel)
    /\ item.auto /\ item.kind \in DOMAIN Alignment => item.at % Size[item.kind] = 0
Within(item, bound) ==
    /\ \A k \in DOMAIN item.image : item.at + k - 1 < bound
    /\ item.kernel => item.at >= KDataBot
    /\ ~item.kernel => \A k \in DOMAIN item.image : item.at + k - 1 < KDataBot
Good(item, b, bound) ==
    /\ Beyond(item) \/ Swapped(item) \/ Holds(item, b)
    /\ Labelled(item)
    /\ Within(item, bound)

(* While a line of the user's segment is assembled, the items are good as   *)
(* long as it has not reached the kernel's: what goes further is refused    *)
(* at its end.                                                             *)
Bound(c, kernel) == IF kernel = in_kernel THEN c.at ELSE pc[SegmentOf(kernel)]
Sound(c) ==
    in_kernel \/ c.at <= KDataBot =>
        \A n \in DOMAIN c.items : Good(c.items[n], c.bytes, Bound(c, c.items[n].kernel))
Assembling(c) ==
    /\ Shaped(c) /\ c.at >= pc[Here]
    /\ c.items \in Seq(Item) /\ c.label \in {NoLabel, c.at}
    /\ Sound(c)

DataTypeOK ==
    /\ big \in BOOLEAN /\ in_kernel \in BOOLEAN /\ auto_alignment \in BOOLEAN
    /\ pc \in [{"user", "kernel"} -> Nat] /\ pc["kernel"] >= KDataBot
    /\ top \in [{"user", "kernel"} -> Nat]
    /\ items \in Seq(Item)
DataInvariant ==
    /\ DataTypeOK
    /\ \A n \in DOMAIN items : Good(items[n], bytes, pc[SegmentOf(items[n].kernel)])

LEMMA LineStarts ==
    ASSUME DataInvariant
    PROVE  /\ Assembling(Line)
           /\ Line.at = pc[Here] /\ Line.top = top[Here] /\ Line.bytes = bytes /\ Line.items = items
           /\ Line.label = pc[Here]
<1>1. Here \in {"user", "kernel"} /\ Here = SegmentOf(in_kernel) /\ in_kernel \in BOOLEAN
  BY DEF Here, SegmentOf, DataInvariant, DataTypeOK
<1>2. pc[Here] \in Nat /\ top[Here] \in Nat
  BY <1>1 DEF DataInvariant, DataTypeOK
<1>3. /\ Line.at = pc[Here] /\ Line.top = top[Here] /\ Line.bytes = bytes /\ Line.items = items
      /\ Line.label = pc[Here]
  BY DEF Line
<1>4. Shaped(Line)
  BY <1>2 DEF Line, Shaped
<1>5. \A kernel : kernel \in BOOLEAN => Bound(Line, kernel) = pc[SegmentOf(kernel)]
  BY <1>1, <1>3 DEF Bound
<1>6. Sound(Line)
  <2>1. \A n \in DOMAIN items : items[n].kernel \in BOOLEAN
    <3>1. \A n \in DOMAIN items : items[n] \in Item
      BY DEF DataInvariant, DataTypeOK
    <3>2. QED
      BY <3>1 DEF Item
  <2>2. QED
    BY <1>3, <1>5, <2>1 DEF Sound, DataInvariant
<1>7. QED
  BY <1>2, <1>3, <1>4, <1>6 DEF Assembling, DataInvariant, DataTypeOK

LEMMA PowersOfTwo == Pow2[1] = 2 /\ Pow2[2] = 4 /\ Pow2[3] = 8
<1>1. Pow2[0] = 1 /\ \A n \in Nat : Pow2[n + 1] = 2 * Pow2[n]
  BY Pow2Steps
<1>2. Pow2[0 + 1] = 2 * Pow2[0] /\ Pow2[1 + 1] = 2 * Pow2[1] /\ Pow2[2 + 1] = 2 * Pow2[2]
  BY <1>1
<1>3. QED
  BY <1>1, <1>2

(* What is written between two items' ends leaves those before it alone.    *)
LEMMA GoodLater ==
    ASSUME DataTypeOK, NEW c, NEW d, Assembling(c), c.at \in Nat, d.at \in Nat, d.at >= c.at,
           in_kernel \/ d.at <= KDataBot,
           \A a \in DOMAIN c.bytes : a \notin c.at .. d.at - 1 => a \in DOMAIN d.bytes /\ d.bytes[a] = c.bytes[a],
           NEW item \in Item, Good(item, c.bytes, Bound(c, item.kernel))
    PROVE  Good(item, d.bytes, Bound(d, item.kernel))
<1>1. /\ item.at \in Nat /\ item.kernel \in BOOLEAN /\ item.image \in Seq(Byte)
      /\ DOMAIN item.image = 1 .. Len(item.image) /\ Len(item.image) \in Nat
  BY DEF Item
<1>2. in_kernel \in BOOLEAN /\ pc["user"] \in Nat /\ pc["kernel"] \in Nat /\ pc["kernel"] >= KDataBot /\ KDataBot \in Nat
  BY SegmentAssumption DEF DataTypeOK
<1>3. c.at >= pc[Here]
  BY DEF Assembling
<1>4. Within(item, Bound(c, item.kernel))
  BY DEF Good
<1>5. ASSUME NEW k \in DOMAIN item.image PROVE item.at + k - 1 \notin c.at .. d.at - 1
  <2>1. item.at + k - 1 \in Nat
    BY <1>1
  <2>2. CASE item.kernel = in_kernel
    <3>1. item.at + k - 1 < c.at
      BY <1>4, <2>2 DEF Within, Bound
    <3>2. QED
      BY <2>1, <3>1
  <2>3. CASE item.kernel /\ ~in_kernel
    <3>1. item.at >= KDataBot /\ d.at <= KDataBot
      BY <1>4, <2>3 DEF Within
    <3>2. QED
      BY <1>1, <1>2, <3>1
  <2>4. CASE ~item.kernel /\ in_kernel
    <3>1. item.at + k - 1 < KDataBot /\ c.at >= pc["kernel"]
      BY <1>3, <1>4, <2>4 DEF Within, Here
    <3>2. QED
      BY <1>1, <1>2, <2>1, <3>1
  <2>5. QED
    BY <1>1, <1>2, <2>2, <2>3, <2>4
<1>6. Holds(item, c.bytes) => Holds(item, d.bytes)
  BY <1>5 DEF Holds
<1>7. Within(item, Bound(d, item.kernel))
  <2>1. ASSUME NEW k \in DOMAIN item.image, item.kernel = in_kernel PROVE item.at + k - 1 < d.at
    <3>1. item.at + k - 1 < c.at /\ item.at + k - 1 \in Nat
      BY <1>1, <1>4, <2>1 DEF Within, Bound
    <3>2. QED
      BY <3>1
  <2>2. QED
    BY <1>4, <2>1 DEF Within, Bound
<1>8. QED
  BY <1>6, <1>7 DEF Good

(* An item is noted, and stored in what follows.                            *)
LEMMA ItemAdded ==
    ASSUME DataTypeOK, NEW c, Assembling(c),
           NEW kind \in Kinds, NEW label \in Nat \cup {NoLabel}, NEW image \in Seq(Byte),
           NEW e, Shaped(e)
    PROVE  LET d == Noted(c, kind, label, image)
               item == [kind |-> kind, kernel |-> in_kernel, at |-> c.at, top |-> c.top,
                        label |-> label, image |-> image, auto |-> auto_alignment]
           IN  /\ Shaped(d) /\ d.at = c.at /\ d.top = c.top /\ d.bytes = c.bytes /\ d.label = NoLabel
               /\ (/\ Labelled(item)
                   /\ e.at >= c.at + Len(image) /\ e.items = d.items /\ e.label = d.label
                   /\ \A a \in DOMAIN c.bytes : a \notin c.at .. e.at - 1 => a \in DOMAIN e.bytes /\ e.bytes[a] = c.bytes[a]
                   /\ Beyond(item) \/ Swapped(item) \/ Holds(item, e.bytes)) => Assembling(e)
<1> DEFINE item == [kind |-> kind, kernel |-> in_kernel, at |-> c.at, top |-> c.top,
                    label |-> label, image |-> image, auto |-> auto_alignment]
           more == Append(c.items, item)
           d == Noted(c, kind, label, image)
<1>1. Shaped(c) /\ c.at \in Nat /\ c.top \in Nat /\ c.items \in Seq(Item) /\ c.at >= pc[Here] /\ Sound(c)
  BY DEF Assembling, Shaped
<1>2. item \in Item
  BY <1>1 DEF Item, DataTypeOK
<1>3. d = [c EXCEPT !.items = more, !.label = NoLabel]
  BY DEF Noted
<1>4. item.image = image /\ item.at = c.at /\ item.kernel = in_kernel
  OBVIOUS
<1>5. /\ more \in Seq(Item) /\ Len(more) = Len(c.items) + 1
      /\ \A n \in DOMAIN more : (n \in DOMAIN c.items /\ more[n] = c.items[n]) \/ more[n] = item
  BY <1>1, <1>2
<1> HIDE DEF item, more, d
<1>6. /\ d.at = c.at /\ d.top = c.top /\ d.bytes = c.bytes /\ d.items = more /\ d.label = NoLabel
  BY <1>1, <1>3 DEF Shaped
<1>7. Shaped(d)
  BY <1>1, <1>3, <1>6 DEF Shaped
<1>8. ASSUME Labelled(item), e.at >= c.at + Len(image), e.items = d.items, e.label = d.label,
             \A a \in DOMAIN c.bytes : a \notin c.at .. e.at - 1 => a \in DOMAIN e.bytes /\ e.bytes[a] = c.bytes[a],
             Beyond(item) \/ Swapped(item) \/ Holds(item, e.bytes)
      PROVE  Assembling(e)
  <2>1. e.at \in Nat /\ Len(image) \in Nat /\ DOMAIN image = 1 .. Len(image) /\ e.at >= c.at
    BY <1>1, <1>8 DEF Shaped
  <2>2. pc[Here] \in Nat /\ KDataBot \in Nat
    BY SegmentAssumption DEF DataTypeOK, Here
  <2>3. e.at >= pc[Here]
    BY <1>1, <2>1, <2>2
  <2>4. ASSUME in_kernel \/ e.at <= KDataBot, NEW n \in DOMAIN more
        PROVE  Good(more[n], e.bytes, Bound(e, more[n].kernel))
    <3>1. in_kernel \/ c.at <= KDataBot
      BY <1>1, <2>1, <2>2, <2>4
    <3>2. CASE n \in DOMAIN c.items /\ more[n] = c.items[n]
      <4>1. Good(c.items[n], c.bytes, Bound(c, c.items[n].kernel))
        BY <1>1, <3>1, <3>2 DEF Sound
      <4>2. c.items[n] \in Item
        BY <1>1, <3>2
      <4>3. QED
        BY <1>1, <1>8, <2>1, <2>4, <3>2, <4>1, <4>2, GoodLater
    <3>3. CASE more[n] = item
      <4>1. \A k \in DOMAIN image : c.at + k - 1 < e.at
        <5>1. \A k \in 1 .. Len(image) : c.at + k - 1 < c.at + Len(image)
          BY <1>1, <2>1
        <5>2. QED
          BY <1>1, <1>8, <2>1, <5>1
      <4>2. Bound(e, item.kernel) = e.at
        BY <1>4 DEF Bound
      <4>3. in_kernel => c.at >= KDataBot
        <5>1. in_kernel => pc[Here] >= KDataBot
          BY DEF DataTypeOK, Here
        <5>2. QED
          BY <1>1, <2>2, <5>1
      <4>4. ~in_kernel => \A k \in DOMAIN image : c.at + k - 1 < KDataBot
        BY <1>1, <2>1, <2>2, <2>4, <4>1
      <4>5. Within(item, Bound(e, item.kernel))
        BY <1>4, <4>1, <4>2, <4>3, <4>4 DEF Within
      <4>6. QED
        BY <1>8, <3>3, <4>5 DEF Good
    <3>4. QED
      BY <1>5, <2>4, <3>2, <3>3
  <2>5. Sound(e)
    BY <1>6, <1>8, <2>4 DEF Sound
  <2>6. QED
    BY <1>5, <1>6, <1>8, <2>3, <2>5 DEF Assembling
<1>9. QED
  BY <1>6, <1>7, <1>8 DEF item, d

LEMMA Alignments3 ==
    \A kind \in DOMAIN Alignment :
        kind \in {"half", "word", "float", "double"} /\ Alignment[kind] \in Nat /\ Pow2[Alignment[kind]] = Size[kind]
<1>1. DOMAIN Alignment = {"half", "word", "float", "double"}
  BY DEF Alignment
<1>2. Alignment["half"] = 1 /\ Alignment["word"] = 2 /\ Alignment["float"] = 2 /\ Alignment["double"] = 3
  BY DEF Alignment
<1>3. Size["half"] = 2 /\ Size["word"] = 4 /\ Size["float"] = 4 /\ Size["double"] = 8
  BY DEF Size
<1>4. QED
  BY <1>1, <1>2, <1>3, PowersOfTwo

Datums == {"byte", "half", "word", "float", "double"}

LEMMA SizeOf == \A kind \in Datums : Size[kind] \in Nat \ {0}
<1>1. /\ Size["byte"] = 1 /\ Size["half"] = 2 /\ Size["word"] = 4 /\ Size["float"] = 4 /\ Size["double"] = 8
  BY DEF Size
<1>2. QED
  BY <1>1 DEF Datums

LEMMA AlignKeeps ==
    ASSUME DataTypeOK, NEW c, Assembling(c), NEW n \in Nat
    PROVE  LET d == align_data(c, n)
           IN  Assembling(d) /\ d.at % Pow2[n] = 0 /\ d.label = d.at
<1> DEFINE at == RoundUp(c.at, Pow2[n])
           d == align_data(c, n)
<1>1. Shaped(c) /\ c.at \in Nat /\ c.top \in Nat /\ c.items \in Seq(Item) /\ c.at >= pc[Here] /\ Sound(c)
  BY DEF Assembling, Shaped
<1>2. Pow2[n] \in Nat \ {0}
  BY Pow2Type
<1>3. at \in Nat /\ at >= c.at /\ at % Pow2[n] = 0
  BY <1>1, <1>2, RoundUpFact
<1>4. d = [c EXCEPT !.at = at, !.label = at]
  BY DEF align_data
<1> HIDE DEF at, d
<1>5. d.at = at /\ d.top = c.top /\ d.bytes = c.bytes /\ d.items = c.items /\ d.label = at
  BY <1>1, <1>4 DEF Shaped
<1>6. Shaped(d)
  BY <1>1, <1>3, <1>4, <1>5 DEF Shaped
<1>7. pc[Here] \in Nat /\ KDataBot \in Nat
  BY SegmentAssumption DEF DataTypeOK, Here
<1>8. Sound(d)
  <2>1. SUFFICES ASSUME in_kernel \/ d.at <= KDataBot, NEW m \in DOMAIN c.items
                 PROVE  Good(c.items[m], d.bytes, Bound(d, c.items[m].kernel))
    BY <1>5 DEF Sound
  <2>2. in_kernel \/ c.at <= KDataBot
    BY <1>1, <1>3, <1>5, <1>7, <2>1
  <2>3. Good(c.items[m], c.bytes, Bound(c, c.items[m].kernel)) /\ c.items[m] \in Item
    BY <1>1, <2>1, <2>2 DEF Sound
  <2>4. QED
    BY <1>1, <1>3, <1>5, <2>1, <2>3, GoodLater
<1>9. d.at >= pc[Here]
  BY <1>1, <1>3, <1>5, <1>7
<1>10. QED
  BY <1>1, <1>3, <1>5, <1>6, <1>8, <1>9 DEF Assembling, d

(* One datum of a list.                                                    *)
LEMMA DatumStored ==
    ASSUME DataTypeOK, NEW c, Assembling(c), NEW kind \in Datums,
           auto_alignment /\ kind \in DOMAIN Alignment => c.at % Size[kind] = 0
    PROVE  LET e == Stored(c, kind)
           IN  Assembling(e) /\ e.at = c.at + Size[kind]
<1> DEFINE v == Fresh(c, Size[kind])
           image == InMemory(v)
           d == Noted(c, kind, c.label, image)
           e == Stored(c, kind)
           item == [kind |-> kind, kernel |-> in_kernel, at |-> c.at, top |-> c.top,
                    label |-> c.label, image |-> image, auto |-> auto_alignment]
<1>1. c.at \in Nat /\ c.top \in Nat /\ c.items \in Seq(Item) /\ c.label \in {NoLabel, c.at} /\ Len(c.items) \in Nat
  BY DEF Assembling, Shaped
<1>2. Size[kind] \in Nat \ {0} /\ kind \in Kinds
  BY SizeOf DEF Datums, Kinds
<1>3. v \in Seq(Byte) /\ Len(v) = Size[kind]
  <2> DEFINE s == Size[kind]
             m == Len(c.items) + 1
  <2>1. s \in Nat /\ m \in Nat /\ v = [k \in 1 .. s |-> <<m, k>>]
    BY <1>1, <1>2 DEF Fresh
  <2> HIDE DEF s, m, v
  <2>2. \A k \in 1 .. s : <<m, k>> \in Byte
    BY <2>1 DEF Byte
  <2>3. QED
    BY <2>1, <2>2 DEF s
<1> HIDE DEF v
<1>4. image \in Seq(Byte) /\ Len(image) = Size[kind]
  BY <1>3, MemoryImage
<1> HIDE DEF image
<1>5. Shaped(d) /\ d.at = c.at /\ d.top = c.top /\ d.bytes = c.bytes /\ d.label = NoLabel
  <2>1. c.label \in Nat \cup {NoLabel} /\ Shaped(c)
    BY <1>1 DEF Assembling
  <2>2. QED
    BY <1>2, <1>4, <2>1, ItemAdded
<1>6. e = CASE kind = "byte" -> store_byte(d, v)
            [] kind = "half" -> store_half(d, v)
            [] kind = "word" -> store_word(d, v)
            [] kind = "float" -> store_float(d, v)
            [] kind = "double" -> store_double(d, v)
  BY DEF Stored, v, image
<1> HIDE DEF d, e
<1>7. PICK actual \in Seq(Byte) :
          /\ Len(actual) = Len(image) /\ Written(d, e, actual)
          /\ actual = image \/ (big /\ kind = "float" /\ c.at % 4 # 0)
  <2>1. CASE kind = "byte"
    BY <1>3, <1>4, <1>5, <1>6, <2>1, StoreByte DEF image
  <2>2. CASE kind = "half"
    <3>1. Len(v) = 2
      BY <1>3, <2>2 DEF Size
    <3>2. QED
      BY <1>3, <1>4, <1>5, <1>6, <2>2, <3>1, StoreHalf DEF image
  <2>3. CASE kind = "word"
    <3>1. Len(v) = 4
      BY <1>3, <2>3 DEF Size
    <3>2. QED
      BY <1>3, <1>4, <1>5, <1>6, <2>3, <3>1, StoreWord DEF image
  <2>4. CASE kind = "float"
    <3>1. Len(v) = 4
      BY <1>3, <2>4 DEF Size
    <3>2. e = store_float(d, v)
      BY <1>6, <2>4
    <3>3. PICK actual \in Seq(Byte) :
              /\ Len(actual) = 4 /\ Written(d, store_float(d, v), actual)
              /\ actual = InMemory(v) \/ (big /\ d.at % 4 # 0)
      BY <1>3, <1>5, <3>1, StoreFloat
    <3>4. QED
      BY <1>3, <1>4, <1>5, <2>4, <3>1, <3>2, <3>3 DEF image
  <2>5. CASE kind = "double"
    <3>1. Len(v) = 8
      BY <1>3, <2>5 DEF Size
    <3>2. QED
      BY <1>3, <1>4, <1>5, <1>6, <2>5, <3>1, StoreDouble DEF image
  <2>6. QED
    BY <2>1, <2>2, <2>3, <2>4, <2>5 DEF Datums
<1>8. /\ Shaped(e) /\ e.at = c.at + Len(image) /\ e.items = d.items /\ e.label = d.label
      /\ \A a \in DOMAIN c.bytes : a \notin c.at .. e.at - 1 => a \in DOMAIN e.bytes /\ e.bytes[a] = c.bytes[a]
      /\ c.at < c.top =>
            \A k \in 1 .. Len(actual) : c.at + k - 1 \in DOMAIN e.bytes /\ e.bytes[c.at + k - 1] = actual[k]
  <2> DEFINE l == Len(image)
             at == c.at
  <2>1. /\ Shaped(e) /\ e.at = at + l /\ e.items = d.items /\ e.label = d.label
        /\ \A a \in DOMAIN c.bytes : a \notin at .. at + l - 1 => a \in DOMAIN e.bytes /\ e.bytes[a] = c.bytes[a]
        /\ at < c.top =>
              \A k \in 1 .. Len(actual) : at + k - 1 \in DOMAIN e.bytes /\ e.bytes[at + k - 1] = actual[k]
    BY <1>5, <1>7 DEF Written
  <2>2. l \in Nat /\ at \in Nat
    BY <1>1, <1>2, <1>4
  <2> DEFINE end == e.at
  <2>3. end = at + l
    BY <2>1
  <2> HIDE DEF l, at, end
  <2>4. at .. at + l - 1 = at .. end - 1
    BY <2>2, <2>3
  <2>5. QED
    BY <2>1, <2>4 DEF l, at, end
<1>9. item.image = image /\ item.at = c.at /\ item.top = c.top /\ item.kind = kind /\ item.label = c.label
      /\ item.auto = auto_alignment /\ DOMAIN image = 1 .. Len(image)
  BY <1>4
<1> HIDE DEF item
<1>10. Labelled(item)
  BY <1>1, <1>9 DEF Labelled
<1>11. Beyond(item) \/ Swapped(item) \/ Holds(item, e.bytes)
  <2>1. CASE c.at >= c.top
    BY <1>9, <2>1 DEF Beyond
  <2>2. CASE c.at < c.top /\ actual = image
    BY <1>8, <1>9, <2>2 DEF Holds
  <2>3. CASE big /\ kind = "float" /\ c.at % 4 # 0
    BY <1>9, <2>3 DEF Swapped
  <2>4. QED
    BY <1>1, <1>7, <2>1, <2>2, <2>3
<1>12. Assembling(e)
  <2>1. c.label \in Nat \cup {NoLabel} /\ e.at >= c.at + Len(image)
    BY <1>1, <1>2, <1>4, <1>8
  <2>2. QED
    BY <1>2, <1>4, <1>8, <1>10, <1>11, <2>1, ItemAdded DEF item, d
<1>13. e.at = c.at + Size[kind]
  BY <1>4, <1>8
<1>14. QED
  BY <1>12, <1>13 DEF e

LEMMA ListedSteps ==
    ASSUME NEW start, NEW kind
    PROVE  /\ Listed(start, kind)[0] = start
           /\ \A n \in Nat : Listed(start, kind)[n + 1] = Stored(Listed(start, kind)[n], kind)
<1> DEFINE Def(c, n) == Stored(c, kind)
           f == Listed(start, kind)
<1>1. NatInductiveDefHypothesis(f, start, Def)
  BY DEF Listed, NatInductiveDefHypothesis
<1> HIDE DEF Def, f
<1>2. NatInductiveDefConclusion(f, start, Def)
  BY <1>1, NatInductiveDef
<1>3. f = [n \in Nat |-> IF n = 0 THEN start ELSE Stored(f[n - 1], kind)]
  BY <1>2 DEF NatInductiveDefConclusion, Def
<1>4. ASSUME NEW n \in Nat PROVE f[n + 1] = Stored(f[n], kind)
  <2>1. n + 1 \in Nat /\ n + 1 # 0 /\ (n + 1) - 1 = n
    OBVIOUS
  <2>2. QED
    BY <1>3, <2>1
<1>5. QED
  BY <1>3, <1>4 DEF f

LEMMA ListAssembles ==
    ASSUME DataTypeOK, NEW start, Assembling(start), NEW kind \in Datums, NEW count \in Nat,
           auto_alignment /\ kind \in DOMAIN Alignment => start.at % Size[kind] = 0
    PROVE  Assembling(Listed(start, kind)[count])
<1> DEFINE f == Listed(start, kind)
           s == Size[kind]
           aligned == auto_alignment /\ kind \in DOMAIN Alignment
           T == {n \in Nat : Assembling(f[n]) /\ (aligned => f[n].at % s = 0)}
<1>1. f[0] = start /\ \A n \in Nat : f[n + 1] = Stored(f[n], kind)
  BY ListedSteps
<1>2. s \in Nat \ {0}
  BY SizeOf
<1> HIDE DEF f
<1>3. 0 \in T
  BY <1>1
<1>4. ASSUME NEW n \in Nat, n \in T PROVE n + 1 \in T
  <2> DEFINE c == f[n]
             e == Stored(c, kind)
             at == c.at
  <2>1. Assembling(c) /\ (aligned => at % s = 0)
    BY <1>4
  <2>2. at \in Nat
    BY <2>1 DEF Assembling, Shaped
  <2>3. f[n + 1] = e
    BY <1>1
  <2> HIDE DEF c
  <2>4. Assembling(e) /\ e.at = at + s
    BY <2>1, DatumStored
  <2> HIDE DEF e, s, at
  <2>5. (at + s) % s = at % s
    <3>1. at + 1 * s = at + s /\ at \in Int /\ 1 \in Int
      BY <1>2, <2>2
    <3>2. (at + 1 * s) % s = at % s
      BY <1>2, <3>1, ModShift
    <3>3. QED
      BY <3>1, <3>2
  <2>6. aligned => e.at % s = 0
    BY <2>1, <2>4, <2>5
  <2>7. n + 1 \in Nat
    OBVIOUS
  <2>8. QED
    BY <2>3, <2>4, <2>6, <2>7
<1> HIDE DEF T, s, aligned
<1>5. Nat \subseteq T
  BY <1>3, <1>4, SetInduction
<1>6. count \in T
  BY <1>5
<1>7. QED
  BY <1>6 DEF T, f

LEMMA StringAssembles ==
    ASSUME DataTypeOK, NEW c, Assembling(c), NEW kind \in {"string", "lcomm"},
           NEW label \in Nat, NEW chars \in Seq(Byte), label = c.at \/ (kind = "lcomm" /\ in_kernel)
    PROVE  Assembling(store_string(Noted(c, kind, label, chars), chars))
<1> DEFINE d == Noted(c, kind, label, chars)
           e == store_string(d, chars)
           item == [kind |-> kind, kernel |-> in_kernel, at |-> c.at, top |-> c.top,
                    label |-> label, image |-> chars, auto |-> auto_alignment]
<1>1. c.at \in Nat /\ c.top \in Nat /\ Shaped(c) /\ kind \in Kinds /\ kind \notin DOMAIN Alignment
  BY Alignments3 DEF Assembling, Shaped, Kinds
<1>2. Shaped(d) /\ d.at = c.at /\ d.top = c.top /\ d.bytes = c.bytes
  BY <1>1, ItemAdded, ZenonT(60)
<1> HIDE DEF d
<1>3. Written(d, e, chars)
  BY <1>2, StoreString
<1> HIDE DEF e
<1>4. /\ Shaped(e) /\ e.at = c.at + Len(chars) /\ e.items = d.items /\ e.label = d.label
      /\ \A a \in DOMAIN c.bytes : a \notin c.at .. c.at + Len(chars) - 1 => a \in DOMAIN e.bytes /\ e.bytes[a] = c.bytes[a]
      /\ c.at < c.top =>
            \A k \in 1 .. Len(chars) : c.at + k - 1 \in DOMAIN e.bytes /\ e.bytes[c.at + k - 1] = chars[k]
  BY <1>2, <1>3 DEF Written
<1>5. c.at .. c.at + Len(chars) - 1 = c.at .. e.at - 1 /\ e.at >= c.at + Len(chars)
  <2> DEFINE l == Len(chars)
             at == c.at
             end == e.at
  <2>1. l \in Nat /\ at \in Nat /\ end = at + l
    BY <1>1, <1>4
  <2> HIDE DEF l, at, end
  <2>2. at .. at + l - 1 = at .. end - 1 /\ end >= at + l
    BY <2>1
  <2>3. QED
    BY <2>2 DEF l, at, end
<1>6. /\ item.image = chars /\ item.at = c.at /\ item.top = c.top /\ item.kind = kind /\ item.label = label
      /\ item.kernel = in_kernel /\ DOMAIN chars = 1 .. Len(chars)
  OBVIOUS
<1> HIDE DEF item
<1>7. Labelled(item)
  BY <1>1, <1>6 DEF Labelled
<1>8. Beyond(item) \/ Holds(item, e.bytes)
  BY <1>1, <1>4, <1>6 DEF Beyond, Holds
<1>9. Assembling(e)
  <2>1. \A a \in DOMAIN c.bytes : a \notin c.at .. e.at - 1 => a \in DOMAIN e.bytes /\ e.bytes[a] = c.bytes[a]
    BY <1>4, <1>5
  <2>2. QED
    BY <1>1, <1>4, <1>5, <1>7, <1>8, <2>1, ItemAdded DEF item, d
<1>10. QED
  BY <1>9 DEF d, e

LEMMA ItemNoted ==
    ASSUME DataTypeOK, NEW c, Assembling(c), NEW kind \in Kinds,
           NEW label \in Nat \cup {NoLabel}, NEW image \in Seq(Byte)
    PROVE  LET d == Noted(c, kind, label, image)
           IN  Shaped(d) /\ d.at = c.at /\ d.top = c.top /\ d.bytes = c.bytes
<1>1. Shaped(c)
  BY DEF Assembling
<1>2. QED
  BY <1>1, ItemAdded

LEMMA SpaceAssembles ==
    ASSUME DataTypeOK, NEW c, Assembling(c), NEW kind \in {"space", "comm"},
           NEW size \in Nat, c.label = c.at
    PROVE  Assembling(increment_data_pc(Noted(c, kind, c.at, <<>>), size))
<1> DEFINE none == <<>>
           label == c.at
           d == Noted(c, kind, label, none)
           e == increment_data_pc(d, size)
           item == [kind |-> kind, kernel |-> in_kernel, at |-> c.at, top |-> c.top,
                    label |-> label, image |-> none, auto |-> auto_alignment]
<1>1. /\ c.at \in Nat /\ c.top \in Nat /\ Shaped(c) /\ kind \in Kinds /\ kind \notin DOMAIN Alignment
      /\ none \in Seq(Byte) /\ Len(none) = 0 /\ DOMAIN none = {}
      /\ label \in Nat \cup {NoLabel} /\ label = c.at
  BY Alignments3 DEF Assembling, Shaped, Kinds
<1> HIDE DEF none, label
<1>2. Shaped(d) /\ d.at = c.at /\ d.top = c.top /\ d.bytes = c.bytes
  <2>1. label \in Nat \cup {NoLabel} /\ none \in Seq(Byte) /\ kind \in Kinds
    BY <1>1
  <2> HIDE DEF d
  <2>2. ASSUME NEW l \in Nat \cup {NoLabel}, NEW image \in Seq(Byte)
        PROVE  LET g == Noted(c, kind, l, image)
               IN  Shaped(g) /\ g.at = c.at /\ g.top = c.top /\ g.bytes = c.bytes
    BY <2>1, ItemNoted
  <2>3. QED
    BY <2>1, <2>2 DEF d
<1> HIDE DEF d
<1>3. Shaped(e) /\ e.at = d.at + size /\ e.bytes = d.bytes /\ e.items = d.items /\ e.label = d.label
  BY <1>2, Increment
<1> HIDE DEF e
<1>4. item.image = none /\ item.at = c.at /\ item.kind = kind /\ item.label = label
  OBVIOUS
<1> HIDE DEF item
<1>5. Labelled(item) /\ Holds(item, e.bytes)
  BY <1>1, <1>4 DEF Labelled, Holds
<1>6. /\ e.at >= c.at + Len(none)
      /\ \A a \in DOMAIN c.bytes : a \notin c.at .. e.at - 1 => a \in DOMAIN e.bytes /\ e.bytes[a] = c.bytes[a]
  BY <1>1, <1>2, <1>3
<1>7. Assembling(e)
  BY <1>1, <1>2, <1>3, <1>5, <1>6, ItemAdded, ZenonT(60) DEF item, d
<1>8. QED
  BY <1>7 DEF d, e, none, label

LEMMA LineEnds ==
    ASSUME DataInvariant, NEW c, Assembling(c), Ends(c), auto_alignment' \in BOOLEAN
    PROVE  DataInvariant'
<1>1. /\ pc' = [pc EXCEPT ![Here] = c.at] /\ top' = [top EXCEPT ![Here] = c.top]
      /\ bytes' = c.bytes /\ items' = c.items /\ big' = big /\ in_kernel' = in_kernel
      /\ c.at <= (IF in_kernel THEN KDataBot ELSE DataBot) + DataLimit
  BY DEF Ends
<1>2. /\ c.at \in Nat /\ c.top \in Nat /\ c.items \in Seq(Item) /\ c.at >= pc[Here] /\ Sound(c)
      /\ Here \in {"user", "kernel"} /\ (Here = "kernel" <=> in_kernel)
  BY DEF Assembling, Shaped, Here
<1>3. /\ pc \in [{"user", "kernel"} -> Nat] /\ pc["kernel"] >= KDataBot /\ KDataBot \in Nat
      /\ top \in [{"user", "kernel"} -> Nat] /\ big \in BOOLEAN /\ in_kernel \in BOOLEAN
  BY SegmentAssumption DEF DataInvariant, DataTypeOK
<1>4. DataTypeOK'
  <2>1. pc' \in [{"user", "kernel"} -> Nat] /\ top' \in [{"user", "kernel"} -> Nat]
    BY <1>1, <1>2, <1>3
  <2>2. pc'["kernel"] >= KDataBot
    <3>1. CASE Here = "kernel"
      BY <1>1, <1>2, <1>3, <3>1
    <3>2. CASE Here # "kernel"
      BY <1>1, <1>2, <1>3, <3>2
    <3>3. QED
      BY <3>1, <3>2
  <2>3. QED
    BY <1>1, <1>2, <1>3, <2>1, <2>2 DEF DataTypeOK
<1>5. in_kernel \/ c.at <= KDataBot
  BY <1>1, <1>2, <1>3, SegmentAssumption
<1>6. ASSUME NEW n \in DOMAIN items'
      PROVE  Good(items'[n], bytes', pc'[SegmentOf(items'[n].kernel)])
  <2>1. Good(c.items[n], c.bytes, Bound(c, c.items[n].kernel)) /\ c.items[n] \in Item
    BY <1>1, <1>2, <1>5, <1>6 DEF Sound
  <2>2. Bound(c, c.items[n].kernel) = pc'[SegmentOf(c.items[n].kernel)]
    <3>1. c.items[n].kernel \in BOOLEAN
      BY <2>1 DEF Item
    <3>2. QED
      BY <1>1, <1>2, <1>3, <3>1 DEF Bound, SegmentOf
  <2>3. QED
    BY <1>1, <2>1, <2>2
<1>7. (\A n \in DOMAIN items : Good(items[n], bytes, pc[SegmentOf(items[n].kernel)]))'
  BY <1>1, <1>6 DEF Good, Beyond, Swapped, Holds, Labelled, Within, SegmentOf
<1>8. QED
  BY <1>4, <1>7 DEF DataInvariant

LEMMA DatumStep ==
    ASSUME DataInvariant, NEW d \in Data, Datum(d[1], d[2])
    PROVE  DataInvariant'
<1> DEFINE kind == d[1]
           count == d[2]
           start == IF kind \in DOMAIN Alignment THEN set_data_alignment(Line, Alignment[kind]) ELSE Line
<1>1. kind \in Datums /\ count \in Nat
  BY SegmentAssumption DEF Datums
<1>2. DataTypeOK /\ Assembling(Line)
  BY LineStarts DEF DataInvariant
<1>3. Ends(Listed(start, kind)[count]) /\ auto_alignment' = auto_alignment
  BY DEF Datum
<1> HIDE DEF kind, count
<1>4. Assembling(start) /\ (auto_alignment /\ kind \in DOMAIN Alignment => start.at % Size[kind] = 0)
  <2>1. CASE auto_alignment /\ kind \in DOMAIN Alignment
    <3> DEFINE n == Alignment[kind]
               e == align_data(Line, n)
    <3>1. n \in Nat /\ Pow2[n] = Size[kind]
      BY <2>1, Alignments3
    <3>2. start = e
      BY <2>1 DEF set_data_alignment
    <3> HIDE DEF n
    <3>3. Assembling(e) /\ e.at % Pow2[n] = 0
      BY <1>2, <3>1, AlignKeeps
    <3> HIDE DEF e, start
    <3>4. QED
      BY <3>1, <3>2, <3>3
  <2>2. CASE ~(auto_alignment /\ kind \in DOMAIN Alignment)
    BY <1>2, <2>2 DEF set_data_alignment
  <2>3. QED
    BY <2>1, <2>2
<1> HIDE DEF start
<1>5. Assembling(Listed(start, kind)[count])
  BY <1>1, <1>2, <1>4, ListAssembles
<1>6. QED
  BY <1>2, <1>3, <1>5, LineEnds DEF DataTypeOK

LEMMA AsciiStep ==
    ASSUME DataInvariant, NEW chars \in Seq(Byte), Ascii(chars)
    PROVE  DataInvariant'
<1>1. DataTypeOK /\ Assembling(Line) /\ Line.label = Line.at /\ Line.at \in Nat
  BY LineStarts DEF DataInvariant, Assembling, Shaped
<1>2. Ends(store_string(Noted(Line, "string", Line.label, chars), chars)) /\ auto_alignment' = auto_alignment
  BY DEF Ascii
<1>3. Assembling(store_string(Noted(Line, "string", Line.label, chars), chars))
  BY <1>1, StringAssembles
<1>4. QED
  BY <1>1, <1>2, <1>3, LineEnds DEF DataTypeOK

LEMMA SpaceStep ==
    ASSUME DataInvariant, NEW size \in Nat, Space(size) \/ Comm(size)
    PROVE  DataInvariant'
<1>1. DataTypeOK /\ Assembling(Line) /\ Line.label = Line.at
  BY LineStarts DEF DataInvariant
<1>2. CASE Space(size)
  <2>1. Assembling(increment_data_pc(Noted(Line, "space", Line.at, <<>>), size))
    BY <1>1, SpaceAssembles
  <2>2. QED
    BY <1>1, <1>2, <2>1, LineEnds DEF Space, DataTypeOK
<1>3. CASE Comm(size)
  <2> DEFINE c == align_data(Line, 2)
  <2>1. Ends(increment_data_pc(Noted(c, "comm", c.at, <<>>), size)) /\ auto_alignment' = auto_alignment
    BY <1>3 DEF Comm
  <2>2. Assembling(c) /\ c.label = c.at
    BY <1>1, AlignKeeps
  <2> HIDE DEF c
  <2>3. Assembling(increment_data_pc(Noted(c, "comm", c.at, <<>>), size))
    BY <1>1, <2>2, SpaceAssembles
  <2>4. QED
    BY <1>1, <2>1, <2>3, LineEnds DEF DataTypeOK
<1>4. QED
  BY <1>2, <1>3

LEMMA LcommStep ==
    ASSUME DataInvariant, NEW size \in Nat, Lcomm(size)
    PROVE  DataInvariant'
<1> DEFINE zeros == [k \in 1 .. size |-> <<0, 0>>]
           label == pc["user"]
<1>1. /\ DataTypeOK /\ Assembling(Line) /\ label \in Nat /\ Line.at = pc[Here] /\ (~in_kernel => Here = "user")
  BY LineStarts DEF DataInvariant, DataTypeOK, Here
<1>2. zeros \in Seq(Byte)
  BY DEF Byte
<1>3. Ends(store_string(Noted(Line, "lcomm", label, zeros), zeros)) /\ auto_alignment' = auto_alignment
  BY DEF Lcomm
<1>4. label = Line.at \/ in_kernel
  BY <1>1
<1> HIDE DEF zeros, label
<1>5. Assembling(store_string(Noted(Line, "lcomm", label, zeros), zeros))
  BY <1>1, <1>2, <1>4, StringAssembles
<1>6. QED
  BY <1>1, <1>3, <1>5, LineEnds DEF DataTypeOK

LEMMA AlignStep ==
    ASSUME DataInvariant, NEW n \in Nat, Align(n)
    PROVE  DataInvariant'
<1>1. DataTypeOK /\ Assembling(Line)
  BY LineStarts DEF DataInvariant
<1>2. Assembling(align_data(Line, n))
  BY <1>1, AlignKeeps
<1>3. QED
  BY <1>1, <1>2, LineEnds DEF Align, DataTypeOK

(* What was stored stays below the place of the next datum.                 *)
LEMMA SegmentStep ==
    ASSUME DataInvariant, NEW kernel \in BOOLEAN, NEW address \in Nat, Segment(kernel, address)
    PROVE  DataInvariant'
<1> DEFINE seg == SegmentOf(kernel)
<1>1. /\ address >= pc[seg] /\ pc' = [pc EXCEPT ![seg] = address]
      /\ in_kernel' = kernel /\ auto_alignment' = TRUE
      /\ big' = big /\ top' = top /\ bytes' = bytes /\ items' = items
  BY DEF Segment, SegmentOf
<1>2. /\ pc \in [{"user", "kernel"} -> Nat] /\ pc["kernel"] >= KDataBot /\ KDataBot \in Nat
      /\ seg \in {"user", "kernel"} /\ items \in Seq(Item) /\ big \in BOOLEAN
      /\ top \in [{"user", "kernel"} -> Nat]
  BY SegmentAssumption DEF DataInvariant, DataTypeOK, SegmentOf
<1> HIDE DEF seg
<1>3. pc' \in [{"user", "kernel"} -> Nat] /\ \A s \in {"user", "kernel"} : pc'[s] >= pc[s]
  BY <1>1, <1>2
<1>4. DataTypeOK'
  BY <1>1, <1>2, <1>3 DEF DataTypeOK
<1>5. ASSUME NEW n \in DOMAIN items
      PROVE  Good(items[n], bytes, pc'[SegmentOf(items[n].kernel)])
  <2> DEFINE item == items[n]
             s == SegmentOf(item.kernel)
  <2>1. Good(item, bytes, pc[s]) /\ item \in Item
    BY <1>2, <1>5 DEF DataInvariant
  <2>2. s \in {"user", "kernel"}
    BY DEF SegmentOf
  <2> HIDE DEF s, item
  <2>3. ASSUME NEW k \in DOMAIN item.image PROVE item.at + k - 1 < pc'[s]
    <3>1. item.at + k - 1 < pc[s] /\ item.at + k - 1 \in Int
      BY <2>1, <2>3 DEF Good, Within, Item
    <3>2. QED
      BY <1>2, <1>3, <2>2, <3>1
  <2>4. QED
    BY <2>1, <2>3 DEF Good, Within, s, item
<1>6. (\A n \in DOMAIN items : Good(items[n], bytes, pc[SegmentOf(items[n].kernel)]))'
  BY <1>1, <1>5 DEF Good, Beyond, Swapped, Holds, Labelled, Within, SegmentOf
<1>7. QED
  BY <1>4, <1>6 DEF DataInvariant

LEMMA DataInvariantHolds ==
    DataSpec => []DataInvariant
<1>1. DataInit => DataInvariant
  <2>1. SUFFICES ASSUME DataInit PROVE DataInvariant
    OBVIOUS
  <2>2. /\ pc = [user |-> DataBot + Room, kernel |-> KDataBot]
        /\ top = [user |-> DataBot + 2 * Room, kernel |-> KDataBot + Room]
        /\ bytes = <<>> /\ items = <<>> /\ {big, in_kernel, auto_alignment} \subseteq BOOLEAN
    BY <2>1 DEF DataInit
  <2>3. DataBot \in Nat /\ KDataBot \in Nat /\ Room \in Nat /\ 2 * Room \in Nat
    BY SegmentAssumption
  <2>4. pc \in [{"user", "kernel"} -> Nat] /\ top \in [{"user", "kernel"} -> Nat] /\ pc["kernel"] = KDataBot
    BY <2>2, <2>3
  <2>5. DataTypeOK
    BY <2>2, <2>3, <2>4 DEF DataTypeOK
  <2>6. QED
    BY <2>2, <2>5 DEF DataInvariant
<1>2. DataInvariant /\ [DataNext]_dvars => DataInvariant'
  <2>1. SUFFICES ASSUME DataInvariant, [DataNext]_dvars PROVE DataInvariant'
    OBVIOUS
  <2>2. ASSUME NEW d \in Data, Datum(d[1], d[2]) PROVE DataInvariant'
    BY <2>1, <2>2, DatumStep
  <2>3. CASE Ascii([k \in 1 .. 3 |-> <<Len(items) + 1, k>>]) \/ Ascii(Terminated(Len(items) + 1))
    <3>1. Len(items) + 1 \in Nat
      BY <2>1 DEF DataInvariant, DataTypeOK
    <3> DEFINE n == Len(items) + 1
               chars == [k \in 1 .. 3 |-> <<n, k>>]
    <3>2. chars \in Seq(Byte) /\ Terminated(n) \in Seq(Byte)
      <4> HIDE DEF n
      <4>1. \A k \in 1 .. 3 : <<n, k>> \in Byte
        BY <3>1 DEF Byte, n
      <4>2. <<n, 1>> \in Byte /\ <<0, 0>> \in Byte
        BY <3>1 DEF Byte, n
      <4>3. QED
        BY <4>1, <4>2 DEF Terminated
    <3>3. QED
      BY <2>1, <2>3, <3>2, AsciiStep
  <2>4. ASSUME NEW size \in SpaceSizes, Space(size) PROVE DataInvariant'
    BY <2>1, <2>4, SpaceStep, SegmentAssumption
  <2>5. ASSUME NEW size \in CommSizes, Comm(size) \/ Lcomm(size) PROVE DataInvariant'
    BY <2>1, <2>5, SpaceStep, LcommStep, SegmentAssumption
  <2>6. ASSUME NEW n \in Alignments, Align(n) PROVE DataInvariant'
    BY <2>1, <2>6, AlignStep, SegmentAssumption
  <2>7. ASSUME NEW kernel \in BOOLEAN, Segment(kernel, pc[IF kernel THEN "kernel" ELSE "user"]) PROVE DataInvariant'
    <3>1. pc[IF kernel THEN "kernel" ELSE "user"] \in Nat
      BY <2>1 DEF DataInvariant, DataTypeOK
    <3>2. QED
      BY <2>1, <2>7, <3>1, SegmentStep
  <2>8. ASSUME NEW a \in DataPoints, Segment(FALSE, a) PROVE DataInvariant'
    BY <2>1, <2>8, SegmentStep, SegmentAssumption
  <2>9. CASE UNCHANGED dvars
    BY <2>1, <2>9 DEF dvars, DataInvariant, DataTypeOK, Good, Beyond, Swapped, Holds, Labelled, Within
  <2>10. QED
    BY <2>1, <2>2, <2>3, <2>4, <2>5, <2>6, <2>7, <2>8, <2>9 DEF DataNext
<1>3. QED
  BY <1>1, <1>2, PTL DEF DataSpec

(* Every datum reads back from its address, in whatever order directives    *)
(* come and however the segments grow, unless it began at the top of its    *)
(* segment or is a float that a big-endian build stores unaligned.          *)
THEOREM DataReadBackTheorem ==
    DataSpec => []DataReadBack
<1>1. DataInvariant => DataReadBack
  BY DEF DataInvariant, DataReadBack, Good, Holds, ReadsBack
<1>2. QED
  BY <1>1, DataInvariantHolds, PTL

(* A label is the address of the datum of its line, and a datum is aligned  *)
(* to its size unless .align 0 came before.                                 *)
THEOREM LabelsReachDataTheorem ==
    DataSpec => []LabelsReachData
<1>1. DataInvariant => LabelsReachData
  BY DEF DataInvariant, LabelsReachData, Good, Labelled
<1>2. QED
  BY <1>1, DataInvariantHolds, PTL

-----------------------------------------------------------------------------
(* The rows of the table whose words are branches, or are looked up as       *)
(* branches are.                                                           *)
PlainBranch(h) ==
    \/ 1024 <= h /\ h < 2048
    \/ 4096 <= h /\ h < 8192
    \/ 20480 <= h /\ h < 24576
CodeBranch(h) ==
    \/ 17664 <= h /\ h < 17696
    \/ 18688 <= h /\ h < 18720
ImmTypes == {"BC", "B1", "B2", "I1s", "I1t", "I2", "I2a", "FP_I2a"}

RowFacts(r) ==
    /\ r[3] \in Nat /\ r[4] \in Nat
    /\ r[2] = "BC" => r[4] = 0 /\ ((17664 <= r[3] /\ r[3] < 17668) \/ (18688 <= r[3] /\ r[3] < 18692))
    /\ r[2] = "B1" => r[4] = 0 /\ ((1024 <= r[3] /\ r[3] < 1056) \/ r[3] \in {6144, 7168, 22528, 23552})
    /\ r[2] = "B2" => r[4] = 0 /\ r[3] \in {4096, 5120, 20480, 21504}
    /\ PlainBranch(r[3]) \/ CodeBranch(r[3]) => r[2] \in ImmTypes
    /\ r[2] \in BranchTypes => r[1] \notin OnCode
    /\ r[1] = "bc1f" => r[2] = "BC" /\ r[3] = 17664
    /\ r[1] = "bc1t" => r[2] = "BC" /\ r[3] = 17665
    /\ r[1] = "bc2f" => r[2] = "BC" /\ r[3] = 18688

LEMMA TableFacts == \A r \in Rows : RowFacts(r)
<1>1. \A r \in RowsAToC : RowFacts(r)
  BY DEF RowsAToC, RowFacts, PlainBranch, CodeBranch, ImmTypes, BranchTypes, OnCode
<1>2. \A r \in RowsCToM : RowFacts(r)
  BY DEF RowsCToM, RowFacts, PlainBranch, CodeBranch, ImmTypes, BranchTypes, OnCode
<1>3. \A r \in RowsMToX : RowFacts(r)
  BY DEF RowsMToX, RowFacts, PlainBranch, CodeBranch, ImmTypes, BranchTypes, OnCode
<1>4. \A r \in Rev2Rows : RowFacts(r)
  BY DEF Rev2Rows, RowFacts, PlainBranch, CodeBranch, ImmTypes, BranchTypes, OnCode
<1> QED
  BY <1>1, <1>2, <1>3, <1>4 DEF Rows, Assembled

LEMMA RowOf ==
    ASSUME NEW name \in DOMAIN Template
    PROVE  \E r \in Rows : r[1] = name /\ Type[name] = r[2] /\ Template[name] = FieldsOf(r[3], r[4])
<1> DEFINE names == {row[1] : row \in Rows}
           r == CHOOSE r \in Rows : r[1] = name
<1>1. name \in names
  BY DEF Template
<1>2. \E row \in Rows : row[1] = name
  BY <1>1
<1>3. r \in Rows /\ r[1] = name
  BY <1>2
<1>4. Template[name] = FieldsOf(r[3], r[4]) /\ Type[name] = r[2]
  BY <1>1 DEF Template, Type
<1> QED
  BY <1>3, <1>4

(* What the word of a branch is without its operands.                       *)
BranchWord(type, w) ==
    /\ DOMAIN w = {"op", "rs", "rt", "rd", "sa", "fn"} /\ w.rd = 0 /\ w.sa = 0 /\ w.fn = 0
    /\ type = "BC" => w.op \in {17, 18} /\ w.rs = 8 /\ w.rt \in 0 .. 3
    /\ type = "B1" => w.rs = 0 /\ ((w.op = 1 /\ w.rt \in 0 .. 31) \/ (w.op \in {6, 7, 22, 23} /\ w.rt = 0))
    /\ type = "B2" => w.rs = 0 /\ w.rt = 0 /\ w.op \in {4, 5, 20, 21}
LikeBranch(op, rs) == op \in {1, 4, 5, 6, 7, 20, 21, 22, 23} \/ (op \in {17, 18} /\ rs = 8)

LEMMA BranchNames ==
    ASSUME NEW name \in DOMAIN Template
    PROVE  /\ Type[name] \in BranchTypes => BranchWord(Type[name], Template[name])
           /\ LikeBranch(Template[name].op, Template[name].rs) => Type[name] \in ImmTypes
<1>1. PICK r \in Rows : r[1] = name /\ Type[name] = r[2] /\ Template[name] = FieldsOf(r[3], r[4])
  BY RowOf
<1> DEFINE type == r[2]
           hi == r[3]
           lo == r[4]
           w == FieldsOf(hi, lo)
<1>2. /\ hi \in Nat /\ lo \in Nat
      /\ type = "BC" => lo = 0 /\ ((17664 <= hi /\ hi < 17668) \/ (18688 <= hi /\ hi < 18692))
      /\ type = "B1" => lo = 0 /\ ((1024 <= hi /\ hi < 1056) \/ hi \in {6144, 7168, 22528, 23552})
      /\ type = "B2" => lo = 0 /\ hi \in {4096, 5120, 20480, 21504}
      /\ PlainBranch(hi) \/ CodeBranch(hi) => type \in ImmTypes
  BY TableFacts DEF RowFacts
<1> HIDE DEF type, hi, lo
<1>3. /\ DOMAIN w = {"op", "rs", "rt", "rd", "sa", "fn"}
      /\ w.op = hi \div 1024 /\ w.rs = (hi \div 32) % 32 /\ w.rt = hi % 32
      /\ w.rd = lo \div 2048 /\ w.sa = (lo \div 64) % 32 /\ w.fn = lo % 64
  BY DEF FieldsOf
<1> HIDE DEF w
<1>4. ASSUME type \in BranchTypes PROVE BranchWord(type, w)
  <2>1. lo = 0
    BY <1>2, <1>4 DEF BranchTypes
  <2>2. w.rd = 0 /\ w.sa = 0 /\ w.fn = 0
    BY <1>3, <2>1
  <2>3. type = "BC" => w.op \in {17, 18} /\ w.rs = 8 /\ w.rt \in 0 .. 3
    BY <1>2, <1>3
  <2>4. type = "B1" => w.rs = 0 /\ ((w.op = 1 /\ w.rt \in 0 .. 31) \/ (w.op \in {6, 7, 22, 23} /\ w.rt = 0))
    BY <1>2, <1>3
  <2>5. type = "B2" => w.rs = 0 /\ w.rt = 0 /\ w.op \in {4, 5, 20, 21}
    BY <1>2, <1>3
  <2> QED
    BY <1>3, <2>2, <2>3, <2>4, <2>5 DEF BranchWord
<1>5. ASSUME LikeBranch(w.op, w.rs) PROVE PlainBranch(hi) \/ CodeBranch(hi)
  <2>1. CASE w.op \in {1, 4, 5, 6, 7, 20, 21, 22, 23}
    BY <1>2, <1>3, <2>1 DEF PlainBranch
  <2>2. CASE w.op \in {17, 18} /\ w.rs = 8
    BY <1>2, <1>3, <2>2 DEF CodeBranch
  <2> QED
    BY <1>5, <2>1, <2>2 DEF LikeBranch
<1> QED
  BY <1>1, <1>2, <1>4, <1>5 DEF type, w, hi, lo

(* The branches on a condition code that stand for the others of their      *)
(* coprocessor when a word is looked up.                                   *)
LEMMA CodeNames ==
    /\ {"bc1f", "bc1t", "bc2f"} \subseteq DOMAIN Template
    /\ \A name \in {"bc1f", "bc1t", "bc2f"} : Type[name] = "BC"
    /\ Template["bc1f"] = FieldsOf(17664, 0) /\ Template["bc1t"] = FieldsOf(17665, 0)
    /\ Template["bc2f"] = FieldsOf(18688, 0)
<1>1. \A name \in {"bc1f", "bc1t", "bc2f"} : \E r \in RowsAToC : r[1] = name
  BY DEF RowsAToC
<1>2. \A name \in {"bc1f", "bc1t", "bc2f"} : name \in DOMAIN Template
  BY <1>1 DEF Template, Rows, Assembled
<1>3. ASSUME NEW name \in {"bc1f", "bc1t", "bc2f"}
      PROVE  /\ Type[name] = "BC"
             /\ name = "bc1f" => Template[name] = FieldsOf(17664, 0)
             /\ name = "bc1t" => Template[name] = FieldsOf(17665, 0)
             /\ name = "bc2f" => Template[name] = FieldsOf(18688, 0)
  <2>1. PICK r \in Rows : r[1] = name /\ Type[name] = r[2] /\ Template[name] = FieldsOf(r[3], r[4])
    BY <1>2, RowOf
  <2>2. RowFacts(r)
    BY TableFacts
  <2>3. r[2] = "BC" /\ r[4] = 0
    BY <2>1, <2>2 DEF RowFacts
  <2>4. /\ name = "bc1f" => r[3] = 17664
        /\ name = "bc1t" => r[3] = 17665
        /\ name = "bc2f" => r[3] = 18688
    BY <2>1, <2>2 DEF RowFacts
  <2> QED
    BY <2>1, <2>3, <2>4
<1> QED
  BY <1>2, <1>3

LEMMA SmallPowers == /\ Pow2[0] = 1 /\ Pow2[1] = 2 /\ Pow2[2] = 4
                     /\ Pow2[3] = 8 /\ Pow2[4] = 16 /\ Pow2[5] = 32
<1>1. Pow2[0] = 1 /\ Pow2[0 + 1] = 2 * Pow2[0] /\ Pow2[1 + 1] = 2 * Pow2[1] /\ Pow2[2 + 1] = 2 * Pow2[2]
      /\ Pow2[3 + 1] = 2 * Pow2[3] /\ Pow2[4 + 1] = 2 * Pow2[4]
  BY Pow2Steps
<1> QED
  BY <1>1

(* Fields or-ed together, of which one is zero, or has only the two lowest   *)
(* bits and the other only higher ones.                                    *)
LEMMA OrZero ==
    ASSUME NEW x \in Int
    PROVE  OrField(0, x) = x
<1>1. \A n \in 0 .. 5 : BitOf(0, n) = 0
  BY SmallPowers DEF BitOf
<1>2. \A n \in 0 .. 5 : BitOf(x, n) \in Int /\ Pow2[n] \in Int
  BY SmallPowers DEF BitOf
<1>3. \A n \in 0 .. 5 : BitOf(0, n) * BitOf(x, n) * Pow2[n] = 0
  <2> SUFFICES ASSUME NEW n \in 0 .. 5 PROVE BitOf(0, n) * BitOf(x, n) * Pow2[n] = 0
    OBVIOUS
  <2> DEFINE a == BitOf(0, n)
             b == BitOf(x, n)
             p == Pow2[n]
  <2>1. a = 0 /\ b \in Int /\ p \in Int
    BY <1>1, <1>2
  <2> HIDE DEF a, b, p
  <2>2. a * b * p = 0
    BY <2>1
  <2> QED
    BY <2>2 DEF a, b, p
<1> QED
  BY <1>3 DEF OrField

LEMMA OrApart ==
    ASSUME NEW t \in 0 .. 3, NEW q \in {4 * c : c \in 0 .. 7}
    PROVE  OrField(t, q) = t + q
<1>1. BitOf(t, 2) = 0 /\ BitOf(t, 3) = 0 /\ BitOf(t, 4) = 0 /\ BitOf(t, 5) = 0
  BY SmallPowers DEF BitOf
<1>2. BitOf(q, 0) = 0 /\ BitOf(q, 1) = 0
  BY SmallPowers DEF BitOf
<1>3. \A n \in 0 .. 5 : BitOf(t, n) \in Int /\ BitOf(q, n) \in Int /\ Pow2[n] \in Int
  BY SmallPowers DEF BitOf
<1>4. \A n \in 0 .. 5 : BitOf(t, n) * BitOf(q, n) * Pow2[n] = 0
  <2> SUFFICES ASSUME NEW n \in 0 .. 5 PROVE BitOf(t, n) * BitOf(q, n) * Pow2[n] = 0
    OBVIOUS
  <2> DEFINE a == BitOf(t, n)
             b == BitOf(q, n)
             p == Pow2[n]
  <2>1. (a = 0 \/ b = 0) /\ a \in Int /\ b \in Int /\ p \in Int
    BY <1>1, <1>2, <1>3
  <2> HIDE DEF a, b, p
  <2>2. a * b * p = 0
    BY <2>1
  <2> QED
    BY <2>2 DEF a, b, p
<1> QED
  BY <1>4 DEF OrField

(* A branch as the assembler makes it.                                      *)
IsMadeBranch(i) ==
    /\ i.opcode \in DOMAIN Template /\ Type[i.opcode] \in BranchTypes
    /\ i.rs \in Int /\ i.rt \in Int /\ i.rd \in Int /\ i.sa \in Int /\ i.fn \in Int
    /\ Type[i.opcode] = "BC" => i.rt \in 0 .. 31

LEMMA BranchEncoded ==
    ASSUME NEW i, IsMadeBranch(i)
    PROVE  LET w == inst_encode(i)
               type == Type[i.opcode]
               T == Template[i.opcode]
           IN  /\ DOMAIN w = {"op", "rs", "rt", "rd", "sa", "fn"}
               /\ w.op = T.op /\ w.rd = i.rd /\ w.sa = i.sa /\ w.fn = i.fn
               /\ type = "BC" => w.rs = T.rs /\ w.rt \in Int /\ w.rt % 2 = T.rt % 2
               /\ type = "B1" => w.rt = T.rt
<1> DEFINE w == inst_encode(i)
           type == Type[i.opcode]
           T == Template[i.opcode]
           operand(f) == CASE f = "rt" /\ type \in {"BC", "FP_MOVC"} -> i.rt - (i.rt % 4)
                           [] f = "fn" /\ type = "FP_CMP" -> i.rs
                           [] OTHER -> i[f]
<1>1. BranchWord(type, T) /\ type \in BranchTypes
  BY BranchNames DEF IsMadeBranch
<1>2. w = [f \in DOMAIN T |-> IF f \in Slots[type] THEN OrField(T[f], operand(f)) ELSE T[f]]
  BY DEF inst_encode
<1>3. /\ type = "BC" => Slots[type] = {"rt", "rd", "sa", "fn"}
      /\ type = "B1" => Slots[type] = {"rs", "rd", "sa", "fn"}
      /\ type = "B2" => Slots[type] = {"rs", "rt", "rd", "sa", "fn"}
  BY DEF Slots, ImmFields
<1>4. operand("rd") = i.rd /\ operand("sa") = i.sa /\ operand("fn") = i.fn
  BY <1>1 DEF BranchTypes
<1>5. type = "BC" => operand("rt") = i.rt - (i.rt % 4)
  OBVIOUS
<1> HIDE DEF w, operand
<1>6. DOMAIN w = {"op", "rs", "rt", "rd", "sa", "fn"}
  BY <1>1, <1>2 DEF BranchWord
<1>7. w.op = T.op
  BY <1>1, <1>2, <1>3 DEF BranchWord, BranchTypes
<1>8. w.rd = i.rd /\ w.sa = i.sa /\ w.fn = i.fn
  <2>1. "rd" \in Slots[type] /\ "sa" \in Slots[type] /\ "fn" \in Slots[type]
    BY <1>1, <1>3 DEF BranchTypes
  <2>2. w.rd = OrField(T.rd, operand("rd")) /\ w.sa = OrField(T.sa, operand("sa")) /\ w.fn = OrField(T.fn, operand("fn"))
    BY <1>1, <1>2, <2>1 DEF BranchWord
  <2>3. T.rd = 0 /\ T.sa = 0 /\ T.fn = 0
    BY <1>1 DEF BranchWord
  <2> QED
    BY <1>4, <2>2, <2>3, OrZero DEF IsMadeBranch
<1>9. ASSUME type = "BC" PROVE w.rs = T.rs /\ w.rt \in Int /\ w.rt % 2 = T.rt % 2
  <2> DEFINE q == i.rt - (i.rt % 4)
  <2>1. i.rt \in 0 .. 31 /\ T.rt \in 0 .. 3
    BY <1>1, <1>9 DEF IsMadeBranch, BranchWord
  <2>2. q \in {4 * c : c \in 0 .. 7}
    <3>1. q = 4 * (i.rt \div 4) /\ i.rt \div 4 \in 0 .. 7
      BY <2>1
    <3> QED
      BY <3>1
  <2>3. q \in Int /\ (T.rt + q) % 2 = T.rt % 2
    BY <2>1
  <2> HIDE DEF q
  <2>4. w.rt = OrField(T.rt, q)
    BY <1>1, <1>2, <1>3, <1>5, <1>9 DEF BranchWord, q
  <2>5. w.rt = T.rt + q
    BY <2>1, <2>2, <2>4, OrApart
  <2>6. w.rs = T.rs
    BY <1>1, <1>2, <1>3, <1>9 DEF BranchWord
  <2> QED
    BY <2>1, <2>3, <2>5, <2>6
<1>10. type = "B1" => w.rt = T.rt
  BY <1>1, <1>2, <1>3 DEF BranchWord
<1> QED
  BY <1>6, <1>7, <1>8, <1>9, <1>10 DEF w

(* A row is found for the word of a branch, and each row that is found keeps *)
(* the immediate field.                                                    *)
LEMMA KeyParts ==
    ASSUME NEW w, DOMAIN w = {"op", "rs", "rt", "rd", "sa", "fn"}
    PROVE  LET key == Key(w)
           IN  /\ w.op = 1 => key = [f \in DOMAIN w |-> IF f \in {"op", "rt"} THEN w[f] ELSE 0]
               /\ w.op \in {4, 5, 6, 7, 20, 21, 22, 23} => key = [f \in DOMAIN w |-> IF f \in {"op"} THEN w[f] ELSE 0]
               /\ w.op = 17 /\ w.rs = 8 =>
                      key = [[f \in DOMAIN w |-> IF f \in {"op", "rs", "rt"} THEN w[f] ELSE 0] EXCEPT !.rt = @ % 2]
               /\ w.op = 18 => key = [f \in DOMAIN w |-> IF f \in {"op", "rs"} THEN w[f] ELSE 0]
<1>1. w.op = 1 => Key(w) = Only({"op", "rt"}, w)
  BY DEF Key
<1>2. w.op \in {4, 5, 6, 7, 20, 21, 22, 23} => Key(w) = Only({"op"}, w)
  BY DEF Key
<1>3. w.op = 17 /\ w.rs = 8 => Key(w) = [Only({"op", "rs", "rt"}, w) EXCEPT !.rt = @ % 2]
  <2>1. 8 \div 8 = 1
    OBVIOUS
  <2> QED
    BY <2>1 DEF Key
<1>4. w.op = 18 => Key(w) = Only({"op", "rs"}, w)
  BY DEF Key
<1> QED
  BY <1>1, <1>2, <1>3, <1>4 DEF Only

LEMMA BranchFound ==
    ASSUME NEW i, IsMadeBranch(i)
    PROVE  \E name \in DOMAIN Template : Type[name] # "FP_R4" /\ Template[name] = Key(inst_encode(i))
<1> DEFINE w == inst_encode(i)
           type == Type[i.opcode]
           T == Template[i.opcode]
           key == Key(w)
<1>1. /\ DOMAIN w = {"op", "rs", "rt", "rd", "sa", "fn"} /\ w.op = T.op
      /\ type = "BC" => w.rs = T.rs /\ w.rt \in Int /\ w.rt % 2 = T.rt % 2
      /\ type = "B1" => w.rt = T.rt
  BY BranchEncoded
<1>2. BranchWord(type, T) /\ type \in BranchTypes /\ i.opcode \in DOMAIN Template
  BY BranchNames DEF IsMadeBranch
<1>3. \A name \in DOMAIN Template : \E r \in Rows : Template[name] = FieldsOf(r[3], r[4])
  BY RowOf
<1>4. T = [f \in {"op", "rs", "rt", "rd", "sa", "fn"} |-> T[f]]
  BY <1>2, <1>3 DEF FieldsOf
<1> HIDE DEF w, type, T
<1>5. CASE type = "B1" /\ T.op = 1
  <2>1. key = [f \in DOMAIN w |-> IF f \in {"op", "rt"} THEN w[f] ELSE 0]
    BY <1>1, <1>5, KeyParts
  <2>2. T = key
    BY <1>1, <1>2, <1>4, <1>5, <2>1 DEF BranchWord
  <2> QED
    BY <1>2, <1>5, <2>2 DEF T, type, w
<1>6. CASE type = "B2" \/ (type = "B1" /\ T.op # 1)
  <2>1. T.op \in {4, 5, 6, 7, 20, 21, 22, 23} /\ T.rs = 0 /\ T.rt = 0 /\ T.rd = 0 /\ T.sa = 0 /\ T.fn = 0
    BY <1>2, <1>6 DEF BranchWord
  <2>2. key = [f \in DOMAIN w |-> IF f \in {"op"} THEN w[f] ELSE 0]
    BY <1>1, <2>1, KeyParts
  <2>3. T = key
    BY <1>1, <1>4, <2>1, <2>2
  <2> QED
    BY <1>2, <1>6, <2>3 DEF T, type, w
<1>7. CASE type = "BC"
  <2>1. T.op \in {17, 18} /\ T.rs = 8 /\ T.rt \in 0 .. 3 /\ w.rs = 8
    BY <1>1, <1>2, <1>7 DEF BranchWord
  <2>2. CASE T.op = 17
    <3>1. key = [[f \in DOMAIN w |-> IF f \in {"op", "rs", "rt"} THEN w[f] ELSE 0] EXCEPT !.rt = @ % 2]
      BY <1>1, <2>1, <2>2, KeyParts
    <3>2. key = [op |-> 17, rs |-> 8, rt |-> w.rt % 2, rd |-> 0, sa |-> 0, fn |-> 0]
      BY <1>1, <2>1, <2>2, <3>1
    <3>3. w.rt % 2 = 0 \/ w.rt % 2 = 1
      BY <1>1, <1>7
    <3>4. /\ FieldsOf(17664, 0) = [op |-> 17, rs |-> 8, rt |-> 0, rd |-> 0, sa |-> 0, fn |-> 0]
          /\ FieldsOf(17665, 0) = [op |-> 17, rs |-> 8, rt |-> 1, rd |-> 0, sa |-> 0, fn |-> 0]
      BY DEF FieldsOf
    <3>5. key = Template["bc1f"] \/ key = Template["bc1t"]
      BY <3>2, <3>3, <3>4, CodeNames
    <3> QED
      BY <3>5, CodeNames DEF w
  <2>3. CASE T.op = 18
    <3>1. key = [f \in DOMAIN w |-> IF f \in {"op", "rs"} THEN w[f] ELSE 0]
      BY <1>1, <2>3, KeyParts
    <3>2. key = [op |-> 18, rs |-> 8, rt |-> 0, rd |-> 0, sa |-> 0, fn |-> 0]
      BY <1>1, <2>1, <2>3, <3>1
    <3>3. FieldsOf(18688, 0) = [op |-> 18, rs |-> 8, rt |-> 0, rd |-> 0, sa |-> 0, fn |-> 0]
      BY DEF FieldsOf
    <3>4. key = Template["bc2f"]
      BY <3>2, <3>3, CodeNames
    <3> QED
      BY <3>4, CodeNames DEF w
  <2> QED
    BY <2>1, <2>2, <2>3
<1> QED
  BY <1>2, <1>5, <1>6, <1>7 DEF BranchTypes

LEMMA ImmSlots == \A type \in ImmTypes : ImmFields \subseteq Slots[type] /\ type \notin FloatForms /\ type # "J"
BY DEF ImmTypes, ImmFields, Slots, FloatForms

LEMMA BranchDecoded ==
    ASSUME NEW i, IsMadeBranch(i), NEW j \in inst_decode(inst_encode(i))
    PROVE  j.rd = i.rd /\ j.sa = i.sa /\ j.fn = i.fn
<1> DEFINE w == inst_encode(i)
           type == Type[i.opcode]
           T == Template[i.opcode]
           found == {op \in DOMAIN Template : Type[op] # "FP_R4" /\ Template[op] = Key(w)}
<1>1. /\ DOMAIN w = {"op", "rs", "rt", "rd", "sa", "fn"} /\ w.op = T.op
      /\ w.rd = i.rd /\ w.sa = i.sa /\ w.fn = i.fn
      /\ type = "BC" => w.rs = T.rs
  BY BranchEncoded
<1>2. BranchWord(type, T) /\ type \in BranchTypes
  BY BranchNames DEF IsMadeBranch
<1>3. found # {}
  BY BranchFound
<1>4. PICK op \in DOMAIN Template : Template[op] = Key(w) /\ j = Decoded(op, w)
  BY <1>3 DEF inst_decode
<1> HIDE DEF w, type, T, found
<1>5. LikeBranch(Key(w).op, Key(w).rs)
  <2>1. CASE w.op = 1
    <3>1. Key(w) = [f \in DOMAIN w |-> IF f \in {"op", "rt"} THEN w[f] ELSE 0]
      BY <1>1, <2>1, KeyParts
    <3> QED
      BY <1>1, <2>1, <3>1 DEF LikeBranch
  <2>2. CASE w.op \in {4, 5, 6, 7, 20, 21, 22, 23}
    <3>1. Key(w) = [f \in DOMAIN w |-> IF f \in {"op"} THEN w[f] ELSE 0]
      BY <1>1, <2>2, KeyParts
    <3> QED
      BY <1>1, <2>2, <3>1 DEF LikeBranch
  <2>3. CASE w.op = 17 /\ w.rs = 8
    <3>1. Key(w) = [[f \in DOMAIN w |-> IF f \in {"op", "rs", "rt"} THEN w[f] ELSE 0] EXCEPT !.rt = @ % 2]
      BY <1>1, <2>3, KeyParts
    <3> QED
      BY <1>1, <2>3, <3>1 DEF LikeBranch
  <2>4. CASE w.op = 18 /\ w.rs = 8
    <3>1. Key(w) = [f \in DOMAIN w |-> IF f \in {"op", "rs"} THEN w[f] ELSE 0]
      BY <1>1, <2>4, KeyParts
    <3> QED
      BY <1>1, <2>4, <3>1 DEF LikeBranch
  <2> QED
    BY <1>1, <1>2, <2>1, <2>2, <2>3, <2>4 DEF BranchWord, BranchTypes
<1>6. Type[op] \in ImmTypes
  BY <1>4, <1>5, BranchNames
<1>7. ImmFields \subseteq Slots[Type[op]] /\ Type[op] \notin FloatForms /\ Type[op] # "J"
  BY <1>6, ImmSlots
<1> DEFINE fields == IF Type[op] = "BC" THEN {"rs"} \cup Slots[Type[op]] ELSE Slots[Type[op]]
<1>8. j = Operated(op, Only(fields, w)) /\ ImmFields \subseteq fields
  BY <1>4, <1>7 DEF Decoded
<1> HIDE DEF fields
<1>9. \A f \in ImmFields : j[f] = Only(fields, w)[f]
  BY <1>8 DEF Operated, Invalid, ImmFields
<1>10. \A f \in ImmFields : Only(fields, w)[f] = w[f]
  BY <1>1, <1>8 DEF Only, ImmFields
<1> QED
  BY <1>1, <1>9, <1>10 DEF ImmFields

(* The immediate field of a branch leads back to where it came from.        *)
LEMMA FieldLeads ==
    ASSUME NEW d \in Int, NEW delayed \in BOOLEAN, -32768 <= d, d <= 32767, d % 4 = 0, NEW i,
           LET field == SET_IMM(BranchField(d, delayed)) IN i.rd = field.rd /\ i.sa = field.sa /\ i.fn = field.fn
    PROVE  IDISP(i) + (IF delayed THEN 4 ELSE 0) = d
<1> DEFINE one == IF delayed THEN 1 ELSE 0
           offset == d \div 4 - one
           field == BranchField(d, delayed)
<1>1. one \in {0, 1} /\ offset \in Int /\ -8193 <= offset /\ offset < 8192 /\ d = 4 * (offset + one)
  OBVIOUS
<1>2. SIGN_EX(d) = d
  BY DEF SIGN_EX
<1>3. field = offset % 65536
  BY <1>2 DEF BranchField
<1>4. /\ field \in Nat /\ field < 65536
      /\ (IF field >= 32768 THEN field - 65536 ELSE field) = offset
  <2> HIDE DEF offset, field, one
  <2> QED
    BY <1>1, <1>3
<1>5. i.rd = field \div 2048 /\ i.sa = (field \div 64) % 32 /\ i.fn = field % 64
  BY DEF SET_IMM
<1> HIDE DEF field
<1>6. i.rd * 2048 + i.sa * 64 + i.fn = field
  BY <1>4, <1>5
<1>7. IOFFSET(i) = offset
  <2> DEFINE sum == i.rd * 2048 + i.sa * 64 + i.fn
  <2>1. IOFFSET(i) = IF sum >= 32768 THEN sum - 65536 ELSE sum
    BY DEF IOFFSET
  <2>2. sum = field
    BY <1>6
  <2> HIDE DEF sum, offset
  <2> QED
    BY <1>4, <2>1, <2>2
<1>8. IDISP(i) = SIGN_EX(4 * offset)
  BY <1>7 DEF IDISP
<1> HIDE DEF offset
<1>9. SIGN_EX(4 * offset) = 4 * offset
  <2> DEFINE x == 4 * offset
  <2>1. x \in Int /\ -32772 <= x /\ x < 32768
    BY <1>1
  <2> HIDE DEF x
  <2>2. SIGN_EX(x) = x
    BY <2>1 DEF SIGN_EX
  <2> QED
    BY <2>2 DEF x
<1> QED
  BY <1>1, <1>8, <1>9

LEMMA BranchMade ==
    ASSUME NEW op \in DOMAIN Template, NEW d \in Int, NEW delayed \in BOOLEAN, NEW i \in Instruction(op, d, delayed)
    PROVE  /\ i.opcode = op
           /\ Type[op] = "BC" =>
                  \E cc \in 0 .. 7 :
                      i.rt = cc_to_rt(cc, Flag(opcode_is_nullified_branch(op)), Flag(opcode_is_true_branch(op)))
           /\ Type[op] \in BranchTypes =>
                  /\ IsMadeBranch(i)
                  /\ LET field == SET_IMM(BranchField(d, delayed)) IN i.rd = field.rd /\ i.sa = field.sa /\ i.fn = field.fn
<1> DEFINE field == SET_IMM(BranchField(d, delayed))
           all == [opcode : {op}, rs : Given(op, "rs"), rt : Given(op, "rt"), rd : Given(op, "rd"),
                   sa : Given(op, "sa"), fn : Given(op, "fn")]
           type == Type[op]
<1> HIDE DEF field
<1>1. CASE type \notin BranchTypes
  <2>1. i \in all
    BY <1>1 DEF Instruction
  <2> QED
    BY <1>1, <2>1 DEF BranchTypes
<1>2. CASE type \in BranchTypes
  <2>1. PICK made0 \in all : i = [made0 EXCEPT !.rd = field.rd, !.sa = field.sa, !.fn = field.fn]
    BY <1>2 DEF Instruction, field
  <2>2. /\ i.opcode = op /\ i.rs \in Given(op, "rs") /\ i.rt \in Given(op, "rt")
        /\ i.rd = field.rd /\ i.sa = field.sa /\ i.fn = field.fn
    BY <2>1
  <2>3. op \notin OnCode
    <3>1. PICK r \in Rows : r[1] = op /\ Type[op] = r[2]
      BY RowOf
    <3> QED
      BY <1>2, <3>1, TableFacts DEF RowFacts
  <2>4. i.rs \in Int
    <3>1. Given(op, "rs") = Numbers \/ Given(op, "rs") = {0}
      BY <1>2 DEF Given, BranchTypes
    <3> QED
      BY <2>2, <3>1, OperandsAssumption
  <2>5. /\ i.rt \in Int /\ (type = "BC" => i.rt \in 0 .. 31)
        /\ type = "BC" =>
               \E cc \in 0 .. 7 :
                   i.rt = cc_to_rt(cc, Flag(opcode_is_nullified_branch(op)), Flag(opcode_is_true_branch(op)))
    <3>1. CASE type = "BC"
      <4> DEFINE nd == Flag(opcode_is_nullified_branch(op))
                 tf == Flag(opcode_is_true_branch(op))
      <4>1. nd \in {0, 1} /\ tf \in {0, 1}
        BY DEF Flag
      <4>2. Given(op, "rt") = {cc_to_rt(cc, nd, tf) : cc \in CodesNamed}
        BY <2>3, <3>1 DEF Given
      <4> HIDE DEF nd, tf
      <4>3. PICK cc \in CodesNamed : i.rt = cc_to_rt(cc, nd, tf)
        BY <2>2, <4>2
      <4>4. cc \in 0 .. 7
        BY OperandsAssumption
      <4>5. i.rt \in Int /\ i.rt \in 0 .. 31
        BY <4>1, <4>3, <4>4 DEF cc_to_rt
      <4> QED
        BY <4>3, <4>4, <4>5 DEF nd, tf
    <3>2. CASE type # "BC"
      <4>1. Given(op, "rt") = Numbers \/ Given(op, "rt") = {0}
        BY <1>2, <2>3, <3>2 DEF Given, BranchTypes
      <4>2. i.rt \in Numbers \/ i.rt = 0
        BY <2>2, <4>1
      <4>3. CASE i.rt \in Numbers
        BY <3>2, <4>3, OperandsAssumption
      <4>4. CASE i.rt = 0
        BY <3>2, <4>4
      <4> QED
        BY <4>2, <4>3, <4>4
    <3> QED
      BY <3>1, <3>2
  <2>6. field.rd \in Int /\ field.sa \in Int /\ field.fn \in Int
    <3> DEFINE f == BranchField(d, delayed)
               m == SIGN_EX(d) \div 4 - (IF delayed THEN 1 ELSE 0)
    <3>1. SIGN_EX(d) \in Int
      BY DEF SIGN_EX
    <3>2. f = m % 65536 /\ m \in Int
      BY <3>1 DEF BranchField
    <3> HIDE DEF m
    <3>3. f \in Int
      BY <3>2
    <3> HIDE DEF f
    <3>4. SET_IMM(f).rd \in Int /\ SET_IMM(f).sa \in Int /\ SET_IMM(f).fn \in Int
      BY <3>3 DEF SET_IMM
    <3> QED
      BY <3>4 DEF f, field
  <2> QED
    BY <1>2, <2>2, <2>4, <2>5, <2>6 DEF IsMadeBranch, field
<1> QED
  BY <1>1, <1>2

(* The instruction in the slot has the immediate field the branch was given. *)
CodecInvariant ==
    /\ made.opcode \in DOMAIN Template /\ dist \in Distances \cup {0} /\ slots \in BOOLEAN
    /\ slot.encoding = inst_encode(made)
    /\ Type[made.opcode] \in BranchTypes =>
           /\ IsMadeBranch(made)
           /\ LET field == SET_IMM(BranchField(dist, slots))
              IN  \A i \in {made, slot.inst} : i.rd = field.rd /\ i.sa = field.sa /\ i.fn = field.fn

(* BranchReachesLabel for every distance between two instructions, and for   *)
(* any registers and condition codes: a resolved branch that is within      *)
(* 32 KB of its label leads there, and so does its copy.                   *)
THEOREM BranchTheorem ==
    CodecSpec => []BranchReachesLabel
<1>1. CodecInit => CodecInvariant
  <2> SUFFICES ASSUME CodecInit PROVE CodecInvariant
    OBVIOUS
  <2>1. PICK row \in Assembled, d \in Distances \cup {0}, delayed \in BOOLEAN :
            dist = d /\ slots = delayed /\ made \in Instruction(row[1], d, delayed)
    BY DEF CodecInit
  <2>2. row[1] \in DOMAIN Template
    BY DEF Template, Rows
  <2>3. d \in Int /\ dist = d /\ slots = delayed
    BY <2>1, OperandsAssumption
  <2>4. slot.inst = made /\ slot.encoding = inst_encode(made)
    BY DEF CodecInit
  <2> QED
    BY <2>1, <2>2, <2>3, <2>4, BranchMade DEF CodecInvariant
<1>2. CodecInvariant /\ [CodecNext]_cvars => CodecInvariant'
  <2> SUFFICES ASSUME CodecInvariant, [CodecNext]_cvars PROVE CodecInvariant'
    OBVIOUS
  <2>1. CASE CopyCode
    <3>1. UNCHANGED <<made, dist, slots>>
      BY <2>1 DEF CopyCode
    <3>2. PICK i \in inst_decode(slot.encoding) : slot' = [copied |-> TRUE, inst |-> i, encoding |-> slot.encoding]
      BY <2>1 DEF CopyCode
    <3>3. slot'.inst = i /\ slot'.encoding = inst_encode(made)
      BY <3>2 DEF CodecInvariant
    <3>4. Type[made.opcode] \in BranchTypes => i.rd = made.rd /\ i.sa = made.sa /\ i.fn = made.fn
      BY <3>2, BranchDecoded DEF CodecInvariant
    <3>5. CodecInvariant => CodecInvariant'
      BY <3>1, <3>3, <3>4 DEF CodecInvariant, IsMadeBranch
    <3> QED
      BY <3>5
  <2>2. CASE UNCHANGED cvars
    BY <2>2 DEF cvars, CodecInvariant, IsMadeBranch, inst_encode
  <2> QED
    BY <2>1, <2>2 DEF CodecNext
<1>3. CodecInvariant => BranchReachesLabel
  <2> SUFFICES ASSUME CodecInvariant, Type[made.opcode] \in BranchTypes, -32768 <= dist, dist <= 32767
               PROVE  IDISP(slot.inst) + (IF slots THEN 4 ELSE 0) = dist
    BY DEF BranchReachesLabel
  <2>1. dist \in Int /\ dist % 4 = 0 /\ slots \in BOOLEAN
    <3>1. (dist \in Distances \/ dist = 0) /\ slots \in BOOLEAN
      BY DEF CodecInvariant
    <3>2. dist \in Distances => dist \in Int /\ dist % 4 = 0
      BY OperandsAssumption
    <3>3. dist = 0 => dist \in Int /\ dist % 4 = 0
      OBVIOUS
    <3> QED
      BY <3>1, <3>2, <3>3
  <2>2. LET field == SET_IMM(BranchField(dist, slots))
        IN  slot.inst.rd = field.rd /\ slot.inst.sa = field.sa /\ slot.inst.fn = field.fn
    BY DEF CodecInvariant
  <2> QED
    BY <2>1, <2>2, FieldLeads
<1> QED
  BY <1>1, <1>2, <1>3, PTL DEF CodecSpec

(* The opcodes in the hand-written lists are those of their formats, and    *)
(* have the bits that tell them apart.                                     *)
ClassFacts(r) ==
    /\ opcode_is_branch(r[1]) <=> r[2] \in BranchTypes
    /\ opcode_is_jump(r[1]) <=> (r[2] = "J" /\ r[1] # "cop2")
    /\ opcode_is_load_store(r[1]) <=> r[2] \in {"I2a", "FP_I2a"}
BitFacts(r) ==
    /\ r[2] = "B1" /\ opcode_is_nullified_branch(r[1]) => r[3] \in {1026, 1027, 1042, 1043, 22528, 23552}
    /\ r[2] = "B1" /\ ~opcode_is_nullified_branch(r[1]) => r[3] \in {1024, 1025, 1040, 1041, 6144, 7168}
    /\ r[2] = "B2" /\ opcode_is_nullified_branch(r[1]) => r[3] \in {20480, 21504}
    /\ r[2] = "B2" /\ ~opcode_is_nullified_branch(r[1]) => r[3] \in {4096, 5120}
    /\ r[2] = "BC" /\ ~opcode_is_nullified_branch(r[1]) /\ ~opcode_is_true_branch(r[1]) => r[3] \in {17664, 18688}
    /\ r[2] = "BC" /\ ~opcode_is_nullified_branch(r[1]) /\ opcode_is_true_branch(r[1]) => r[3] \in {17665, 18689}
    /\ r[2] = "BC" /\ opcode_is_nullified_branch(r[1]) /\ ~opcode_is_true_branch(r[1]) => r[3] \in {17666, 18690}
    /\ r[2] = "BC" /\ opcode_is_nullified_branch(r[1]) /\ opcode_is_true_branch(r[1]) => r[3] \in {17667, 18691}

LEMMA TableClasses == \A r \in Rows : ClassFacts(r)
<1>1. \A r \in RowsAToC : ClassFacts(r)
  BY SMTT(30) DEF RowsAToC, ClassFacts, opcode_is_branch, opcode_is_jump, opcode_is_load_store, BranchTypes
<1>2. \A r \in RowsCToM : ClassFacts(r)
  BY SMTT(30) DEF RowsCToM, ClassFacts, opcode_is_branch, opcode_is_jump, opcode_is_load_store, BranchTypes
<1>3. \A r \in RowsMToX : ClassFacts(r)
  BY SMTT(30) DEF RowsMToX, ClassFacts, opcode_is_branch, opcode_is_jump, opcode_is_load_store, BranchTypes
<1>4. \A r \in Rev2Rows : ClassFacts(r)
  BY SMTT(30) DEF Rev2Rows, ClassFacts, opcode_is_branch, opcode_is_jump, opcode_is_load_store, BranchTypes
<1> QED
  BY <1>1, <1>2, <1>3, <1>4 DEF Rows, Assembled

LEMMA TableBits == \A r \in Rows : BitFacts(r)
<1>1. \A r \in RowsAToC : BitFacts(r)
  BY SMTT(30) DEF RowsAToC, BitFacts, opcode_is_nullified_branch, opcode_is_true_branch
<1>2. \A r \in RowsCToM : BitFacts(r)
  BY SMTT(30) DEF RowsCToM, BitFacts, opcode_is_nullified_branch, opcode_is_true_branch
<1>3. \A r \in RowsMToX : BitFacts(r)
  BY SMTT(30) DEF RowsMToX, BitFacts, opcode_is_nullified_branch, opcode_is_true_branch
<1>4. \A r \in Rev2Rows : BitFacts(r)
  BY SMTT(30) DEF Rev2Rows, BitFacts, opcode_is_nullified_branch, opcode_is_true_branch
<1> QED
  BY <1>1, <1>2, <1>3, <1>4 DEF Rows, Assembled

LEMMA ClassesOf ==
    ASSUME NEW name \in DOMAIN Template
    PROVE  LET type == Type[name]
               w == Template[name]
           IN  /\ opcode_is_branch(name) <=> type \in BranchTypes
               /\ opcode_is_jump(name) <=> (type = "J" /\ name # "cop2")
               /\ opcode_is_load_store(name) <=> type \in {"I2a", "FP_I2a"}
               /\ opcode_is_branch(name) /\ type # "BC" =>
                      (opcode_is_nullified_branch(name) <=>
                          IF type = "B1" /\ w.op = 1 THEN w.rt % 4 >= 2 ELSE w.op >= 16)
               /\ type = "BC" =>
                      w.rt = 2 * Flag(opcode_is_nullified_branch(name)) + Flag(opcode_is_true_branch(name))
<1>1. PICK r \in Rows : r[1] = name /\ Type[name] = r[2] /\ Template[name] = FieldsOf(r[3], r[4])
  BY RowOf
<1> DEFINE type == r[2]
           hi == r[3]
           w == Template[name]
           nd == opcode_is_nullified_branch(name)
           tf == opcode_is_true_branch(name)
<1>2. ClassFacts(r) /\ BitFacts(r)
  BY TableClasses, TableBits
<1>3. /\ opcode_is_branch(name) <=> type \in BranchTypes
      /\ opcode_is_jump(name) <=> (type = "J" /\ name # "cop2")
      /\ opcode_is_load_store(name) <=> type \in {"I2a", "FP_I2a"}
  BY <1>1, <1>2 DEF ClassFacts
<1>4. w.op = hi \div 1024 /\ w.rt = hi % 32
  BY <1>1 DEF FieldsOf
<1>5. /\ type = "B1" /\ nd => hi \in {1026, 1027, 1042, 1043, 22528, 23552}
      /\ type = "B1" /\ ~nd => hi \in {1024, 1025, 1040, 1041, 6144, 7168}
      /\ type = "B2" /\ nd => hi \in {20480, 21504}
      /\ type = "B2" /\ ~nd => hi \in {4096, 5120}
      /\ type = "BC" /\ ~nd /\ ~tf => hi \in {17664, 18688}
      /\ type = "BC" /\ ~nd /\ tf => hi \in {17665, 18689}
      /\ type = "BC" /\ nd /\ ~tf => hi \in {17666, 18690}
      /\ type = "BC" /\ nd /\ tf => hi \in {17667, 18691}
  BY <1>1, <1>2 DEF BitFacts
<1> HIDE DEF type, hi, w, nd, tf
<1>6. ASSUME type \in {"B1", "B2"}
      PROVE  nd <=> IF type = "B1" /\ w.op = 1 THEN w.rt % 4 >= 2 ELSE w.op >= 16
  <2>1. CASE type = "B1" /\ nd
    <3>1. hi \in {1026, 1027, 1042, 1043, 22528, 23552}
      BY <1>5, <2>1
    <3>2. (w.op = 1 /\ w.rt % 4 >= 2) \/ (w.op # 1 /\ w.op >= 16)
      BY <1>4, <3>1
    <3> QED
      BY <2>1, <3>2
  <2>2. CASE type = "B1" /\ ~nd
    <3>1. hi \in {1024, 1025, 1040, 1041, 6144, 7168}
      BY <1>5, <2>2
    <3>2. (w.op = 1 /\ ~(w.rt % 4 >= 2)) \/ (w.op # 1 /\ ~(w.op >= 16))
      BY <1>4, <3>1
    <3> QED
      BY <2>2, <3>2
  <2>3. CASE type = "B2" /\ nd
    <3>1. hi \in {20480, 21504}
      BY <1>5, <2>3
    <3>2. w.op >= 16
      BY <1>4, <3>1
    <3> QED
      BY <2>3, <3>2
  <2>4. CASE type = "B2" /\ ~nd
    <3>1. hi \in {4096, 5120}
      BY <1>5, <2>4
    <3>2. ~(w.op >= 16)
      BY <1>4, <3>1
    <3> QED
      BY <2>4, <3>2
  <2> QED
    BY <1>6, <2>1, <2>2, <2>3, <2>4
<1>7. type = "BC" => w.rt = 2 * Flag(nd) + Flag(tf)
  BY <1>4, <1>5 DEF Flag
<1>8. opcode_is_branch(name) /\ type # "BC" => type \in {"B1", "B2"}
  BY <1>3 DEF BranchTypes
<1> QED
  BY <1>1, <1>3, <1>6, <1>7, <1>8 DEF type, w, nd, tf

(* ClassesMatchFormats for any registers and condition codes: the lists of   *)
(* opcodes that decide how a label is resolved agree with the table, the    *)
(* bits of its words, and the bits the assembler adds to them.             *)
THEOREM ClassesTheorem ==
    CodecSpec => []ClassesMatchFormats
<1> DEFINE op == made.opcode
           Inv == /\ op \in DOMAIN Template
                  /\ Type[op] = "BC" =>
                         \E cc \in 0 .. 7 :
                             made.rt = cc_to_rt(cc, Flag(opcode_is_nullified_branch(op)), Flag(opcode_is_true_branch(op)))
<1>1. CodecInit => Inv
  <2> SUFFICES ASSUME CodecInit PROVE Inv
    OBVIOUS
  <2>1. PICK row \in Assembled, d \in Distances \cup {0}, delayed \in BOOLEAN : made \in Instruction(row[1], d, delayed)
    BY DEF CodecInit
  <2>2. row[1] \in DOMAIN Template
    BY DEF Template, Rows
  <2>3. d \in Int
    BY <2>1, OperandsAssumption
  <2> QED
    BY <2>1, <2>2, <2>3, BranchMade
<1>2. Inv /\ [CodecNext]_cvars => Inv'
  BY DEF CodecNext, CopyCode, cvars
<1>3. Inv => ClassesMatchFormats
  <2> SUFFICES ASSUME Inv PROVE ClassesMatchFormats
    OBVIOUS
  <2> DEFINE nd == Flag(opcode_is_nullified_branch(op))
             tf == Flag(opcode_is_true_branch(op))
  <2>1. Type[op] = "BC" => Template[op].rt = 2 * nd + tf
    BY ClassesOf
  <2>2. Type[op] = "BC" => \E cc \in 0 .. 7 : made.rt = 4 * cc + 2 * nd + tf
    BY DEF cc_to_rt
  <2>3. nd \in {0, 1} /\ tf \in {0, 1}
    BY DEF Flag
  <2> HIDE DEF nd, tf
  <2>4. Type[op] = "BC" => made.rt % 4 = 2 * nd + tf
    BY <2>2, <2>3
  <2>5. opcode_is_nullified_branch(op) => opcode_is_branch(op)
    BY DEF opcode_is_nullified_branch, opcode_is_branch
  <2> QED
    BY <2>1, <2>4, <2>5, ClassesOf DEF ClassesMatchFormats
<1> QED
  BY <1>1, <1>2, <1>3, PTL DEF CodecSpec

(* The rows whose instructions keep their operands in a copy: no two of them *)
(* have the same word, and their words have no bits where the operands go. *)
Kept(r) == r[2] \notin FloatForms /\ r[1] \notin {"movt", "break", "cop2", "ssnop"}
SameWord(r, q) == Kept(r) /\ r[3] = q[3] /\ r[4] = q[4] => r[1] = q[1]

LEMMA WordsDiffer == \A r \in Assembled, q \in Rows : SameWord(r, q)
<1>1. \A r \in RowsAToC, q \in RowsAToC : SameWord(r, q)
  BY SMTT(30) DEF RowsAToC, SameWord, Kept, FloatForms
<1>2. \A r \in RowsAToC, q \in RowsCToM : SameWord(r, q)
  BY SMTT(30) DEF RowsAToC, RowsCToM, SameWord, Kept, FloatForms
<1>3. \A r \in RowsAToC, q \in RowsMToX : SameWord(r, q)
  BY SMTT(30) DEF RowsAToC, RowsMToX, SameWord, Kept, FloatForms
<1>4. \A r \in RowsAToC, q \in Rev2Rows : SameWord(r, q)
  BY SMTT(30) DEF RowsAToC, Rev2Rows, SameWord, Kept, FloatForms
<1>5. \A r \in RowsCToM, q \in RowsAToC : SameWord(r, q)
  BY SMTT(30) DEF RowsCToM, RowsAToC, SameWord, Kept, FloatForms
<1>6. \A r \in RowsCToM, q \in RowsCToM : SameWord(r, q)
  BY SMTT(30) DEF RowsCToM, SameWord, Kept, FloatForms
<1>7. \A r \in RowsCToM, q \in RowsMToX : SameWord(r, q)
  BY SMTT(30) DEF RowsCToM, RowsMToX, SameWord, Kept, FloatForms
<1>8. \A r \in RowsCToM, q \in Rev2Rows : SameWord(r, q)
  BY SMTT(30) DEF RowsCToM, Rev2Rows, SameWord, Kept, FloatForms
<1>9. \A r \in RowsMToX, q \in RowsAToC : SameWord(r, q)
  BY SMTT(30) DEF RowsMToX, RowsAToC, SameWord, Kept, FloatForms
<1>10. \A r \in RowsMToX, q \in RowsCToM : SameWord(r, q)
  BY SMTT(30) DEF RowsMToX, RowsCToM, SameWord, Kept, FloatForms
<1>11. \A r \in RowsMToX, q \in RowsMToX : SameWord(r, q)
  BY SMTT(30) DEF RowsMToX, SameWord, Kept, FloatForms
<1>12. \A r \in RowsMToX, q \in Rev2Rows : SameWord(r, q)
  BY SMTT(30) DEF RowsMToX, Rev2Rows, SameWord, Kept, FloatForms
<1> QED
  BY <1>1, <1>2, <1>3, <1>4, <1>5, <1>6, <1>7, <1>8, <1>9, <1>10, <1>11, <1>12 DEF Rows, Assembled

LEMMA NamesDiffer == \A r \in Assembled, q \in Rev2Rows : r[1] # q[1]
<1>1. \A r \in RowsAToC, q \in Rev2Rows : r[1] # q[1]
  BY SMTT(30) DEF RowsAToC, Rev2Rows
<1>2. \A r \in RowsCToM, q \in Rev2Rows : r[1] # q[1]
  BY SMTT(30) DEF RowsCToM, Rev2Rows
<1>3. \A r \in RowsMToX, q \in Rev2Rows : r[1] # q[1]
  BY SMTT(30) DEF RowsMToX, Rev2Rows
<1> QED
  BY <1>1, <1>2, <1>3 DEF Assembled

FunctionForms == {"MOVC", "NOARG", "R1d", "R1s", "R2ds", "R2sh", "R2st", "R3", "R3sh"}
WideForms == {"B1", "B2", "FP_I2a", "I1t", "I2", "I2a", "J"}
Alone == {2048, 3072, 4096, 5120, 6144, 7168, 8192, 9216, 10240, 11264, 12288, 13312, 14336, 15360, 20480, 21504, 22528,
          23552, 32768, 33792, 34816, 35840, 36864, 37888, 38912, 40960, 41984, 43008, 44032, 47104, 48128, 49152, 50176,
          51200, 52224, 54272, 55296, 57344, 58368, 59392, 62464, 63488}
KeptRow(r) ==
    \/ r[3] \in {0, 28672} /\ r[4] < 64 /\ r[2] \in FunctionForms
    \/ 1024 <= r[3] /\ r[3] < 1056 /\ r[4] = 0 /\ r[2] \in {"B1", "I1s"}
    \/ r[3] \in {16384, 16448, 16512, 16576, 16896} /\ r[4] < 32 /\ r[2] \in {"FP_R2ts", "R2td", "NOARG"}
    \/ r[3] \in {17408, 17472, 17536, 17600} /\ r[4] = 0 /\ r[2] = "FP_R2ts"
    \/ r[3] \in {18432, 18496, 18560, 18624} /\ r[4] = 0 /\ r[2] \in {"FP_R2ts", "R2td"}
    \/ r[3] \in Alone /\ r[4] = 0 /\ r[2] \in WideForms
    \/ r[2] = "BC" /\ r[3] < 18000 /\ r[1] \in {"bc1f", "bc1fl", "bc1t", "bc1tl"}
    \/ r[2] = "BC" /\ r[3] > 18000 /\ r[1] \in {"bc2f", "bc2fl", "bc2t", "bc2tl"}

LEMMA KeptRows == \A r \in Assembled : Kept(r) => KeptRow(r)
<1>1. \A r \in RowsAToC : Kept(r) => KeptRow(r)
  BY SMTT(30) DEF RowsAToC, Kept, FloatForms, KeptRow, FunctionForms, WideForms, Alone
<1>2. \A r \in RowsCToM : Kept(r) => KeptRow(r)
  BY SMTT(30) DEF RowsCToM, Kept, FloatForms, KeptRow, FunctionForms, WideForms, Alone
<1>3. \A r \in RowsMToX : Kept(r) => KeptRow(r)
  BY SMTT(30) DEF RowsMToX, Kept, FloatForms, KeptRow, FunctionForms, WideForms, Alone
<1> QED
  BY <1>1, <1>2, <1>3 DEF Assembled

(* Different halves have different fields.                                  *)
LEMMA FieldsDiffer ==
    ASSUME NEW a \in Nat, NEW b \in Nat, NEW c \in Nat, NEW d \in Nat, FieldsOf(a, b) = FieldsOf(c, d)
    PROVE  a = c /\ b = d
<1> DEFINE v == FieldsOf(a, b)
           w == FieldsOf(c, d)
<1>1. /\ v.op = a \div 1024 /\ v.rs = (a \div 32) % 32 /\ v.rt = a % 32
      /\ v.rd = b \div 2048 /\ v.sa = (b \div 64) % 32 /\ v.fn = b % 64
      /\ w.op = c \div 1024 /\ w.rs = (c \div 32) % 32 /\ w.rt = c % 32
      /\ w.rd = d \div 2048 /\ w.sa = (d \div 64) % 32 /\ w.fn = d % 64
  BY DEF FieldsOf
<1>2. v = w
  OBVIOUS
<1> HIDE DEF v, w
<1>3. a \div 1024 = c \div 1024 /\ (a \div 32) % 32 = (c \div 32) % 32 /\ a % 32 = c % 32
  BY <1>1, <1>2
<1>4. b \div 2048 = d \div 2048 /\ (b \div 64) % 32 = (d \div 64) % 32 /\ b % 64 = d % 64
  BY <1>1, <1>2
<1>5. a = c
  BY <1>3
<1>6. b = d
  BY <1>4
<1> QED
  BY <1>5, <1>6

(* The word of a row that keeps its operands, and the part of it that is     *)
(* looked up whatever the operands are.                                    *)
LEMMA KeptWord ==
    ASSUME NEW r, r[3] \in Nat, r[4] \in Nat, KeptRow(r), r[2] # "BC", NEW w,
           LET T == FieldsOf(r[3], r[4])
           IN  DOMAIN w = DOMAIN T /\ \A f \in DOMAIN T \ Slots[r[2]] : w[f] = T[f]
    PROVE  /\ r[2] \in FunctionForms \cup WideForms \cup {"I1s", "FP_R2ts", "R2td"}
           /\ Key(w) = FieldsOf(r[3], r[4])
           /\ \A f \in Slots[r[2]] : f \in DOMAIN w /\ f # "op" /\ FieldsOf(r[3], r[4])[f] = 0
<1> DEFINE type == r[2]
           hi == r[3]
           lo == r[4]
           T == FieldsOf(hi, lo)
           S == Slots[type]
<1>1. T = [op |-> hi \div 1024, rs |-> (hi \div 32) % 32, rt |-> hi % 32,
           rd |-> lo \div 2048, sa |-> (lo \div 64) % 32, fn |-> lo % 64]
  BY DEF FieldsOf
<1>2. DOMAIN w = {"op", "rs", "rt", "rd", "sa", "fn"} /\ DOMAIN T = DOMAIN w
  BY <1>1
<1>3. \A f \in DOMAIN w \ S : w[f] = T[f]
  BY <1>2
<1>4. /\ type \in FunctionForms => S \subseteq {"rs", "rt", "rd", "sa"}
      /\ type \in {"B1", "I1s"} => S \subseteq {"rs", "rd", "sa", "fn"}
      /\ type \in {"FP_R2ts", "R2td", "NOARG"} => S \subseteq {"rt", "rd"}
      /\ type \in WideForms => S \subseteq {"rs", "rt", "rd", "sa", "fn"}
  BY DEF Slots, ImmFields, Operands, FunctionForms, WideForms
<1>5. KeptRow(r) <=>
          \/ hi \in {0, 28672} /\ lo < 64 /\ type \in FunctionForms
          \/ 1024 <= hi /\ hi < 1056 /\ lo = 0 /\ type \in {"B1", "I1s"}
          \/ hi \in {16384, 16448, 16512, 16576, 16896} /\ lo < 32 /\ type \in {"FP_R2ts", "R2td", "NOARG"}
          \/ hi \in {17408, 17472, 17536, 17600} /\ lo = 0 /\ type = "FP_R2ts"
          \/ hi \in {18432, 18496, 18560, 18624} /\ lo = 0 /\ type \in {"FP_R2ts", "R2td"}
          \/ hi \in Alone /\ lo = 0 /\ type \in WideForms
  BY DEF KeptRow
<1>6. type \in FunctionForms \cup WideForms \cup {"I1s", "FP_R2ts", "R2td"}
  BY <1>5 DEF FunctionForms, WideForms
<1> HIDE DEF type, hi, lo, T, S
<1> SUFFICES Key(w) = T /\ \A f \in S : f \in DOMAIN w /\ f # "op" /\ T[f] = 0
  BY <1>6 DEF type, T, S, hi, lo
<1>7. hi \in Nat /\ lo \in Nat
  BY DEF hi, lo
<1>8. CASE hi \in {0, 28672} /\ lo < 64 /\ type \in FunctionForms
  <2>1. T.op \in {0, 28} /\ T.rs = 0 /\ T.rt = 0 /\ T.rd = 0 /\ T.sa = 0
    BY <1>1, <1>7, <1>8
  <2>2. w.op = T.op /\ w.fn = T.fn
    BY <1>2, <1>3, <1>4, <1>8
  <2>3. Key(w) = Only({"op", "fn"}, w)
    BY <2>1, <2>2 DEF Key
  <2>4. Key(w) = T
    BY <1>1, <1>2, <2>1, <2>2, <2>3 DEF Only
  <2> QED
    BY <1>2, <1>4, <1>8, <2>1, <2>4
<1>9. CASE 1024 <= hi /\ hi < 1056 /\ lo = 0 /\ type \in {"B1", "I1s"}
  <2>1. T.op = 1 /\ T.rs = 0 /\ T.rd = 0 /\ T.sa = 0 /\ T.fn = 0
    BY <1>1, <1>7, <1>9
  <2>2. w.op = T.op /\ w.rt = T.rt
    BY <1>2, <1>3, <1>4, <1>9
  <2>3. Key(w) = Only({"op", "rt"}, w)
    BY <2>1, <2>2 DEF Key
  <2>4. Key(w) = T
    BY <1>1, <1>2, <2>1, <2>2, <2>3 DEF Only
  <2> QED
    BY <1>2, <1>4, <1>9, <2>1, <2>4
<1>10. CASE hi \in {16384, 16448, 16512, 16576, 16896} /\ lo < 32 /\ type \in {"FP_R2ts", "R2td", "NOARG"}
  <2>1. T.op = 16 /\ T.rt = 0 /\ T.rd = 0 /\ T.sa = 0 /\ T.fn % 32 = T.fn
    BY <1>1, <1>7, <1>10
  <2>2. w.op = T.op /\ w.rs = T.rs /\ w.fn = T.fn
    BY <1>2, <1>3, <1>4, <1>10
  <2>3. Key(w) = [Only({"op", "rs", "fn"}, w) EXCEPT !.fn = @ % 32]
    BY <2>1, <2>2 DEF Key
  <2>4. Key(w) = T
    BY <1>1, <1>2, <2>1, <2>2, <2>3 DEF Only
  <2> QED
    BY <1>2, <1>4, <1>10, <2>1, <2>4
<1>11. CASE hi \in {17408, 17472, 17536, 17600} /\ lo = 0 /\ type = "FP_R2ts"
  <2>1. T.op = 17 /\ T.rs \div 8 # 1 /\ T.rt = 0 /\ T.rd = 0 /\ T.sa = 0 /\ T.fn = 0
    BY <1>1, <1>7, <1>11
  <2>2. w.op = T.op /\ w.rs = T.rs /\ w.fn = T.fn
    BY <1>2, <1>3, <1>4, <1>11
  <2>3. Key(w) = Only({"op", "rs", "fn"}, w)
    BY <2>1, <2>2 DEF Key
  <2>4. Key(w) = T
    BY <1>1, <1>2, <2>1, <2>2, <2>3 DEF Only
  <2> QED
    BY <1>2, <1>4, <1>11, <2>1, <2>4
<1>12. CASE hi \in {18432, 18496, 18560, 18624} /\ lo = 0 /\ type \in {"FP_R2ts", "R2td"}
  <2>1. T.op = 18 /\ T.rt = 0 /\ T.rd = 0 /\ T.sa = 0 /\ T.fn = 0
    BY <1>1, <1>7, <1>12
  <2>2. w.op = T.op /\ w.rs = T.rs
    BY <1>2, <1>3, <1>4, <1>12
  <2>3. Key(w) = Only({"op", "rs"}, w)
    BY <2>1, <2>2 DEF Key
  <2>4. Key(w) = T
    BY <1>1, <1>2, <2>1, <2>2, <2>3 DEF Only
  <2> QED
    BY <1>2, <1>4, <1>12, <2>1, <2>4
<1>13. CASE hi \in Alone /\ lo = 0 /\ type \in WideForms
  <2>1. T.op \notin {0, 28, 1, 16, 17, 18, 19} /\ T.rs = 0 /\ T.rt = 0 /\ T.rd = 0 /\ T.sa = 0 /\ T.fn = 0
    BY <1>1, <1>7, <1>13 DEF Alone
  <2>2. w.op = T.op
    BY <1>2, <1>3, <1>4, <1>13
  <2>3. Key(w) = Only({"op"}, w)
    BY <2>1, <2>2 DEF Key
  <2>4. Key(w) = T
    BY <1>1, <1>2, <2>1, <2>2, <2>3 DEF Only
  <2> QED
    BY <1>2, <1>4, <1>13, <2>1, <2>4
<1> QED
  BY <1>5, <1>8, <1>9, <1>10, <1>11, <1>12, <1>13

(* An instruction that the assembler stores.                                *)
StoredWell(i) ==
    /\ i.opcode \in DOMAIN Template
    /\ \E r \in Assembled : r[1] = i.opcode /\ r[1] # "ssnop"
    /\ Type[i.opcode] \in BranchTypes => IsMadeBranch(i)
    /\ Type[i.opcode] = "BC" =>
           i.rt % 4 = 2 * Flag(opcode_is_nullified_branch(i.opcode)) + Flag(opcode_is_true_branch(i.opcode))
    /\ Type[i.opcode] \notin FloatForms => \A f \in Operands : i[f] \in Int

LEMMA GivenInts ==
    ASSUME NEW op \in DOMAIN Template, Type[op] \notin FloatForms, NEW f \in Operands
    PROVE  Given(op, f) \subseteq Int
<1> DEFINE nd == Flag(opcode_is_nullified_branch(op))
           tf == Flag(opcode_is_true_branch(op))
           type == Type[op]
<1>1. nd \in {0, 1} /\ tf \in {0, 1}
  BY DEF Flag
<1>2. type # "FP_CMP"
  BY DEF FloatForms
<1>3. \/ Given(op, f) = {cc_to_rt(cc, nd, tf) : cc \in CodesNamed}
      \/ Given(op, f) = {cc_to_rt(cc, 0, 0) : cc \in CodesNamed}
      \/ Given(op, f) = {0, 1}
      \/ Given(op, f) = Numbers \cup {63}
      \/ Given(op, f) = Numbers
      \/ Given(op, f) = {0}
  <2> HIDE DEF nd, tf
  <2>1. CASE type = "BC" /\ f = "rt"
    BY <2>1 DEF Given, nd, tf
  <2>2. CASE ~(type = "BC" /\ f = "rt")
    BY <1>2, <2>2 DEF Given
  <2> QED
    BY <2>1, <2>2
<1> HIDE DEF nd, tf
<1>4. \A cc \in CodesNamed : cc_to_rt(cc, nd, tf) \in Int /\ cc_to_rt(cc, 0, 0) \in Int
  BY <1>1, OperandsAssumption DEF cc_to_rt
<1>5. Numbers \subseteq Int
  BY OperandsAssumption
<1>6. /\ {cc_to_rt(cc, nd, tf) : cc \in CodesNamed} \subseteq Int
      /\ {cc_to_rt(cc, 0, 0) : cc \in CodesNamed} \subseteq Int
      /\ {0, 1} \subseteq Int /\ Numbers \cup {63} \subseteq Int /\ {0} \subseteq Int
  BY <1>4, <1>5
<1> QED
  BY <1>3, <1>5, <1>6, Zenon

LEMMA InstructionStored ==
    ASSUME NEW r \in Assembled, r[1] # "ssnop", NEW d \in Int, NEW delayed \in BOOLEAN,
           NEW i \in Instruction(r[1], d, delayed)
    PROVE  StoredWell(i)
<1> DEFINE op == r[1]
           type == Type[op]
<1>1. op \in DOMAIN Template
  BY DEF Template, Rows
<1>2. /\ i.opcode = op
      /\ type \in BranchTypes => IsMadeBranch(i)
  BY <1>1, BranchMade
<1>3. ASSUME type = "BC"
      PROVE  i.rt % 4 = 2 * Flag(opcode_is_nullified_branch(op)) + Flag(opcode_is_true_branch(op))
  <2> DEFINE nd == Flag(opcode_is_nullified_branch(op))
             tf == Flag(opcode_is_true_branch(op))
  <2>1. PICK cc \in 0 .. 7 : i.rt = cc_to_rt(cc, nd, tf)
    BY <1>1, <1>3, BranchMade
  <2>2. nd \in {0, 1} /\ tf \in {0, 1} /\ i.rt = 4 * cc + 2 * nd + tf
    BY <2>1 DEF Flag, cc_to_rt
  <2> HIDE DEF nd, tf
  <2>3. i.rt % 4 = 2 * nd + tf
    BY <2>2
  <2> QED
    BY <2>3 DEF nd, tf
<1>4. ASSUME type \notin FloatForms PROVE \A f \in Operands : i[f] \in Int
  <2>1. CASE type \in BranchTypes
    BY <1>2, <2>1 DEF IsMadeBranch, Operands
  <2>2. CASE type \notin BranchTypes
    <3>1. i \in [opcode : {op}, rs : Given(op, "rs"), rt : Given(op, "rt"), rd : Given(op, "rd"),
                 sa : Given(op, "sa"), fn : Given(op, "fn")]
      BY <2>2 DEF Instruction
    <3>2. \A f \in Operands : i[f] \in Given(op, f)
      BY <3>1 DEF Operands
    <3> QED
      BY <1>1, <1>4, <3>2, GivenInts
  <2> QED
    BY <2>1, <2>2
<1> QED
  BY <1>1, <1>2, <1>3, <1>4 DEF StoredWell

LEMMA RowOfStored ==
    ASSUME NEW i, StoredWell(i)
    PROVE  \E r \in Assembled : /\ r[1] = i.opcode /\ r[3] \in Nat /\ r[4] \in Nat /\ RowFacts(r)
                                /\ Type[i.opcode] = r[2] /\ Template[i.opcode] = FieldsOf(r[3], r[4])
<1>1. PICK r \in Rows : r[1] = i.opcode /\ Type[i.opcode] = r[2] /\ Template[i.opcode] = FieldsOf(r[3], r[4])
  BY RowOf DEF StoredWell
<1>2. r \in Assembled
  <2>1. PICK q \in Assembled : q[1] = i.opcode
    BY DEF StoredWell
  <2>2. r \notin Rev2Rows
    BY <1>1, <2>1, NamesDiffer
  <2> QED
    BY <2>2 DEF Rows
<1>3. RowFacts(r)
  BY TableFacts
<1> QED
  BY <1>1, <1>2, <1>3 DEF RowFacts

(* The word of an instruction, with its operands where they go.             *)
LEMMA KeptEncoded ==
    ASSUME NEW i, StoredWell(i), NEW r \in Assembled, r[1] = i.opcode, r[3] \in Nat, r[4] \in Nat,
           Type[i.opcode] = r[2], Template[i.opcode] = FieldsOf(r[3], r[4]), Kept(r), r[2] # "BC"
    PROVE  LET w == inst_encode(i)
           IN  /\ r[2] \in FunctionForms \cup WideForms \cup {"I1s", "FP_R2ts", "R2td"}
               /\ Key(w) = Template[i.opcode]
               /\ DOMAIN w = {"op", "rs", "rt", "rd", "sa", "fn"}
               /\ \A f \in Slots[r[2]] : f \in Operands /\ w[f] = i[f]
<1> DEFINE type == r[2]
           T == FieldsOf(r[3], r[4])
           w == inst_encode(i)
           operand(f) == CASE f = "rt" /\ type \in {"BC", "FP_MOVC"} -> i.rt - (i.rt % 4)
                           [] f = "fn" /\ type = "FP_CMP" -> i.rs
                           [] OTHER -> i[f]
<1>1. w = [f \in DOMAIN T |-> IF f \in Slots[type] THEN OrField(T[f], operand(f)) ELSE T[f]]
  BY DEF inst_encode
<1>2. KeptRow(r)
  BY KeptRows
<1>3. type \notin FloatForms
  BY DEF Kept
<1>4. \A f \in Operands : operand(f) = i[f]
  BY <1>3 DEF FloatForms, Operands
<1>5. \A f \in Operands : i[f] \in Int
  BY <1>3 DEF StoredWell
<1>6. DOMAIN T = {"op", "rs", "rt", "rd", "sa", "fn"}
  BY DEF FieldsOf
<1> HIDE DEF operand, T, w
<1>7. DOMAIN w = DOMAIN T /\ \A f \in DOMAIN T \ Slots[type] : w[f] = T[f]
  BY <1>1
<1>8. /\ type \in FunctionForms \cup WideForms \cup {"I1s", "FP_R2ts", "R2td"}
      /\ Key(w) = T
      /\ \A f \in Slots[type] : f \in DOMAIN w /\ f # "op" /\ T[f] = 0
  BY <1>2, <1>7, KeptWord DEF T
<1>9. ASSUME NEW f \in Slots[type] PROVE f \in Operands /\ w[f] = i[f]
  <2>1. f \in Operands /\ T[f] = 0 /\ f \in DOMAIN T
    BY <1>6, <1>7, <1>8 DEF Operands
  <2>2. w[f] = OrField(T[f], operand(f))
    BY <1>1, <2>1
  <2>3. w[f] = OrField(0, i[f])
    BY <1>4, <2>1, <2>2
  <2> QED
    BY <1>5, <2>1, <2>3, OrZero
<1> QED
  BY <1>6, <1>7, <1>8, <1>9 DEF T, w

(* Only its own row is found for it.                                        *)
LEMMA KeptFound ==
    ASSUME NEW r \in Assembled, r[3] \in Nat, r[4] \in Nat, Kept(r), r[2] # "FP_R4",
           r[1] \in DOMAIN Template, Type[r[1]] = r[2], Template[r[1]] = FieldsOf(r[3], r[4]),
           NEW w, Key(w) = FieldsOf(r[3], r[4])
    PROVE  inst_decode(w) = {Decoded(r[1], w)}
<1> DEFINE found == {op \in DOMAIN Template : Type[op] # "FP_R4" /\ Template[op] = Key(w)}
<1>1. r[1] \in found
  OBVIOUS
<1>2. ASSUME NEW op \in found PROVE op = r[1]
  <2>1. PICK q \in Rows : q[1] = op /\ Type[op] = q[2] /\ Template[op] = FieldsOf(q[3], q[4])
    BY RowOf
  <2>2. q[3] \in Nat /\ q[4] \in Nat
    BY TableFacts DEF RowFacts
  <2>3. FieldsOf(r[3], r[4]) = FieldsOf(q[3], q[4])
    BY <2>1
  <2>4. r[3] = q[3] /\ r[4] = q[4]
    BY <2>2, <2>3, FieldsDiffer
  <2> QED
    BY <2>1, <2>4, WordsDiffer DEF SameWord
<1>3. found = {r[1]}
  BY <1>1, <1>2
<1>4. inst_decode(w) = IF found = {} THEN {Invalid} ELSE {Decoded(op, w) : op \in found}
  BY DEF inst_decode
<1> HIDE DEF found
<1> QED
  BY <1>3, <1>4

(* The formats whose operands are shown are decoded as they were encoded.   *)
LEMMA KeptDecoded ==
    ASSUME NEW i, StoredWell(i), Type[i.opcode] # "BC", ~LostInCopy(i), NEW j \in inst_decode(inst_encode(i))
    PROVE  j.opcode = i.opcode /\ \A f \in Slots[Type[i.opcode]] : j[f] = i[f]
<1>1. PICK r \in Assembled : /\ r[1] = i.opcode /\ r[3] \in Nat /\ r[4] \in Nat
                             /\ Type[i.opcode] = r[2] /\ Template[i.opcode] = FieldsOf(r[3], r[4])
  BY RowOfStored
<1>2. r[1] # "ssnop"
  BY <1>1 DEF StoredWell
<1>3. Kept(r)
  BY <1>1, <1>2 DEF Kept, LostInCopy
<1> DEFINE w == inst_encode(i)
           type == r[2]
<1>4. /\ type \in FunctionForms \cup WideForms \cup {"I1s", "FP_R2ts", "R2td"}
      /\ Key(w) = Template[i.opcode] /\ DOMAIN w = {"op", "rs", "rt", "rd", "sa", "fn"}
      /\ \A f \in Slots[type] : f \in Operands /\ w[f] = i[f]
  BY <1>1, <1>3, KeptEncoded
<1>5. type # "FP_R4" /\ type \notin FloatForms
  BY <1>4 DEF FunctionForms, WideForms, FloatForms
<1>6. i.opcode \in DOMAIN Template
  BY DEF StoredWell
<1> HIDE DEF w
<1>7. j = Decoded(i.opcode, w)
  <2>1. inst_decode(w) = {Decoded(r[1], w)}
    BY <1>1, <1>3, <1>4, <1>5, <1>6, KeptFound
  <2> QED
    BY <1>1, <2>1 DEF w
<1> DEFINE kept == Operated(i.opcode, Only(Slots[type], w))
<1>8. kept.opcode = i.opcode
  BY DEF Operated, Invalid
<1>9. \A f \in Operands : kept[f] = Only(Slots[type], w)[f]
  BY DEF Operated, Invalid, Operands
<1>10. \A f \in Slots[type] : kept[f] = i[f]
  BY <1>4, <1>9 DEF Only, Operands
<1>11. kept = [f \in {"opcode", "rs", "rt", "rd", "sa", "fn"} |-> kept[f]]
  BY DEF Operated, Invalid
<1> HIDE DEF kept
<1>12. CASE type = "J"
  <2>1. j = [kept EXCEPT !.rs = @ - 8 * ((@ \div 8) % 2)]
    BY <1>1, <1>7, <1>12 DEF Decoded, FloatForms, kept
  <2>2. i.rs \in Int /\ (i.rs \div 8) % 2 # 1 /\ "rs" \in Slots[type]
    BY <1>1, <1>5, <1>12 DEF StoredWell, LostInCopy, Operands, Slots
  <2>3. (i.rs \div 8) % 2 = 0
    BY <2>2
  <2>4. kept.rs = i.rs
    BY <1>10, <2>2
  <2>5. kept.rs - 8 * ((kept.rs \div 8) % 2) = kept.rs
    BY <2>2, <2>3, <2>4
  <2>6. j = kept
    BY <1>11, <2>1, <2>5
  <2> QED
    BY <1>1, <1>8, <1>10, <2>6
<1>13. CASE type # "J"
  <2>1. j = kept
    BY <1>1, <1>5, <1>7, <1>13 DEF Decoded, kept
  <2> QED
    BY <1>1, <1>8, <1>10, <2>1
<1> QED
  BY <1>12, <1>13

(* A branch on a condition code is decoded as one of the branches of its     *)
(* coprocessor, with its own operands.                                     *)
LEMMA CodeEncoded ==
    ASSUME NEW i, StoredWell(i), Type[i.opcode] = "BC"
    PROVE  LET w == inst_encode(i)
           IN  /\ DOMAIN w = {"op", "rs", "rt", "rd", "sa", "fn"}
               /\ \/ w.op = 17 /\ i.opcode \in {"bc1f", "bc1fl", "bc1t", "bc1tl"}
                  \/ w.op = 18 /\ i.opcode \in {"bc2f", "bc2fl", "bc2t", "bc2tl"}
               /\ w.rs = 8 /\ w.rt = i.rt /\ w.rt \in Int /\ w.rd = i.rd /\ w.sa = i.sa /\ w.fn = i.fn
<1> DEFINE w == inst_encode(i)
           T == Template[i.opcode]
           q == i.rt - (i.rt % 4)
<1>1. PICK r \in Assembled : /\ r[1] = i.opcode /\ r[3] \in Nat /\ r[4] \in Nat /\ RowFacts(r)
                             /\ Type[i.opcode] = r[2] /\ T = FieldsOf(r[3], r[4])
  BY RowOfStored
<1>2. IsMadeBranch(i)
  BY DEF StoredWell, BranchTypes
<1>3. /\ DOMAIN w = {"op", "rs", "rt", "rd", "sa", "fn"}
      /\ w.op = T.op /\ w.rs = T.rs /\ w.rd = i.rd /\ w.sa = i.sa /\ w.fn = i.fn
  BY <1>2, BranchEncoded
<1>4. T.rs = 8 /\ T.rt \in 0 .. 3
  BY <1>2, BranchNames DEF IsMadeBranch, BranchWord
<1>5. T.rt = i.rt % 4
  BY ClassesOf DEF StoredWell
<1>6. i.rt \in 0 .. 31
  BY <1>2 DEF IsMadeBranch
<1>7. w.rt = OrField(T.rt, q)
  <2>1. w = [f \in DOMAIN T |-> IF f \in Slots["BC"]
                                THEN OrField(T[f], CASE f = "rt" -> q
                                                     [] OTHER -> i[f]) ELSE T[f]]
    BY DEF inst_encode
  <2>2. "rt" \in Slots["BC"] /\ "rt" \in DOMAIN T
    BY <1>1 DEF Slots, FieldsOf
  <2> HIDE DEF w, q, T
  <2> QED
    BY <2>1, <2>2
<1>8. q \in {4 * c : c \in 0 .. 7}
  <2>1. q = 4 * (i.rt \div 4) /\ i.rt \div 4 \in 0 .. 7
    BY <1>6
  <2> QED
    BY <2>1
<1>9. w.rt = T.rt + q
  BY <1>4, <1>7, <1>8, OrApart
<1>10. w.rt = i.rt /\ w.rt \in Int
  BY <1>5, <1>6, <1>9
<1>11. \/ T.op = 17 /\ i.opcode \in {"bc1f", "bc1fl", "bc1t", "bc1tl"}
       \/ T.op = 18 /\ i.opcode \in {"bc2f", "bc2fl", "bc2t", "bc2tl"}
  <2> DEFINE hi == r[3]
  <2>1. (17664 <= hi /\ hi < 17668) \/ (18688 <= hi /\ hi < 18692)
    BY <1>1 DEF RowFacts
  <2>2. Kept(r)
    <3>1. opcode_is_branch(i.opcode)
      BY ClassesOf DEF StoredWell, BranchTypes
    <3> QED
      BY <1>1, <3>1 DEF Kept, FloatForms, StoredWell, opcode_is_branch
  <2>3. KeptRow(r)
    BY <2>2, KeptRows
  <2>4. \/ hi < 18000 /\ r[1] \in {"bc1f", "bc1fl", "bc1t", "bc1tl"}
        \/ hi > 18000 /\ r[1] \in {"bc2f", "bc2fl", "bc2t", "bc2tl"}
    BY <1>1, <2>3 DEF KeptRow, FunctionForms, WideForms
  <2>5. T.op = hi \div 1024 /\ hi \in Nat
    BY <1>1 DEF FieldsOf
  <2> HIDE DEF hi, T
  <2> QED
    BY <1>1, <2>1, <2>4, <2>5
<1> QED
  BY <1>3, <1>4, <1>10, <1>11

LEMMA CodeFound ==
    ASSUME NEW op \in DOMAIN Template, NEW n \in {17664, 17665, 18688}, Template[op] = FieldsOf(n, 0)
    PROVE  /\ Type[op] = "BC"
           /\ n = 17664 => op = "bc1f"
           /\ n = 17665 => op = "bc1t"
           /\ n = 18688 => op = "bc2f"
<1>1. PICK q \in Rows : q[1] = op /\ Type[op] = q[2] /\ Template[op] = FieldsOf(q[3], q[4])
  BY RowOf
<1>2. q[3] \in Nat /\ q[4] \in Nat
  BY TableFacts DEF RowFacts
<1>3. q[3] = n /\ q[4] = 0
  <2>1. n \in Nat /\ FieldsOf(q[3], q[4]) = FieldsOf(n, 0)
    BY <1>1
  <2> QED
    BY <1>2, <2>1, FieldsDiffer
<1>4. \A name \in {"bc1f", "bc1t", "bc2f"} : \E r \in RowsAToC : r[1] = name
  BY DEF RowsAToC
<1> DEFINE name == IF n = 17664 THEN "bc1f" ELSE IF n = 17665 THEN "bc1t" ELSE "bc2f"
<1>5. PICK r \in RowsAToC : r[1] = name
  BY <1>4
<1>6. r \in Assembled /\ r \in Rows
  BY DEF Assembled, Rows
<1>7. RowFacts(r)
  BY <1>6, TableFacts
<1>8. r[2] = "BC" /\ r[3] = n /\ r[4] = 0
  BY <1>5, <1>7 DEF RowFacts
<1>9. Kept(r)
  BY <1>5, <1>8 DEF Kept, FloatForms
<1>10. op = name
  BY <1>1, <1>3, <1>5, <1>6, <1>8, <1>9, WordsDiffer DEF SameWord
<1> QED
  BY <1>10, CodeNames

LEMMA CodeDecoded ==
    ASSUME NEW i, StoredWell(i), Type[i.opcode] = "BC", NEW j \in inst_decode(inst_encode(i))
    PROVE  SameOperation(j.opcode, i.opcode) /\ \A f \in Slots["BC"] : j[f] = i[f]
<1> DEFINE w == inst_encode(i)
           found == {op \in DOMAIN Template : Type[op] # "FP_R4" /\ Template[op] = Key(w)}
<1>1. IsMadeBranch(i)
  BY DEF StoredWell, BranchTypes
<1>2. found # {}
  BY <1>1, BranchFound
<1>3. PICK op \in DOMAIN Template : Template[op] = Key(w) /\ j = Decoded(op, w)
  BY <1>2 DEF inst_decode
<1>4. /\ DOMAIN w = {"op", "rs", "rt", "rd", "sa", "fn"}
      /\ \/ w.op = 17 /\ i.opcode \in {"bc1f", "bc1fl", "bc1t", "bc1tl"}
         \/ w.op = 18 /\ i.opcode \in {"bc2f", "bc2fl", "bc2t", "bc2tl"}
      /\ w.rs = 8 /\ w.rt = i.rt /\ w.rt \in Int /\ w.rd = i.rd /\ w.sa = i.sa /\ w.fn = i.fn
  BY CodeEncoded
<1> HIDE DEF w, found
<1>5. /\ Type[op] = "BC"
      /\ w.op = 17 => op \in {"bc1f", "bc1t"}
      /\ w.op = 18 => op = "bc2f"
  <2>1. CASE w.op = 17
    <3>1. Key(w) = [[f \in DOMAIN w |-> IF f \in {"op", "rs", "rt"} THEN w[f] ELSE 0] EXCEPT !.rt = @ % 2]
      BY <1>4, <2>1, KeyParts
    <3>2. Key(w) = [op |-> 17, rs |-> 8, rt |-> w.rt % 2, rd |-> 0, sa |-> 0, fn |-> 0]
      BY <1>4, <2>1, <3>1
    <3>3. w.rt % 2 = 0 \/ w.rt % 2 = 1
      BY <1>4
    <3>4. /\ FieldsOf(17664, 0) = [op |-> 17, rs |-> 8, rt |-> 0, rd |-> 0, sa |-> 0, fn |-> 0]
          /\ FieldsOf(17665, 0) = [op |-> 17, rs |-> 8, rt |-> 1, rd |-> 0, sa |-> 0, fn |-> 0]
      BY DEF FieldsOf
    <3>5. Template[op] = FieldsOf(17664, 0) \/ Template[op] = FieldsOf(17665, 0)
      BY <1>3, <3>2, <3>3, <3>4
    <3> QED
      BY <2>1, <3>5, CodeFound
  <2>2. CASE w.op = 18
    <3>1. Key(w) = [f \in DOMAIN w |-> IF f \in {"op", "rs"} THEN w[f] ELSE 0]
      BY <1>4, <2>2, KeyParts
    <3>2. Key(w) = [op |-> 18, rs |-> 8, rt |-> 0, rd |-> 0, sa |-> 0, fn |-> 0]
      BY <1>4, <2>2, <3>1
    <3>3. FieldsOf(18688, 0) = [op |-> 18, rs |-> 8, rt |-> 0, rd |-> 0, sa |-> 0, fn |-> 0]
      BY DEF FieldsOf
    <3> QED
      BY <1>3, <2>2, <3>2, <3>3, CodeFound
  <2> QED
    BY <1>4, <2>1, <2>2
<1> DEFINE fields == {"rs"} \cup Slots["BC"]
<1>6. j = Operated(op, Only(fields, w))
  BY <1>3, <1>5 DEF Decoded, FloatForms
<1>7. j.opcode = op /\ \A f \in Operands : j[f] = Only(fields, w)[f]
  BY <1>6 DEF Operated, Invalid, Operands
<1>8. Slots["BC"] = {"rt", "rd", "sa", "fn"}
  BY DEF Slots, ImmFields
<1>9. \A f \in Slots["BC"] : j[f] = i[f]
  BY <1>4, <1>7, <1>8 DEF Only, Operands
<1>10. SameOperation(op, i.opcode)
  <2>1. \E case \in OneCase : {op, i.opcode} \subseteq case
    BY <1>4, <1>5 DEF OneCase
  <2> QED
    BY <2>1 DEF SameOperation
<1> QED
  BY <1>7, <1>9, <1>10

LEMMA ShownSlots == \A type \in DOMAIN Slots : type \notin FloatForms => Shown[type] \subseteq Slots[type]
<1>1. Shown = [Slots EXCEPT !["I1t"] = Slots["I1t"] \ {"rs"}, !["FP_CMP"] = {"rs", "rt", "rd", "sa"}]
  BY DEF Shown
<1>2. Slots = [type \in DOMAIN Slots |-> Slots[type]]
  BY DEF Slots
<1>3. \A type \in DOMAIN Slots : type \notin {"I1t", "FP_CMP"} => Shown[type] = Slots[type]
  BY <1>1, <1>2
<1>4. "I1t" \in DOMAIN Slots => Shown["I1t"] \subseteq Slots["I1t"]
  BY <1>1, <1>2
<1> QED
  BY <1>3, <1>4 DEF FloatForms

(* CopyKeepsMeaning for every instruction of the table and any operands: a   *)
(* copy that loses nothing it may lose executes the same case of the        *)
(* interpreter on the same operands, though rows that share an actual       *)
(* opcode cannot be told apart.                                            *)
THEOREM CopyTheorem ==
    CodecSpec => []CopyKeepsMeaning
<1> DEFINE Inv == /\ StoredWell(made)
                  /\ slot.encoding = inst_encode(made)
                  /\ slot.copied => slot.inst \in inst_decode(inst_encode(made))
<1>1. CodecInit => Inv
  <2> SUFFICES ASSUME CodecInit PROVE Inv
    OBVIOUS
  <2>1. PICK row \in Assembled, d \in Distances \cup {0}, delayed \in BOOLEAN :
            row[1] # "ssnop" /\ made \in Instruction(row[1], d, delayed)
    BY DEF CodecInit
  <2>2. d \in Int
    BY <2>1, OperandsAssumption
  <2>3. StoredWell(made)
    BY <2>1, <2>2, InstructionStored
  <2> QED
    BY <2>3 DEF CodecInit
<1>2. Inv /\ [CodecNext]_cvars => Inv'
  <2> SUFFICES ASSUME Inv, [CodecNext]_cvars PROVE Inv'
    OBVIOUS
  <2>1. CASE CopyCode
    <3>1. made' = made
      BY <2>1 DEF CopyCode
    <3>2. PICK i \in inst_decode(slot.encoding) : slot' = [copied |-> TRUE, inst |-> i, encoding |-> slot.encoding]
      BY <2>1 DEF CopyCode
    <3>3. slot'.inst \in inst_decode(inst_encode(made)) /\ slot'.encoding = inst_encode(made)
      BY <3>2
    <3> QED
      BY <3>1, <3>3
  <2>2. CASE UNCHANGED cvars
    BY <2>2 DEF cvars
  <2> QED
    BY <2>1, <2>2 DEF CodecNext
<1>3. Inv => CopyKeepsMeaning
  <2> SUFFICES ASSUME Inv, slot.copied, ~LostInCopy(made)
               PROVE  /\ SameOperation(slot.inst.opcode, made.opcode)
                      /\ \A f \in Shown[Type[made.opcode]] : slot.inst[f] = made[f]
    BY DEF CopyKeepsMeaning
  <2> DEFINE type == Type[made.opcode]
  <2>1. /\ SameOperation(slot.inst.opcode, made.opcode)
        /\ \A f \in Slots[type] : slot.inst[f] = made[f]
    <3>1. CASE type = "BC"
      BY <3>1, CodeDecoded
    <3>2. CASE type # "BC"
      BY <3>2, KeptDecoded DEF SameOperation
    <3> QED
      BY <3>1, <3>2
  <2>2. Shown[type] \subseteq Slots[type]
    <3>1. type \notin FloatForms
      BY DEF LostInCopy
    <3>2. type \in DOMAIN Slots
      <4>1. PICK r \in Assembled : type = r[2] /\ r[1] = made.opcode
        BY RowOfStored
      <4>2. Kept(r)
        BY <4>1 DEF Kept, LostInCopy, StoredWell
      <4>3. KeptRow(r)
        BY <4>2, KeptRows
      <4> QED
        BY <4>1, <4>3 DEF KeptRow, FunctionForms, WideForms, Slots
    <3> QED
      BY <3>1, <3>2, ShownSlots
  <2> QED
    BY <2>1, <2>2
<1> QED
  BY <1>1, <1>2, <1>3, PTL DEF CodecSpec
===============================================================================
