--------------------------- MODULE ArithmeticProofs ---------------------------
(***************************************************************************)
(* The integer arithmetic is exact for every width of a word: each of its   *)
(* instructions is a step of the accumulator of two words, shifts move bits, *)
(* and comparisons and traps agree with the order of the bits; and each      *)
(* sequence the assembler writes for a pseudo instruction does what its     *)
(* name says.                                                              *)
(***************************************************************************)
EXTENDS Arithmetic, WordOperations, Pseudo, NumberFacts

(* A carry out of a sum of two words is seen by comparing the wrapped sum.  *)
LEMMA CarryFact ==
    ASSUME NEW w \in Nat, NEW p \in 0 .. w - 1, NEW q \in 0 .. w - 1
    PROVE  /\ (p + q) % w \in 0 .. w - 1
           /\ Carry((p + q) % w, p, q) \in {0, 1}
           /\ p + q = ((p + q) % w) + Carry((p + q) % w, p, q) * w
<1>1. CASE p + q < w
  <2>1. (p + q) % w = p + q
    BY <1>1
  <2> QED
    BY <1>1, <2>1 DEF Carry
<1>2. CASE p + q >= w
  <2>1. (p + q) % w = p + q - w
    BY <1>2
  <2> QED
    BY <1>2, <2>1 DEF Carry
<1> QED
  BY <1>1, <1>2

(* The product of two half words, and one more half word, fit a word.       *)
LEMMA HalfProduct ==
    ASSUME NEW k \in Nat \ {0}, NEW p \in 0 .. k - 1, NEW q \in 0 .. k - 1
    PROVE  p * q \in Nat /\ p * q < k * k
<1>1. p * q \in Nat /\ p * q <= p * k
  BY Z3
<1>2. p * k < k * k
  BY Z3
<1> QED
  BY <1>1, <1>2

(* Two sums that carry one after the other.                                 *)
LEMMA TwoCarries ==
    ASSUME NEW w \in Nat, NEW c1 \in {0, 1}, NEW c2 \in {0, 1},
           NEW sum \in Nat, NEW mid \in Nat, NEW up \in Nat, NEW mid2 \in Nat,
           sum = mid + c1 * w, mid + up = mid2 + c2 * w
    PROVE  sum + up = mid2 + (c1 + c2) * w
<1>1. (c1 + c2) * w = c1 * w + c2 * w
  BY Z3
<1> DEFINE p == c1 * w
           q == c2 * w
<1>2. p \in Nat /\ q \in Nat
  BY Z3
<1> QED
  <2> HIDE DEF p, q
  <2>1. sum = mid + p /\ mid + up = mid2 + q /\ (c1 + c2) * w = p + q
    BY <1>1 DEF p, q
  <2> QED
    BY <1>2, <2>1

(* Two words of two halves multiply like numbers of two digits.            *)
LEMMA DigitProduct ==
    ASSUME NEW k \in Nat, NEW a \in Nat, NEW b \in Nat, NEW c \in Nat, NEW d \in Nat
    PROVE  (a * k + b) * (c * k + d) = (a * c) * (k * k) + (a * d + c * b) * k + b * d
  BY Z3

(* A number below the square of w that is hi * w + lo has its two digits    *)
(* there: nothing is lost when the upper one is cut to a word.              *)
LEMMA UpperDigit ==
    ASSUME NEW w \in Nat \ {0}, NEW hi \in Nat, NEW lo \in 0 .. w - 1,
           hi * w + lo < w * w
    PROVE  hi < w /\ hi % w = hi
<1>1. SUFFICES ASSUME hi >= w PROVE FALSE
  BY Z3
<1>2. hi * w >= w * w
  BY <1>1, Z3
<1> QED
  BY <1>2, Z3

LEMMA TwoDigits ==
    ASSUME NEW k \in Nat \ {0}, NEW upper \in 0 .. k - 1, NEW lower \in 0 .. k - 1
    PROVE  lower + upper * k \in 0 .. k * k - 1
<1>1. upper * k \in Nat /\ upper * k <= (k - 1) * k
  BY Z3
<1>2. (k - 1) * k = k * k - k /\ k * k \in Nat
  BY Z3
<1> QED
  BY <1>1, <1>2

(* The pieces of the product put together: s is ad + cb, bd = up || r, and  *)
(* s + up = carry || u || l in half words.                                 *)
LEMMA Assembly ==
    ASSUME NEW k \in Nat, NEW ac \in Nat, NEW s \in Nat, NEW up \in Nat, NEW r \in Nat,
           NEW u \in Nat, NEW l \in Nat, NEW carry \in Nat,
           s + up = (u * k + l) + carry * (k * k)
    PROVE  (ac + carry * k + u) * (k * k) + (r + l * k) = ac * (k * k) + s * k + (up * k + r)
<1>1. (s + up) * k = ((u * k + l) + carry * (k * k)) * k
  OBVIOUS
<1>2. (s + up) * k = s * k + up * k
  BY Z3
<1>3. ((u * k + l) + carry * (k * k)) * k = u * (k * k) + l * k + (carry * k) * (k * k)
  BY Z3
<1>4. (ac + carry * k + u) * (k * k) = ac * (k * k) + (carry * k) * (k * k) + u * (k * k)
  BY Z3
<1> DEFINE acw == ac * (k * k)  sk == s * k  upk == up * k  uw == u * (k * k)
           lk == l * k  cw == (carry * k) * (k * k)
<1>5. /\ acw \in Nat /\ sk \in Nat /\ upk \in Nat /\ uw \in Nat /\ lk \in Nat /\ cw \in Nat
  BY Z3
<1>6. /\ sk + upk = uw + lk + cw
      /\ (ac + carry * k + u) * (k * k) = acw + cw + uw
  BY <1>1, <1>2, <1>3, <1>4
<1> HIDE DEF acw, sk, upk, uw, lk, cw
<1>7. (acw + cw + uw) + (r + lk) = acw + sk + (upk + r)
  BY <1>5, <1>6
<1> QED
  BY <1>6, <1>7 DEF acw, sk, upk, lk

(* Two digits name every number below the square of the width.             *)
LEMMA PairRange ==
    ASSUME NEW w \in Nat \ {0}, NEW hi \in 0 .. w - 1, NEW lo \in 0 .. w - 1
    PROVE  hi * w + lo \in 0 .. w * w - 1 /\ w * w \in Nat \ {0}
<1>1. lo + hi * w \in 0 .. w * w - 1
  BY TwoDigits
<1>2. hi * w \in Nat /\ w * w \in Nat \ {0}
  BY Z3
<1> QED
  BY <1>1, <1>2

(* A carry into, or a borrow out of, the upper digit.                      *)
LEMMA PairSum ==
    ASSUME NEW w \in Nat \ {0}, NEW h1 \in 0 .. w - 1, NEW l1 \in 0 .. w - 1,
           NEW h2 \in 0 .. w - 1, NEW l2 \in 0 .. w - 1, NEW c \in {0, 1},
           NEW lo \in 0 .. w - 1, l1 + l2 = lo + c * w
    PROVE  /\ (h1 + c + h2) % w \in 0 .. w - 1
           /\ ((h1 + c + h2) % w) * w + lo = ((h1 * w + l1) + (h2 * w + l2)) % (w * w)
<1> DEFINE n == h1 + c + h2
           hi == n % w
<1>1. n \in Int
  OBVIOUS
<1>2. PICK q \in Int : n = q * w + hi
  BY <1>1, ModSplit
<1>3. hi \in 0 .. w - 1
  BY <1>1, ModSplit
<1> HIDE DEF hi
<1>4. (h1 * w + l1) + (h2 * w + l2) = n * w + lo
  BY Z3
<1>5. n * w + lo = q * (w * w) + (hi * w + lo)
  <2> HIDE DEF n
  <2> QED
    BY <1>1, <1>2, <1>3, Z3
<1>6. hi * w + lo \in 0 .. w * w - 1 /\ w * w \in Nat \ {0}
  BY <1>3, PairRange
<1> DEFINE total == (h1 * w + l1) + (h2 * w + l2)
           pair == hi * w + lo
           ww == w * w
<1>7. total \in Int /\ total = q * ww + pair
  BY <1>4, <1>5, Z3
<1> HIDE DEF total, pair, ww
<1>8. total % ww = pair
  BY <1>6, <1>7, ModUnique DEF pair, ww
<1> QED
  BY <1>3, <1>8 DEF hi, total, pair, ww

LEMMA PairDifference ==
    ASSUME NEW w \in Nat \ {0}, NEW h1 \in 0 .. w - 1, NEW l1 \in 0 .. w - 1,
           NEW h2 \in 0 .. w - 1, NEW l2 \in 0 .. w - 1, NEW c \in {0, 1},
           NEW lo \in 0 .. w - 1, l1 - l2 = lo - c * w
    PROVE  /\ (h1 - c - h2) % w \in 0 .. w - 1
           /\ ((h1 - c - h2) % w) * w + lo = ((h1 * w + l1) - (h2 * w + l2)) % (w * w)
<1> DEFINE n == h1 - c - h2
           hi == n % w
<1>1. n \in Int
  OBVIOUS
<1>2. PICK q \in Int : n = q * w + hi
  BY <1>1, ModSplit
<1>3. hi \in 0 .. w - 1
  BY <1>1, ModSplit
<1> HIDE DEF hi
<1>4. (h1 * w + l1) - (h2 * w + l2) = n * w + lo
  BY Z3
<1>5. n * w + lo = q * (w * w) + (hi * w + lo)
  <2> HIDE DEF n
  <2> QED
    BY <1>1, <1>2, <1>3, Z3
<1>6. hi * w + lo \in 0 .. w * w - 1 /\ w * w \in Nat \ {0}
  BY <1>3, PairRange
<1> DEFINE total == (h1 * w + l1) - (h2 * w + l2)
           pair == hi * w + lo
           ww == w * w
<1>7. total \in Int /\ total = q * ww + pair
  BY <1>4, <1>5, Z3
<1> HIDE DEF total, pair, ww
<1>8. total % ww = pair
  BY <1>6, <1>7, ModUnique DEF pair, ww
<1> QED
  BY <1>3, <1>8 DEF hi, total, pair, ww

(* Two numbers of which both are remainders by w * w have the same last digit. *)
LEMMA LowDigit ==
    ASSUME NEW w \in Nat \ {0}, NEW n \in Int, NEW hi \in 0 .. w - 1, NEW lo \in 0 .. w - 1,
           n % (w * w) = hi * w + lo
    PROVE  n % w = lo
<1> DEFINE ww == w * w
<1>1. ww \in Nat \ {0}
  BY Z3
<1>2. PICK q \in Int : n = q * ww + (n % ww)
  BY <1>1, ModSplit
<1>3. n = q * ww + (hi * w + lo)
  BY <1>2
<1>4. n = (q * w + hi) * w + lo /\ q * w + hi \in Int
  BY <1>3, Z3
<1> HIDE DEF ww
<1> QED
  BY <1>4, ModUnique

(* The digits of a pair.                                                    *)
LEMMA Digits ==
    ASSUME NEW w \in Nat \ {0}, NEW hi \in 0 .. w - 1, NEW lo \in 0 .. w - 1
    PROVE  (hi * w + lo) % w = lo /\ (hi * w + lo) \div w = hi
<1> DEFINE n == hi * w + lo
           q == n \div w
           r == n % w
<1>1. n \in Nat
  BY Z3
<1>2. n % w = lo
  BY <1>1, ModUnique
<1>3. q \in Nat /\ n = q * w + r
  BY <1>1, SplitFact
<1>4. (q - hi) * w = 0
  BY <1>2, <1>3, Z3
<1>5. q = hi
  <2> HIDE DEF q
  <2> QED
    BY <1>3, <1>4, Z3
<1> QED
  BY <1>2, <1>5

-----------------------------------------------------------------------------
(* A word has two equal halves, and they are words of HalfBits bits.        *)
LEMMA WordFact == B \in Nat \ {0, 1} /\ W = B * B /\ W \in Nat \ {0, 1} /\ B <= W
<1>1. HalfBits - 1 \in Nat /\ HalfBits = (HalfBits - 1) + 1
  BY WidthAssumption
<1>2. B = 2 * Pow2[HalfBits - 1] /\ Pow2[HalfBits - 1] \in Nat \ {0}
  BY <1>1, Pow2Steps, Pow2Type DEF B
<1>3. B \in Nat \ {0, 1} /\ W = B * B
  BY <1>2 DEF W
<1> HIDE DEF B
<1>4. B * B \in Nat /\ B <= B * B
  BY <1>3, Z3
<1> QED
  BY <1>3, <1>4

(* The half of a word is one: both signs have as many numbers.             *)
LEMMA HalfWord == W \div 2 \in Nat /\ W = 2 * (W \div 2)
<1> DEFINE h == Pow2[HalfBits - 1]
<1>1. HalfBits - 1 \in Nat /\ HalfBits = (HalfBits - 1) + 1
  BY WidthAssumption
<1>2. h \in Nat /\ B = 2 * h
  BY <1>1, Pow2Steps, Pow2Type DEF B
<1> HIDE DEF h
<1>3. W = 2 * (h * B) /\ h * B \in Nat
  BY <1>2, WordFact, Z3
<1> QED
  BY <1>3

(* unsigned_multiply puts exactly v1 * v2 into the pair HI, LO: the         *)
(* "high-school math" of its comment loses no carry, for every width.       *)
THEOREM ProductTheorem ==
    ASSUME NEW v1 \in Reg, NEW v2 \in Reg
    PROVE  /\ unsigned_multiply(v1, v2).hi \in Reg
           /\ unsigned_multiply(v1, v2).lo \in Reg
           /\ unsigned_multiply(v1, v2).hi * W + unsigned_multiply(v1, v2).lo = v1 * v2
<1> USE WordFact
<1> DEFINE a == v1 \div B
           b == v1 % B
           c == v2 \div B
           d == v2 % B
           up == (b * d) \div B
           mid == (a * d + c * b) % W
           mid2 == (mid + up) % W
           carry == Carry(mid, a * d, c * b) + Carry(mid2, mid, up)
           lo == ((b * d) % B) + (mid2 % B) * B
           hi == a * c + carry * B + (mid2 \div B)
<1>1. unsigned_multiply(v1, v2) = [lo |-> lo, hi |-> hi % W]
  BY DEF unsigned_multiply
<1>2. v1 \in Nat /\ v2 \in Nat /\ v1 < B * B /\ v2 < B * B
  BY DEF Reg
<1>3. /\ a \in 0 .. B - 1 /\ b \in 0 .. B - 1 /\ v1 = a * B + b
      /\ c \in 0 .. B - 1 /\ d \in 0 .. B - 1 /\ v2 = c * B + d
  <2> HIDE DEF B, W
  <2> QED
    BY <1>2, SplitFact, QuotientBound
<1> HIDE DEF a, b, c, d
<1> HIDE DEF B, W
<1>4. /\ a * d \in 0 .. W - 1 /\ c * b \in 0 .. W - 1
      /\ b * d \in Nat /\ b * d < B * B /\ a * c \in Nat
  BY <1>3, HalfProduct
<1>5. up \in 0 .. B - 1 /\ (b * d) % B \in 0 .. B - 1 /\ b * d = up * B + ((b * d) % B)
  BY <1>4, SplitFact, QuotientBound
<1>6. /\ mid \in 0 .. W - 1 /\ Carry(mid, a * d, c * b) \in {0, 1}
      /\ a * d + c * b = mid + Carry(mid, a * d, c * b) * W
  BY <1>4, CarryFact
<1> HIDE DEF up, mid
<1>7. /\ mid2 \in 0 .. W - 1 /\ Carry(mid2, mid, up) \in {0, 1}
      /\ mid + up = mid2 + Carry(mid2, mid, up) * W
  <2>1. up \in 0 .. W - 1
    BY <1>5
  <2> QED
    BY <1>6, <2>1, CarryFact
<1> HIDE DEF mid2
<1>8. a * d + c * b + up = mid2 + carry * W /\ carry \in 0 .. 2
  <2> DEFINE sum == a * d + c * b
             c1 == Carry(mid, a * d, c * b)
             c2 == Carry(mid2, mid, up)
  <2>1. sum \in Nat /\ sum = mid + c1 * W /\ c1 \in {0, 1}
    BY <1>4, <1>6
  <2>2. mid + up = mid2 + c2 * W /\ c2 \in {0, 1}
    BY <1>7
  <2>3. mid \in Nat /\ up \in Nat /\ mid2 \in Nat
    BY <1>5, <1>6, <1>7
  <2>4. carry = c1 + c2
    OBVIOUS
  <2> HIDE DEF sum, c1, c2, carry
  <2>5. sum + up = mid2 + (c1 + c2) * W
    BY <2>1, <2>2, <2>3, TwoCarries
  <2>6. carry \in 0 .. 2
    BY <2>1, <2>2, <2>4
  <2> QED
    BY <2>4, <2>5, <2>6 DEF sum
<1> HIDE DEF carry
<1>9. mid2 \div B \in 0 .. B - 1 /\ mid2 % B \in 0 .. B - 1 /\ mid2 = (mid2 \div B) * B + (mid2 % B)
  <2>1. mid2 \in Nat /\ mid2 < B * B
    BY <1>7
  <2> QED
    BY <2>1, SplitFact, QuotientBound
<1>10. lo \in 0 .. W - 1
  BY <1>5, <1>9, TwoDigits
<1>11. hi \in Nat /\ hi * W + lo = v1 * v2
  <2> DEFINE s == a * d + c * b
             r == (b * d) % B
             u == mid2 \div B
             l == mid2 % B
             ac == a * c
  <2>1. /\ ac \in Nat /\ s \in Nat /\ up \in Nat /\ r \in Nat /\ u \in Nat /\ l \in Nat
        /\ carry \in Nat /\ b * d = up * B + r
    BY <1>4, <1>5, <1>8, <1>9
  <2>2. s + up = (u * B + l) + carry * (B * B)
    BY <1>8, <1>9
  <2>3. v1 * v2 = ac * (B * B) + s * B + (up * B + r)
    BY <1>3, <2>1, DigitProduct
  <2>4. hi = ac + carry * B + u /\ lo = r + l * B
    OBVIOUS
  <2> HIDE DEF s, r, u, l, ac, hi, lo
  <2>5. hi * (B * B) + lo = ac * (B * B) + s * B + (up * B + r)
    BY <2>1, <2>2, <2>4, Assembly
  <2>6. hi \in Nat
    BY <2>1, <2>4, Z3
  <2> QED
    BY <2>3, <2>5, <2>6
<1> HIDE DEF hi, lo
<1>12. v1 * v2 < W * W
  BY <1>2, HalfProduct DEF Reg
<1>13. hi % W = hi /\ hi < W
  BY <1>10, <1>11, <1>12, UpperDigit
<1> QED
  BY <1>1, <1>10, <1>11, <1>13 DEF Reg

-----------------------------------------------------------------------------
Pair(p) == p.hi * W + p.lo

IsPair(p) == p.hi \in Reg /\ p.lo \in Reg

(* The two's complement of a pair: ~lo + 1, and a carry when that is 0.     *)
LEMMA NegatedFact ==
    ASSUME NEW p, IsPair(p)
    PROVE  IsPair(Negated(p)) /\ Pair(Negated(p)) = (-Pair(p)) % (W * W)
<1> DEFINE lo == (W - 1 - p.lo + 1) % W
           c == IF p.lo = 0 THEN 0 ELSE 1
           h == W - 1 - p.hi + (IF lo = 0 THEN 1 ELSE 0)
           g == 0 - c - p.hi
<1> USE WordFact
<1> HIDE DEF W
<1>1. p.hi \in 0 .. W - 1 /\ p.lo \in 0 .. W - 1
  BY DEF IsPair, Reg
<1>2. Negated(p).lo = lo /\ Negated(p).hi = h % W
  BY DEF Negated, Unsigned, Complement
<1>3. lo \in 0 .. W - 1 /\ 0 - p.lo = lo - c * W /\ (lo = 0 <=> p.lo = 0)
  <2>1. CASE p.lo = 0
    <3>1. W - 1 - p.lo + 1 = W /\ W % W = 0
      BY <1>1, <2>1
    <3> QED
      BY <2>1, <3>1
  <2>2. CASE p.lo # 0
    <3>1. W - 1 - p.lo + 1 = W - p.lo /\ W - p.lo \in 1 .. W - 1
      BY <1>1, <2>2
    <3>2. lo = W - p.lo
      BY <3>1
    <3> QED
      BY <1>1, <2>2, <3>1, <3>2
  <2> QED
    BY <2>1, <2>2
<1>4. h % W = g % W
  <2>1. g \in Int /\ h = g + 1 * W
    <3> HIDE DEF lo
    <3>1. CASE p.lo = 0
      BY <1>1, <1>3, <3>1
    <3>2. CASE p.lo # 0
      BY <1>1, <1>3, <3>2
    <3> QED
      BY <3>1, <3>2
  <2> DEFINE one == 1
  <2>2. one \in Int
    OBVIOUS
  <2> HIDE DEF h, g, one
  <2>3. (g + one * W) % W = g % W
    BY <2>1, <2>2, ModShift
  <2> QED
    BY <2>1, <2>3 DEF one
<1>5. /\ g % W \in 0 .. W - 1
      /\ (g % W) * W + lo = (-(p.hi * W + p.lo)) % (W * W)
  <2> DEFINE h2 == p.hi  l2 == p.lo  w == W
             hi == g % w  pair == hi * w + lo  total == -(h2 * w + l2)  ww == w * w
  <2>1. c \in {0, 1} /\ c * w = lo + l2 /\ g = -(c + h2) /\ g \in Int /\ w \in Nat \ {0}
    <3>1. c \in {0, 1} /\ g = -(c + h2) /\ g \in Int /\ w \in Nat \ {0}
      BY <1>1
    <3>2. c * w = lo + l2
      <4> DEFINE a == c * w
      <4>1. a \in Int /\ 0 - l2 = lo - a /\ l2 \in Int /\ lo \in Int
        <5> HIDE DEF lo, c, g, h
        <5>1. c \in Int /\ w \in Int
          BY <3>1
        <5>2. a \in Int
          <6> HIDE DEF w
          <6> QED
            BY <5>1
        <5> QED
          BY <1>1, <1>3, <5>2
      <4> HIDE DEF a, lo, l2
      <4>2. a = lo + l2
        BY <4>1
      <4> QED
        BY <4>2 DEF a
    <3> QED
      BY <3>1, <3>2
  <2>2. h2 \in 0 .. w - 1 /\ l2 \in 0 .. w - 1 /\ lo \in 0 .. w - 1
    BY <1>1, <1>3
  <2> HIDE WordFact
  <2> HIDE DEF lo, c, g, h, h2, l2, w
  <2>3. PICK q \in Int : g = q * w + hi
    BY <2>1, ModSplit
  <2>4. hi \in 0 .. w - 1
    BY <2>1, ModSplit
  <2> HIDE DEF hi
  <2>5. total = g * w + lo
    BY <2>1, <2>2, Z3
  <2>6. g * w + lo = q * (w * w) + pair
    BY <2>1, <2>2, <2>3, <2>4, Z3
  <2>7. pair \in 0 .. ww - 1 /\ ww \in Nat \ {0}
    BY <2>1, <2>2, <2>4, PairRange
  <2>8. total \in Int /\ total = q * ww + pair
    BY <2>1, <2>2, <2>5, <2>6, Z3
  <2> HIDE DEF total, pair, ww
  <2>9. total % ww = pair
    BY <2>7, <2>8, ModUnique
  <2> QED
    BY <2>4, <2>9 DEF hi, total, pair, ww, h2, l2, w
<1> HIDE DEF lo, h, g
<1> QED
  BY <1>2, <1>3, <1>4, <1>5 DEF IsPair, Pair, Reg

LEMMA SignedFact ==
    ASSUME NEW v \in Reg
    PROVE  /\ SIGN_BIT(v) <=> Signed(v) < 0
           /\ Signed(v) \in Int /\ Magnitude(v) \in Reg
           /\ Magnitude(v) = IF Signed(v) < 0 THEN -Signed(v) ELSE Signed(v)
<1> USE WordFact, HalfWord
<1> HIDE DEF W
<1>1. v \in 0 .. W - 1
  BY DEF Reg
<1>2. CASE v >= W \div 2
  <2>1. Signed(v) = v - W /\ -Signed(v) = W - v /\ W - v \in 1 .. W - 1
    BY <1>1, <1>2 DEF Signed
  <2>2. (W - v) % W = W - v
    BY <2>1
  <2> QED
    BY <1>1, <1>2, <2>1, <2>2 DEF SIGN_BIT, Magnitude, Unsigned, Reg
<1>3. CASE v < W \div 2
  BY <1>1, <1>3 DEF SIGN_BIT, Magnitude, Signed, Reg
<1> QED
  BY <1>1, <1>2, <1>3

(* signed_multiply puts the exact product of the signed numbers into HI and *)
(* LO, in two's complement, the most negative word included.               *)
THEOREM SignedProductTheorem ==
    ASSUME NEW v1 \in Reg, NEW v2 \in Reg
    PROVE  /\ IsPair(signed_multiply(v1, v2))
           /\ Pair(signed_multiply(v1, v2)) = (Signed(v1) * Signed(v2)) % (W * W)
<1> DEFINE m1 == Magnitude(v1)
           m2 == Magnitude(v2)
           s1 == Signed(v1)
           s2 == Signed(v2)
           p == unsigned_multiply(m1, m2)
           n == m1 * m2
<1>1. /\ m1 \in Reg /\ m2 \in Reg /\ s1 \in Int /\ s2 \in Int
      /\ m1 = (IF s1 < 0 THEN -s1 ELSE s1) /\ m2 = (IF s2 < 0 THEN -s2 ELSE s2)
      /\ (SIGN_BIT(v1) <=> s1 < 0) /\ (SIGN_BIT(v2) <=> s2 < 0)
  BY SignedFact
<1>2. signed_multiply(v1, v2) = IF SIGN_BIT(v1) # SIGN_BIT(v2) THEN Negated(p) ELSE p
  BY DEF signed_multiply
<1> HIDE DEF m1, m2, s1, s2
<1>3. IsPair(p) /\ Pair(p) = n
  BY <1>1, ProductTheorem DEF IsPair, Pair
<1>4. n \in 0 .. W * W - 1 /\ W * W \in Nat \ {0}
  <2>1. p.hi \in 0 .. W - 1 /\ p.lo \in 0 .. W - 1 /\ n = p.hi * W + p.lo
    BY <1>3 DEF IsPair, Pair, Reg
  <2> HIDE DEF p, n, W
  <2> QED
    BY <2>1, PairRange, WordFact
<1> HIDE DEF p
<1>5. CASE (s1 < 0) = (s2 < 0)
  <2>1. s1 * s2 = n
    BY <1>1, <1>5, Z3
  <2>2. n % (W * W) = n
    <3> HIDE DEF n, W
    <3> DEFINE ww == W * W
    <3> HIDE DEF ww
    <3>1. n \in 0 .. ww - 1 /\ ww \in Nat \ {0}
      BY <1>4 DEF ww
    <3>2. n % ww = n
      BY <3>1
    <3> QED
      BY <3>2 DEF ww
  <2>3. signed_multiply(v1, v2) = p
    BY <1>1, <1>2, <1>5 DEF SIGN_BIT
  <2> QED
    BY <1>3, <2>1, <2>2, <2>3 DEF s1, s2
<1>6. CASE (s1 < 0) # (s2 < 0)
  <2>1. s1 * s2 = -n
    BY <1>1, <1>6, Z3
  <2>2. IsPair(Negated(p)) /\ Pair(Negated(p)) = (-n) % (W * W)
    BY <1>3, NegatedFact
  <2>3. signed_multiply(v1, v2) = Negated(p)
    BY <1>1, <1>2, <1>6
  <2> QED
    BY <2>1, <2>2, <2>3 DEF s1, s2
<1> QED
  BY <1>5, <1>6

-----------------------------------------------------------------------------
(* The pair that the code computes is the product the accumulator names.    *)
LEMMA MultipliedFact ==
    ASSUME rs \in Reg, rt \in Reg, NEW signed \in BOOLEAN
    PROVE  /\ IsPair(Multiplied(signed)) /\ Exact!Product(signed) \in Int
           /\ Pair(Multiplied(signed)) = Exact!Product(signed) % (W * W)
<1>1. \A v \in Reg : Exact!AsSigned(v) = Signed(v) /\ Signed(v) \in Int /\ v \in Int
  <2> SUFFICES ASSUME NEW v \in Reg PROVE Exact!AsSigned(v) = Signed(v) /\ Signed(v) \in Int /\ v \in Int
    OBVIOUS
  <2> HIDE DEF W
  <2> QED
    BY WordFact, HalfWord DEF Exact!AsSigned, Signed, Reg
<1>2. CASE signed
  <2>1. Exact!Product(signed) = Signed(rs) * Signed(rt)
    BY <1>1, <1>2 DEF Exact!Product
  <2>2. Multiplied(signed) = signed_multiply(rs, rt)
    BY <1>2 DEF Multiplied
  <2>3. Signed(rs) * Signed(rt) \in Int
    BY <1>1
  <2> QED
    BY <2>1, <2>2, <2>3, SignedProductTheorem
<1>3. CASE ~signed
  <2> DEFINE p == unsigned_multiply(rs, rt)
             n == rs * rt
             ww == W * W
  <2>1. Exact!Product(signed) = n /\ Multiplied(signed) = p /\ n \in Int
    BY <1>1, <1>3 DEF Exact!Product, Multiplied
  <2>2. IsPair(p) /\ Pair(p) = n
    BY ProductTheorem DEF IsPair, Pair
  <2>3. p.hi \in 0 .. W - 1 /\ p.lo \in 0 .. W - 1 /\ n = p.hi * W + p.lo
    BY <2>2 DEF IsPair, Pair, Reg
  <2> HIDE DEF p, n, W
  <2>4. n \in 0 .. ww - 1 /\ ww \in Nat \ {0}
    BY <2>3, PairRange, WordFact
  <2> HIDE DEF ww
  <2>5. n % ww = n
    BY <2>4
  <2> QED
    BY <2>1, <2>2, <2>5 DEF ww
<1> QED
  BY <1>2, <1>3

LEMMA PairType ==
    ASSUME NEW p, IsPair(p)
    PROVE  Pair(p) \in Int /\ W * W \in Nat \ {0}
<1>1. p.hi \in 0 .. W - 1 /\ p.lo \in 0 .. W - 1
  BY DEF IsPair, Reg
<1> HIDE DEF W
<1>2. p.hi * W + p.lo \in 0 .. W * W - 1 /\ W * W \in Nat \ {0}
  BY <1>1, PairRange, WordFact
<1> QED
  BY <1>2 DEF Pair

(* The comparison with which madd and maddu find the carry of the low word. *)
LEMMA AddedFact ==
    ASSUME NEW q, IsPair(q), NEW p, IsPair(p)
    PROVE  LET lo == Unsigned(q.lo + p.lo)
               hi == Unsigned(q.hi + Carry(lo, p.lo, q.lo) + p.hi)
           IN  /\ hi \in Reg /\ lo \in Reg
               /\ hi * W + lo = (Pair(q) + Pair(p)) % (W * W)
<1> DEFINE w == W
           h1 == q.hi  l1 == q.lo  h2 == p.hi  l2 == p.lo
           lo == (l1 + l2) % w
           c == Carry(lo, l2, l1)
<1>1. /\ h1 \in 0 .. w - 1 /\ l1 \in 0 .. w - 1
      /\ h2 \in 0 .. w - 1 /\ l2 \in 0 .. w - 1 /\ w \in Nat \ {0}
  BY WordFact DEF IsPair, Reg
<1> HIDE DEF w, h1, l1, h2, l2
<1>2. l1 + l2 = l2 + l1
  BY <1>1
<1>3. c \in {0, 1} /\ lo \in 0 .. w - 1 /\ l2 + l1 = lo + c * w
  BY <1>1, <1>2, CarryFact
<1> HIDE DEF lo, c
<1>4. l1 + l2 = lo + c * w
  BY <1>2, <1>3
<1>5. /\ (h1 + c + h2) % w \in 0 .. w - 1
      /\ ((h1 + c + h2) % w) * w + lo = ((h1 * w + l1) + (h2 * w + l2)) % (w * w)
  BY <1>1, <1>3, <1>4, PairSum
<1> QED
  BY <1>3, <1>5 DEF w, h1, l1, h2, l2, lo, c, Unsigned, Reg, Pair

(* The comparison with which msub and msubu find the borrow.                *)
LEMMA BorrowFact ==
    ASSUME NEW w \in Nat, NEW p \in 0 .. w - 1, NEW q \in 0 .. w - 1
    PROVE  /\ (p - q) % w \in 0 .. w - 1
           /\ Borrow(p, q) \in {0, 1}
           /\ p - q = ((p - q) % w) - Borrow(p, q) * w
<1>1. CASE q > p
  <2>1. (p - q) % w = p - q + w
    BY <1>1
  <2> QED
    BY <1>1, <2>1 DEF Borrow
<1>2. CASE q <= p
  <2>1. (p - q) % w = p - q
    BY <1>2
  <2> QED
    BY <1>2, <2>1 DEF Borrow
<1> QED
  BY <1>1, <1>2

LEMMA SubtractedFact ==
    ASSUME NEW q, IsPair(q), NEW p, IsPair(p)
    PROVE  LET lo == Unsigned(q.lo - p.lo)
               hi == Unsigned(q.hi - Borrow(q.lo, p.lo) - p.hi)
           IN  /\ hi \in Reg /\ lo \in Reg
               /\ hi * W + lo = (Pair(q) - Pair(p)) % (W * W)
<1> DEFINE w == W
           h1 == q.hi  l1 == q.lo  h2 == p.hi  l2 == p.lo
           lo == (l1 - l2) % w
           c == Borrow(l1, l2)
<1>1. /\ h1 \in 0 .. w - 1 /\ l1 \in 0 .. w - 1
      /\ h2 \in 0 .. w - 1 /\ l2 \in 0 .. w - 1 /\ w \in Nat \ {0}
  BY WordFact DEF IsPair, Reg
<1> HIDE DEF w, h1, l1, h2, l2
<1>2. c \in {0, 1} /\ lo \in 0 .. w - 1 /\ l1 - l2 = lo - c * w
  BY <1>1, BorrowFact
<1> HIDE DEF lo, c
<1>3. /\ (h1 - c - h2) % w \in 0 .. w - 1
      /\ ((h1 - c - h2) % w) * w + lo = ((h1 * w + l1) - (h2 * w + l2)) % (w * w)
  BY <1>1, <1>2, PairDifference
<1> QED
  BY <1>2, <1>3 DEF w, h1, l1, h2, l2, lo, c, Unsigned, Reg, Pair

(* mult, madd, msub and their unsigned forms are steps of the accumulator,   *)
(* and keep HI and LO words, for every width.                              *)
THEOREM MultiplyStepsTheorem ==
    ASSUME {rs, rt, HI, LO} \subseteq Reg, NEW op, NEW signed \in BOOLEAN
    PROVE  /\ Mult(op, signed) => Exact!Multiply(op, signed) /\ {HI', LO'} \subseteq Reg
           /\ Madd(op, signed) => Exact!MultiplyAdd(op, signed) /\ {HI', LO'} \subseteq Reg
           /\ Msub(op, signed) => Exact!MultiplySub(op, signed) /\ {HI', LO'} \subseteq Reg
<1> DEFINE p == Multiplied(signed)
           n == Exact!Product(signed)
           q == [hi |-> HI, lo |-> LO]
           acc == Pair(q)
           b == Pair(p)
           ww == W * W
<1>1. IsPair(p) /\ n \in Int /\ b = n % ww
  BY MultipliedFact
<1>2. IsPair(q) /\ acc = HI * W + LO
  BY DEF IsPair, Pair
<1>3. acc \in Int /\ ww \in Nat \ {0}
  BY <1>2, PairType
<1>4. (acc + b) % ww = (acc + n) % ww /\ (acc - b) % ww = (acc - n) % ww
  <2> HIDE DEF acc, n, ww
  <2>1. /\ (acc + (n % ww)) % ww = (acc + n) % ww
        /\ (acc - (n % ww)) % ww = (acc - n) % ww
    BY <1>1, <1>3, ModAdd
  <2> QED
    BY <1>1, <2>1
<1> HIDE DEF n
<1>5. ASSUME Mult(op, signed)
      PROVE  Exact!Multiply(op, signed) /\ {HI', LO'} \subseteq Reg
  <2>1. HI' = p.hi /\ LO' = p.lo /\ done' = <<op, 0>> /\ UNCHANGED <<rs, rt>>
    BY <1>5 DEF Mult, Writes
  <2>2. HI' * W + LO' = n % (W * W)
    BY <1>1, <2>1 DEF Pair
  <2> QED
    BY <1>1, <2>1, <2>2 DEF Exact!Multiply, Exact!Becomes, Exact!Does, IsPair, n
<1>6. ASSUME Madd(op, signed)
      PROVE  Exact!MultiplyAdd(op, signed) /\ {HI', LO'} \subseteq Reg
  <2>1. /\ LO' = Unsigned(LO + p.lo)
        /\ HI' = Unsigned(HI + Carry(Unsigned(LO + p.lo), p.lo, LO) + p.hi)
        /\ done' = <<op, 0>> /\ UNCHANGED <<rs, rt>>
    BY <1>6 DEF Madd, Writes
  <2>2. /\ HI' \in Reg /\ LO' \in Reg
        /\ HI' * W + LO' = (acc + b) % ww
    <3> HIDE DEF p
    <3> QED
      BY <1>1, <1>2, <2>1, AddedFact
  <2>3. HI' * W + LO' = ((HI * W + LO) + n) % (W * W)
    BY <1>2, <1>4, <2>2
  <2> QED
    BY <2>1, <2>2, <2>3 DEF Exact!MultiplyAdd, Exact!Becomes, Exact!Does, n
<1>7. ASSUME Msub(op, signed)
      PROVE  Exact!MultiplySub(op, signed) /\ {HI', LO'} \subseteq Reg
  <2>1. /\ LO' = Unsigned(LO - p.lo)
        /\ HI' = Unsigned(HI - Borrow(LO, p.lo) - p.hi)
        /\ done' = <<op, 0>> /\ UNCHANGED <<rs, rt>>
    BY <1>7 DEF Msub, Writes
  <2>2. /\ HI' \in Reg /\ LO' \in Reg
        /\ HI' * W + LO' = (acc - b) % ww
    <3> HIDE DEF p
    <3> QED
      BY <1>1, <1>2, <2>1, SubtractedFact
  <2>3. HI' * W + LO' = ((HI * W + LO) - n) % (W * W)
    BY <1>2, <1>4, <2>2
  <2> QED
    BY <2>1, <2>2, <2>3 DEF Exact!MultiplySub, Exact!Becomes, Exact!Does, n
<1> QED
  BY <1>5, <1>6, <1>7

-----------------------------------------------------------------------------
(* C's division is the one the accumulator describes, and the only one.     *)
LEMMA DivisionFact ==
    ASSUME NEW n \in Int, NEW d \in Int, d # 0
    PROVE  /\ Quotient(n, d) \in Int /\ Remainder(n, d) \in Int
           /\ -Abs(n) <= Quotient(n, d) /\ Quotient(n, d) <= Abs(n)
           /\ Exact!Divides(n, d, Quotient(n, d), Remainder(n, d))
<1> DEFINE an == Abs(n)
           ad == Abs(d)
           q == an \div ad
           r == an % ad
           quo == Quotient(n, d)
           rem == Remainder(n, d)
<1>1. an \in Nat /\ ad \in Nat \ {0} /\ (an = IF n < 0 THEN -n ELSE n) /\ (ad = IF d < 0 THEN -d ELSE d)
  BY DEF Abs
<1> HIDE DEF an, ad
<1>2. q \in Nat /\ r \in 0 .. ad - 1 /\ an = q * ad + r
  <2> HIDE DEF quo, rem
  <2>1. an \in Nat /\ ad \in Nat \ {0}
    BY <1>1
  <2>2. an \div ad \in Nat /\ an % ad \in 0 .. ad - 1 /\ an = (an \div ad) * ad + (an % ad)
    BY ONLY <2>1, SplitFact
  <2> QED
    BY ONLY <2>2
<1>3. q <= an
  <2> HIDE DEF q, r
  <2> QED
    BY <1>1, <1>2, Z3
<1>4. (quo = IF (n < 0) = (d < 0) THEN q ELSE -q) /\ rem = n - quo * d
  BY DEF Quotient, Remainder, an, ad
<1> HIDE DEF q, r, quo, rem
<1>5. rem = IF n < 0 THEN -r ELSE r
  <2>1. CASE n < 0 /\ d < 0
    BY <1>1, <1>2, <1>4, <2>1, Z3
  <2>2. CASE n < 0 /\ d > 0
    BY <1>1, <1>2, <1>4, <2>2, Z3
  <2>3. CASE n >= 0 /\ d < 0
    BY <1>1, <1>2, <1>4, <2>3, Z3
  <2>4. CASE n >= 0 /\ d > 0
    BY <1>1, <1>2, <1>4, <2>4, Z3
  <2> QED
    BY <2>1, <2>2, <2>3, <2>4
<1>6. quo \in Int /\ rem \in Int /\ -an <= quo /\ quo <= an
  BY <1>1, <1>2, <1>3, <1>4, <1>5
<1>7. n = 0 => r = 0
  <2> SUFFICES ASSUME n = 0 PROVE r = 0
    OBVIOUS
  <2>1. an = 0
    BY <1>1
  <2> QED
    BY <1>1, <1>2, <2>1, Z3
<1>8. n = quo * d + rem
  <2>1. quo * d \in Int
    BY <1>6, Z3
  <2> DEFINE k == quo * d
  <2> HIDE DEF k
  <2>2. n = k + rem
    BY <1>4, <2>1 DEF k
  <2> QED
    BY <2>2 DEF k
<1>9. Exact!Divides(n, d, quo, rem)
  BY <1>1, <1>2, <1>5, <1>7, <1>8 DEF Exact!Divides
<1> QED
  BY <1>6, <1>9 DEF quo, rem, an

LEMMA DivisionUnique ==
    ASSUME NEW n \in Int, NEW d \in Int, d # 0, NEW q1 \in Int, NEW q2 \in Int,
           Exact!Divides(n, d, q1, n - q1 * d), Exact!Divides(n, d, q2, n - q2 * d)
    PROVE  q1 = q2
<1> DEFINE r1 == n - q1 * d
           r2 == n - q2 * d
<1>1. r1 \in Int /\ r2 \in Int /\ (q1 - q2) * d = r2 - r1
  BY Z3
<1>2. /\ (d > 0 => -d < r1 /\ r1 < d /\ -d < r2 /\ r2 < d)
      /\ (d < 0 => d < r1 /\ r1 < -d /\ d < r2 /\ r2 < -d)
      /\ (n >= 0 => r1 >= 0 /\ r2 >= 0) /\ (n <= 0 => r1 <= 0 /\ r2 <= 0)
  BY DEF Exact!Divides
<1> HIDE DEF r1, r2
<1>3. (d > 0 => -d < r2 - r1 /\ r2 - r1 < d) /\ (d < 0 => d < r2 - r1 /\ r2 - r1 < -d)
  BY <1>1, <1>2
<1>4. ~(q1 - q2 >= 1) /\ ~(q1 - q2 <= -1)
  BY <1>1, <1>3, Z3
<1> QED
  BY <1>4

(* Every register is a word, and so is everything a step reads.             *)
HoldWords == {rs, rt, HI, LO} \subseteq Reg

LEMMA AccumulatorRange ==
    ASSUME NEW h \in Reg, NEW l \in Reg
    PROVE  /\ h * W + l \in 0 .. W * W - 1
           /\ (h * W + l) % (W * W) = h * W + l
           /\ (h * W + l) % W = l /\ (h * W + l) \div W = h
<1> DEFINE w == W
           n == h * w + l
           ww == w * w
<1>1. h \in 0 .. w - 1 /\ l \in 0 .. w - 1 /\ w \in Nat \ {0}
  BY WordFact DEF Reg
<1> HIDE DEF w
<1>2. n \in 0 .. ww - 1 /\ ww \in Nat \ {0}
  BY <1>1, PairRange
<1>3. n % w = l /\ n \div w = h
  BY <1>1, Digits
<1> HIDE DEF n, ww
<1>4. n % ww = n
  BY <1>2
<1> QED
  BY <1>2, <1>3, <1>4 DEF n, ww, w

LEMMA SignedRange ==
    ASSUME NEW v \in Reg
    PROVE  /\ Exact!AsSigned(v) = Signed(v) /\ Signed(v) \in Int /\ v \in Nat
           /\ -W <= 2 * Signed(v) /\ 2 * Signed(v) < W
           /\ (Signed(v) = 0 <=> v = 0) /\ v < W
<1> HIDE DEF W
<1> QED
  BY WordFact, HalfWord DEF Exact!AsSigned, Signed, Reg

-----------------------------------------------------------------------------
(* mul also writes the low word, which is the product modulo the width.     *)
LEMMA MulStep ==
    ASSUME HoldWords, Mul
    PROVE  Exact!MultiplyWord /\ HoldWords' /\ done'[2] \in Reg
<1> DEFINE p == Multiplied(TRUE)
           n == Exact!Product(TRUE)
<1>1. rs \in Reg /\ rt \in Reg
  BY DEF HoldWords
<1>2. IsPair(p) /\ n \in Int /\ Pair(p) = n % (W * W)
  BY <1>1, MultipliedFact
<1>3. HI' = p.hi /\ LO' = p.lo /\ done' = <<"mul", p.lo>> /\ UNCHANGED <<rs, rt>>
  BY DEF Mul, Writes
<1>4. n % W = p.lo
  <2> DEFINE w == W
  <2>1. p.hi \in 0 .. w - 1 /\ p.lo \in 0 .. w - 1 /\ n % (w * w) = p.hi * w + p.lo
    BY <1>2 DEF IsPair, Pair, Reg
  <2>2. w \in Nat \ {0}
    BY WordFact
  <2> HIDE DEF w, p, n
  <2>3. n % w = p.lo
    BY <1>2, <2>1, <2>2, LowDigit
  <2> QED
    BY <2>3 DEF w
<1>5. HI' * W + LO' = n % (W * W)
  BY <1>2, <1>3 DEF Pair
<1> QED
  BY <1>1, <1>2, <1>3, <1>4, <1>5 DEF Exact!MultiplyWord, Exact!Becomes, Exact!Does, HoldWords, IsPair

LEMMA UnsignedType == \A n \in Int : Unsigned(n) \in Reg
<1> SUFFICES ASSUME NEW n \in Int PROVE Unsigned(n) \in Reg
  OBVIOUS
<1> HIDE DEF W
<1> QED
  BY WordFact DEF Unsigned, Reg

(* Both divisions, where the architecture defines them.                     *)
LEMMA DivideStep ==
    ASSUME HoldWords, NEW op, NEW signed \in BOOLEAN,
           op = (IF signed THEN "div" ELSE "divu"),
           DivideBy(op, IF signed THEN Signed(rs) ELSE rs, IF signed THEN Signed(rt) ELSE rt)
    PROVE  Exact!Divide(op, signed) /\ HoldWords' /\ done'[2] = 0
<1> DEFINE n == IF signed THEN Signed(rs) ELSE rs
           d == IF signed THEN Signed(rt) ELSE rt
           q == CHOOSE k \in -W .. W : Exact!Divides(n, d, k, n - k * d)
           quo == Quotient(n, d)
           rem == Remainder(n, d)
<1>1. rs \in Reg /\ rt \in Reg /\ HI \in Reg /\ LO \in Reg
  BY DEF HoldWords
<1>2. /\ n = (IF signed THEN Exact!AsSigned(rs) ELSE rs)
      /\ d = (IF signed THEN Exact!AsSigned(rt) ELSE rt)
      /\ n \in Int /\ d \in Int /\ (d = 0 <=> rt = 0) /\ -W <= n /\ n <= W
  <2> HIDE DEF W
  <2> QED
    BY <1>1, SignedRange, WordFact
<1>3. Exact!Divide(op, signed) <=>
        IF <<op, rs, rt>> \in NotDivided
        THEN Exact!Does(op) /\ HI' * W + LO' \in 0 .. W * W - 1
        ELSE Exact!Becomes(op, ((n - q * d) % W) * W + (q % W), 0)
  BY <1>2 DEF Exact!Divide
<1>4. <<op, rs, rt>> \in NotDivided <=> ~Divisible
  BY <1>1 DEF NotDivided, Divisible
<1>5. CASE Divisible
  <2>1. HI' = Unsigned(rem) /\ LO' = Unsigned(quo) /\ done' = <<op, 0>> /\ UNCHANGED <<rs, rt>>
    BY <1>5 DEF DivideBy, Writes
  <2>2. d # 0
    BY <1>2, <1>5 DEF Divisible
  <2> HIDE DEF n, d
  <2>3. /\ quo \in Int /\ rem \in Int /\ rem = n - quo * d
        /\ quo \in -W .. W /\ Exact!Divides(n, d, quo, n - quo * d)
    <3>1. rem = n - quo * d
      BY DEF Remainder
    <3>2. -Abs(n) <= quo /\ quo <= Abs(n) /\ quo \in Int /\ Abs(n) <= W /\ Abs(n) \in Int
      <4> HIDE DEF W, quo
      <4>1. Abs(n) <= W /\ Abs(n) \in Int
        BY <1>2, WordFact DEF Abs
      <4> QED
        BY <1>2, <2>2, <4>1, DivisionFact DEF quo
    <3>3. Exact!Divides(n, d, quo, n - quo * d) /\ rem \in Int
      BY <1>2, <2>2, <3>1, DivisionFact
    <3> HIDE DEF W, quo, rem
    <3> QED
      BY <3>1, <3>2, <3>3, WordFact
  <2> HIDE DEF quo, rem, W
  <2>4. q \in -W .. W /\ Exact!Divides(n, d, q, n - q * d)
    BY <2>3
  <2>5. q = quo
    <3> HIDE DEF q
    <3>1. q \in Int
      BY <2>4, WordFact
    <3> QED
      BY <1>2, <2>2, <2>3, <2>4, <3>1, DivisionUnique
  <2> HIDE DEF q
  <2>6. Unsigned(rem) \in Reg /\ Unsigned(quo) \in Reg
    BY <2>3, UnsignedType
  <2>7. (Unsigned(rem) * W + Unsigned(quo)) % (W * W) = Unsigned(rem) * W + Unsigned(quo)
    BY <2>6, AccumulatorRange
  <2>8. HI' * W + LO' = (((n - q * d) % W) * W + (q % W)) % (W * W)
    BY <2>1, <2>3, <2>5, <2>7 DEF Unsigned
  <2>9. Exact!Becomes(op, ((n - q * d) % W) * W + (q % W), 0)
    BY <2>1, <2>8 DEF Exact!Becomes, Exact!Does
  <2> QED
    BY <1>1, <1>3, <1>4, <1>5, <2>1, <2>6, <2>9 DEF HoldWords
<1>6. CASE ~Divisible
  <2>1. done' = <<op, 0>> /\ UNCHANGED <<rs, rt, HI, LO>>
    BY <1>6 DEF DivideBy, WritesOnly
  <2>2. HI' * W + LO' \in 0 .. W * W - 1
    BY <1>1, <2>1, AccumulatorRange
  <2> QED
    BY <1>1, <1>3, <1>4, <1>6, <2>1, <2>2 DEF Exact!Does, HoldWords
<1> QED
  BY <1>5, <1>6

(* The overflow tests of add and sub are exact: the wrapped sum has the      *)
(* wrong sign just when the signed sum does not fit a word.                *)
LEMMA AddStep ==
    ASSUME HoldWords, Add
    PROVE  Exact!Trapping("add", Exact!AsSigned(rs) + Exact!AsSigned(rt)) /\ HoldWords' /\ done'[2] \in Reg \cup {Overflow}
<1> DEFINE n == Signed(rs) + Signed(rt)
           s == Unsigned(rs + rt)
           w == W
           h == w \div 2
<1>1. rs \in 0 .. w - 1 /\ rt \in 0 .. w - 1 /\ w \in Nat \ {0} /\ h \in Nat /\ w = 2 * h
  BY WordFact, HalfWord DEF HoldWords, Reg
<1>2. done' = <<"add", IF ARITH_OVFL(s, rs, rt) THEN Overflow ELSE s>> /\ UNCHANGED <<rs, rt, HI, LO>>
  BY DEF Add, WritesOnly
<1>3. /\ s = (rs + rt) % w /\ n \in Int
      /\ Signed(rs) = (IF rs >= h THEN rs - w ELSE rs) /\ Signed(rt) = (IF rt >= h THEN rt - w ELSE rt)
      /\ ARITH_OVFL(s, rs, rt) <=> (rs >= h <=> rt >= h) /\ ~(rs >= h <=> s >= h)
      /\ Exact!Fits(n) <=> -w <= 2 * n /\ 2 * n < w
  BY <1>1 DEF Signed, Unsigned, ARITH_OVFL, SIGN_BIT, Exact!Fits
<1> HIDE DEF w, h, s, n
<1>4. n % w = s
  <2> DEFINE m == rs + rt
  <2>1. PICK k \in Int : n = m + k * w
    <3>1. n = m + 0 * w \/ n = m + (-1) * w \/ n = m + (-2) * w
      BY <1>1, <1>3 DEF n
    <3> QED
      BY <3>1
  <2>2. m \in Int
    BY <1>1
  <2> HIDE DEF m
  <2>3. (m + k * w) % w = m % w
    BY <1>1, <2>2, ModShift
  <2> QED
    BY <1>3, <2>1, <2>3 DEF m
<1>5. ARITH_OVFL(s, rs, rt) <=> ~Exact!Fits(n)
  <2>1. s = IF rs + rt >= w THEN rs + rt - w ELSE rs + rt
    BY <1>1, <1>3
  <2> QED
    BY <1>1, <1>3, <2>1 DEF n
<1>6. Exact!AsSigned(rs) + Exact!AsSigned(rt) = n
  BY <1>1, SignedRange DEF n, w, Reg
<1>7. s \in Reg
  BY <1>1, <1>3 DEF w, Reg
<1>8. done'[2] = IF Exact!Fits(n) THEN n % W ELSE Overflow
  BY <1>2, <1>4, <1>5 DEF w
<1> QED
  BY <1>2, <1>6, <1>7, <1>8 DEF Exact!Trapping, Exact!Does, HoldWords

LEMMA SubStep ==
    ASSUME HoldWords, Sub
    PROVE  Exact!Trapping("sub", Exact!AsSigned(rs) - Exact!AsSigned(rt)) /\ HoldWords' /\ done'[2] \in Reg \cup {Overflow}
<1> DEFINE n == Signed(rs) - Signed(rt)
           s == Unsigned(rs - rt)
           w == W
           h == w \div 2
<1>1. rs \in 0 .. w - 1 /\ rt \in 0 .. w - 1 /\ w \in Nat \ {0} /\ h \in Nat /\ w = 2 * h
  BY WordFact, HalfWord DEF HoldWords, Reg
<1>2. done' = <<"sub", IF SubOverflow(s, rs, rt) THEN Overflow ELSE s>> /\ UNCHANGED <<rs, rt, HI, LO>>
  BY DEF Sub, WritesOnly
<1>3. /\ s = (rs - rt) % w /\ n \in Int
      /\ Signed(rs) = (IF rs >= h THEN rs - w ELSE rs) /\ Signed(rt) = (IF rt >= h THEN rt - w ELSE rt)
      /\ SubOverflow(s, rs, rt) <=> ~(rs >= h <=> rt >= h) /\ ~(rs >= h <=> s >= h)
      /\ Exact!Fits(n) <=> -w <= 2 * n /\ 2 * n < w
  BY <1>1 DEF Signed, Unsigned, SubOverflow, SIGN_BIT, Exact!Fits
<1> HIDE DEF w, h, s, n
<1>4. n % w = s
  <2> DEFINE m == rs - rt
  <2>1. PICK k \in Int : n = m + k * w
    <3>1. n = m + 0 * w \/ n = m + (-1) * w \/ n = m + 1 * w
      BY <1>1, <1>3 DEF n
    <3> QED
      BY <3>1
  <2>2. m \in Int
    BY <1>1
  <2> HIDE DEF m
  <2>3. (m + k * w) % w = m % w
    BY <1>1, <2>2, ModShift
  <2> QED
    BY <1>3, <2>1, <2>3 DEF m
<1>5. SubOverflow(s, rs, rt) <=> ~Exact!Fits(n)
  <2>1. s = IF rs - rt < 0 THEN rs - rt + w ELSE rs - rt
    BY <1>1, <1>3
  <2> QED
    BY <1>1, <1>3, <2>1 DEF n
<1>6. Exact!AsSigned(rs) - Exact!AsSigned(rt) = n
  BY <1>1, SignedRange DEF n, w, Reg
<1>7. s \in Reg
  BY <1>1, <1>3 DEF w, Reg
<1>8. done'[2] = IF Exact!Fits(n) THEN n % W ELSE Overflow
  BY <1>2, <1>4, <1>5 DEF w
<1> QED
  BY <1>2, <1>6, <1>7, <1>8 DEF Exact!Trapping, Exact!Does, HoldWords

LEMMA MoveSteps ==
    ASSUME HoldWords
    PROVE  /\ Mthi => Exact!Move("mthi") /\ HoldWords' /\ done'[2] = 0
           /\ Mtlo => Exact!Move("mtlo") /\ HoldWords' /\ done'[2] = 0
<1>1. (HI * W + LO) % W = LO /\ (HI * W + LO) \div W = HI
  BY AccumulatorRange DEF HoldWords
<1>2. ASSUME Mthi PROVE Exact!Move("mthi") /\ HoldWords' /\ done'[2] = 0
  BY <1>1, <1>2 DEF Mthi, Writes, Exact!Move, Exact!Does, HoldWords
<1>3. ASSUME Mtlo PROVE Exact!Move("mtlo") /\ HoldWords' /\ done'[2] = 0
  BY <1>1, <1>3 DEF Mtlo, Writes, Exact!Move, Exact!Does, HoldWords
<1> QED
  BY <1>2, <1>3

-----------------------------------------------------------------------------
(* The powers the accumulator counts with are these.                        *)
LEMMA SamePowers == \A n \in Nat : Exact!Pow2[n] = Pow2[n]
<1> DEFINE Def(v, n) == 2 * v
           S == {n \in Nat : Exact!Pow2[n] = Pow2[n]}
<1>1. NatInductiveDefHypothesis(Exact!Pow2, 1, Def)
  BY DEF Exact!Pow2, NatInductiveDefHypothesis
<1> HIDE DEF Def
<1>2. NatInductiveDefConclusion(Exact!Pow2, 1, Def)
  BY <1>1, NatInductiveDef
<1>3. Exact!Pow2 = [n \in Nat |-> IF n = 0 THEN 1 ELSE 2 * Exact!Pow2[n - 1]]
  BY <1>2 DEF NatInductiveDefConclusion, Def
<1> HIDE DEF Exact!Pow2
<1>4. 0 \in S
  BY <1>3, Pow2Steps
<1>5. ASSUME NEW n \in Nat, n \in S PROVE n + 1 \in S
  <2>1. n + 1 \in Nat /\ n + 1 # 0 /\ (n + 1) - 1 = n
    OBVIOUS
  <2>2. Exact!Pow2[n + 1] = 2 * Exact!Pow2[n]
    BY <1>3, <2>1
  <2> QED
    BY <1>5, <2>1, <2>2, Pow2Steps
<1> HIDE DEF S
<1>6. Nat \subseteq S
  BY <1>4, <1>5, SetInduction
<1> QED
  BY <1>6 DEF S

LEMMA WordPower == Bits \in Nat \ {0} /\ Bits = 2 * HalfBits /\ W = Pow2[Bits]
<1>1. HalfBits + HalfBits = Bits /\ Bits = 2 * HalfBits /\ Bits \in Nat \ {0}
  BY WidthAssumption DEF Bits
<1>2. Pow2[HalfBits + HalfBits] = Pow2[HalfBits] * Pow2[HalfBits]
  BY WidthAssumption, Pow2Sum
<1> QED
  BY <1>1, <1>2 DEF W, B

(* clz and clo find the highest bit that differs from the one they count.   *)
LEMMA CountStep ==
    ASSUME HoldWords, NEW op, NEW b \in {0, 1}, WritesOnly(op, Leading(b))
    PROVE  Exact!Counting(op, b) /\ HoldWords' /\ done'[2] \in 0 .. 2 * HalfBits
<1> DEFINE m == Bits
           w == Pow2[m]
           v == IF b = 0 THEN rs ELSE w - 1 - rs
           others == {i \in 0 .. m - 1 : BitOf(rs, i) # b}
           top == IF others = {} THEN -1 ELSE CHOOSE j \in others : \A k \in others : k <= j
           n == m - 1 - top
<1>1. m \in Nat \ {0} /\ m = 2 * HalfBits /\ W = w /\ rs \in 0 .. w - 1 /\ w \in Nat \ {0}
  BY WordPower, WordFact DEF HoldWords, Reg
<1>2. done' = <<op, n>> /\ UNCHANGED <<rs, rt, HI, LO>>
  BY DEF WritesOnly, Leading, Bits
<1> HIDE DEF m
<1>3. v \in 0 .. w - 1 /\ \A i \in 0 .. m - 1 : BitOf(v, i) = IF BitOf(rs, i) = b THEN 0 ELSE 1
  <2>1. \A i \in 0 .. m - 1 : BitOf(rs, i) \in {0, 1} /\ BitOf(w - 1 - rs, i) = 1 - BitOf(rs, i)
    <3> SUFFICES ASSUME NEW i \in 0 .. m - 1
                 PROVE  BitOf(rs, i) \in {0, 1} /\ BitOf(w - 1 - rs, i) = 1 - BitOf(rs, i)
      OBVIOUS
    <3>1. i \in Nat /\ rs \in Int /\ m \in Nat
      BY <1>1
    <3>2. BitOf(rs, i) \in {0, 1}
      BY <3>1, AboveType
    <3>3. BitOf(Pow2[m] - 1 - rs, i) = 1 - BitOf(rs, i)
      BY <1>1, <3>1, ComplementBits
    <3> QED
      BY <3>2, <3>3
  <2>2. w - 1 - rs \in 0 .. w - 1
    BY <1>1
  <2>3. CASE b = 0
    BY <1>1, <2>1, <2>3
  <2>4. CASE b = 1
    BY <1>1, <2>1, <2>2, <2>4
  <2> QED
    BY <2>3, <2>4
<1> HIDE DEF v
<1>4. CASE others = {}
  <2>1. v = 0
    BY <1>1, <1>3, <1>4, NoBits
  <2>2. n = m /\ n \in 0 .. m
    BY <1>1, <1>4
  <2> QED
    BY <1>1, <1>2, <2>1, <2>2, SamePowers DEF Exact!Counting, Exact!Does, HoldWords, v
<1>5. CASE others # {}
  <2>1. \E j \in others : \A k \in others : k <= j
    <3>1. others \subseteq 0 .. m - 1
      OBVIOUS
    <3> HIDE DEF others
    <3> QED
      BY <1>1, <1>5, <3>1, GreatestOf
  <2>2. top \in others /\ \A k \in others : k <= top
    BY <1>5, <2>1
  <2>3. top \in 0 .. m - 1 /\ BitOf(v, top) = 1
    BY <1>3, <2>2
  <2> HIDE DEF top
  <2>4. \A j \in top + 1 .. m - 1 : BitOf(v, j) = 0
    <3> SUFFICES ASSUME NEW j \in top + 1 .. m - 1 PROVE BitOf(v, j) = 0
      OBVIOUS
    <3>1. j \in 0 .. m - 1 /\ ~ (j <= top)
      BY <2>3
    <3>2. j \notin others
      BY <2>2, <3>1
    <3> QED
      BY <1>3, <3>1, <3>2
  <2>5. Pow2[top] <= v /\ v < Pow2[top + 1]
    BY <1>1, <1>3, <2>3, <2>4, HighestBit
  <2>6. /\ n \in 0 .. m /\ n \in Nat /\ n + 1 \in Nat /\ top \in Nat /\ top + 1 \in Nat
        /\ (top + 1) + n = m /\ top + (n + 1) = m
    BY <1>1, <2>3
  <2> HIDE DEF n
  <2>7. w = Pow2[top + 1] * Pow2[n] /\ w = Pow2[top] * Pow2[n + 1]
    BY <2>6, Pow2Sum
  <2> DEFINE p == Pow2[top]
             p1 == Pow2[top + 1]
             q == Pow2[n]
             q1 == Pow2[n + 1]
  <2>8. p \in Nat \ {0} /\ p1 \in Nat \ {0} /\ q \in Nat \ {0} /\ q1 \in Nat \ {0} /\ v \in Nat
    BY <1>1, <1>3, <2>6, Pow2Type
  <2> HIDE DEF p, p1, q, q1, w
  <2>9. v * q < p1 * q /\ v * q1 >= p * q1
    <3>1. p <= v /\ v < p1
      BY <2>5 DEF p, p1
    <3> QED
      BY <2>8, <3>1, Z3
  <2>10. v # 0 /\ v * q < w /\ v * q1 >= w
    <3>1. p <= v /\ v < p1 /\ w = p1 * q /\ w = p * q1
      BY <2>5, <2>7 DEF p, p1, q, q1
    <3> QED
      BY <2>8, <2>9, <3>1
  <2>11. v # 0 /\ v * Exact!Pow2[n] < W /\ v * Exact!Pow2[n + 1] >= W
    BY <1>1, <2>6, <2>10, SamePowers DEF q, q1
  <2>12. v = IF b = 0 THEN rs ELSE W - 1 - rs
    BY <1>1 DEF v
  <2> QED
    BY <1>1, <1>2, <2>6, <2>11, <2>12 DEF Exact!Counting, Exact!Does, HoldWords
<1> QED
  BY <1>4, <1>5

-----------------------------------------------------------------------------
(* Every instruction is a step of the accumulator and leaves words in HI     *)
(* and LO and in its register.                                             *)
LEMMA ArithmeticStep ==
    ASSUME HoldWords, ArithmeticNext
    PROVE  /\ Exact!Next /\ HoldWords'
           /\ done'[2] \in Reg \cup 0 .. 2 * HalfBits \cup {Overflow}
<1>0. 0 \in Reg
  <2> HIDE DEF W
  <2> QED
    BY WordFact DEF Reg
<1>1. ASSUME NEW op, NEW signed \in BOOLEAN, Mult(op, signed)
      PROVE Exact!Multiply(op, signed) /\ HoldWords' /\ done'[2] = 0
  BY <1>1, MultiplyStepsTheorem DEF HoldWords, Mult, Writes
<1>2. ASSUME NEW op, NEW signed \in BOOLEAN, Madd(op, signed)
      PROVE Exact!MultiplyAdd(op, signed) /\ HoldWords' /\ done'[2] = 0
  BY <1>2, MultiplyStepsTheorem DEF HoldWords, Madd, Writes
<1>3. ASSUME NEW op, NEW signed \in BOOLEAN, Msub(op, signed)
      PROVE Exact!MultiplySub(op, signed) /\ HoldWords' /\ done'[2] = 0
  BY <1>3, MultiplyStepsTheorem DEF HoldWords, Msub, Writes
<1>4. Div => Exact!Divide("div", TRUE) /\ HoldWords' /\ done'[2] = 0
  <2> SUFFICES ASSUME Div PROVE Exact!Divide("div", TRUE) /\ HoldWords' /\ done'[2] = 0
    OBVIOUS
  <2>1. DivideBy("div", IF TRUE THEN Signed(rs) ELSE rs, IF TRUE THEN Signed(rt) ELSE rt)
    BY DEF Div
  <2> QED
    BY <2>1, DivideStep
<1>5. Divu => Exact!Divide("divu", FALSE) /\ HoldWords' /\ done'[2] = 0
  <2> SUFFICES ASSUME Divu PROVE Exact!Divide("divu", FALSE) /\ HoldWords' /\ done'[2] = 0
    OBVIOUS
  <2>1. DivideBy("divu", IF FALSE THEN Signed(rs) ELSE rs, IF FALSE THEN Signed(rt) ELSE rt)
    BY DEF Divu
  <2> QED
    BY <2>1, DivideStep
<1>6. CASE Mult("mult", TRUE)
  BY <1>0, <1>1, <1>6 DEF Exact!Next
<1>7. CASE Mult("multu", FALSE)
  BY <1>0, <1>1, <1>7 DEF Exact!Next
<1>8. CASE Mul
  BY <1>8, MulStep DEF Exact!Next
<1>9. CASE Madd("madd", TRUE)
  BY <1>0, <1>2, <1>9 DEF Exact!Next
<1>10. CASE Madd("maddu", FALSE)
  BY <1>0, <1>2, <1>10 DEF Exact!Next
<1>11. CASE Msub("msub", TRUE)
  BY <1>0, <1>3, <1>11 DEF Exact!Next
<1>12. CASE Msub("msubu", FALSE)
  BY <1>0, <1>3, <1>12 DEF Exact!Next
<1>13. CASE Div
  BY <1>0, <1>4, <1>13 DEF Exact!Next
<1>14. CASE Divu
  BY <1>0, <1>5, <1>14 DEF Exact!Next
<1>15. CASE Add
  BY <1>15, AddStep DEF Exact!Next
<1>16. CASE Sub
  BY <1>16, SubStep DEF Exact!Next
<1>17. CASE Mthi
  BY <1>0, <1>17, MoveSteps DEF Exact!Next
<1>18. CASE Mtlo
  BY <1>0, <1>18, MoveSteps DEF Exact!Next
<1>19. CASE WritesOnly("clz", Leading(0))
  BY <1>19, CountStep DEF Exact!Next
<1>20. CASE WritesOnly("clo", Leading(1))
  BY <1>20, CountStep DEF Exact!Next
<1> QED
  BY <1>6, <1>7, <1>8, <1>9, <1>10, <1>11, <1>12, <1>13, <1>14, <1>15, <1>16, <1>17, <1>18, <1>19, <1>20
     DEF ArithmeticNext

(* ArithmeticTypeOK for every width: HI, LO and every result fit a word.     *)
THEOREM ArithmeticTypes == ArithmeticSpec => []ArithmeticTypeOK
<1>1. ArithmeticInit => ArithmeticTypeOK
  <2> HIDE DEF W
  <2> QED
    BY WordFact DEF ArithmeticInit, ArithmeticTypeOK, Reg
<1>2. ArithmeticTypeOK /\ [ArithmeticNext]_avars => ArithmeticTypeOK'
  <2> SUFFICES ASSUME ArithmeticTypeOK, [ArithmeticNext]_avars PROVE ArithmeticTypeOK'
    OBVIOUS
  <2>1. CASE ArithmeticNext
    BY <2>1, ArithmeticStep DEF ArithmeticTypeOK, HoldWords
  <2>2. CASE UNCHANGED avars
    BY <2>2 DEF ArithmeticTypeOK, avars
  <2> QED
    BY <2>1, <2>2
<1> QED
  BY <1>1, <1>2, PTL DEF ArithmeticSpec

(* The integer unit implements the accumulator of two words, for every       *)
(* width: products, carries, borrows, quotients, remainders, overflow traps *)
(* and counts of leading bits are exact.                                    *)
THEOREM AccumulatorTheorem == ArithmeticSpec => ImplementsAccumulator
<1>1. ArithmeticInit => Exact!Init
  <2> SUFFICES ASSUME ArithmeticInit PROVE Exact!Init
    OBVIOUS
  <2>1. HI * W + LO \in 0 .. W * W - 1
    BY AccumulatorRange DEF ArithmeticInit
  <2> QED
    BY <2>1 DEF ArithmeticInit, Exact!Init, Exact!WordValues, Reg
<1>2. ArithmeticTypeOK /\ [ArithmeticNext]_avars => [Exact!Next]_<<rs, rt, HI * W + LO, done>>
  BY ArithmeticStep DEF ArithmeticTypeOK, HoldWords, avars
<1> QED
  BY <1>1, <1>2, ArithmeticTypes, PTL DEF ArithmeticSpec, ImplementsAccumulator, Exact!Spec

-----------------------------------------------------------------------------
(* The shifts of a word, bit by bit.                                        *)
LEMMA ShiftBits ==
    ASSUME NEW v \in Reg, NEW s \in 0 .. Bits - 1, NEW i \in 0 .. Bits - 1
    PROVE  /\ BitOf(LeftShift(v, s), i) = IF i - s \in 0 .. Bits - 1 THEN BitOf(v, i - s) ELSE 0
           /\ BitOf(RightShift(v, s), i) = IF i + s \in 0 .. Bits - 1 THEN BitOf(v, i + s) ELSE 0
           /\ BitOf(SignedShift(v, s), i) = IF i + s \in 0 .. Bits - 1 THEN BitOf(v, i + s) ELSE BitOf(v, Bits - 1)
<1> DEFINE m == Bits
           w == Pow2[m]
           n == Signed(v)
           q == n \div Pow2[s]
<1>1. m \in Nat \ {0} /\ W = w /\ v \in 0 .. w - 1 /\ v \in Int /\ s \in Nat /\ i \in Nat /\ m - 1 \in Nat
  BY WordPower, WordFact DEF Reg
<1>2. w \in Nat \ {0} /\ w \div 2 \in Nat /\ w = 2 * (w \div 2)
  BY <1>1, HalfWord, Pow2Type
<1>3. n \in Int /\ n = IF v >= w \div 2 THEN v - w ELSE v
  BY <1>1, <1>2 DEF Signed
<1> USE DEF Unsigned
<1>4. BitOf(LeftShift(v, s), i) = IF i - s \in 0 .. m - 1 THEN BitOf(v, i - s) ELSE 0
  <2>1. v * Pow2[s] \in Int /\ BitOf(v * Pow2[s], i) = IF i >= s THEN BitOf(v, i - s) ELSE 0
    BY <1>1, ProductBit
  <2>2. BitOf((v * Pow2[s]) % w, i) = BitOf(v * Pow2[s], i)
    BY <1>1, <2>1, ModBit
  <2>3. i - s \in 0 .. m - 1 <=> i >= s
    BY <1>1
  <2> QED
    BY <1>1, <2>1, <2>2, <2>3 DEF LeftShift
<1>5. ASSUME NEW j \in Nat, ~ (j \in 0 .. m - 1)
      PROVE  BitOf(v, j) = 0 /\ BitOf(n, j) = BitOf(v, m - 1)
  <2>1. m <= j
    BY <1>1, <1>5
  <2>2. BitOf(v, j) = 0
    <3>1. 0 <= v /\ v < Pow2[m] /\ m \in Nat
      BY <1>1, <1>2
    <3> QED
      BY <1>1, <2>1, <3>1, HighBits
  <2>3. BitOf(v, m - 1) = IF v >= w \div 2 THEN 1 ELSE 0
    BY <1>1, TopBit
  <2>4. BitOf(n, j) = IF v >= w \div 2 THEN 1 ELSE 0
    <3>1. CASE v >= w \div 2
      <4>1. -w <= n /\ n < 0
        BY <1>1, <1>2, <1>3, <3>1
      <4> HIDE DEF n
      <4> QED
        BY <1>1, <1>3, <2>1, <3>1, <4>1, HighBits
    <3>2. CASE v < w \div 2
      BY <1>1, <1>2, <1>3, <2>2, <3>2
    <3> QED
      BY <1>1, <1>2, <3>1, <3>2
  <2> QED
    BY <2>2, <2>3, <2>4
<1>6. ASSUME NEW j \in 0 .. m - 1 PROVE BitOf(n, j) = BitOf(v, j)
  <2> DEFINE minus == -1
  <2>1. n = v \/ (n = v + minus * w /\ minus \in Int)
    BY <1>1, <1>2, <1>3
  <2> HIDE DEF n, minus
  <2>2. minus \in Int => BitOf(v + minus * w, j) = BitOf(v, j)
    BY <1>1, ShiftedBit
  <2> QED
    BY <2>1, <2>2
<1>7. i + s \in Nat
  BY <1>1
<1>8. BitOf(RightShift(v, s), i) = IF i + s \in 0 .. m - 1 THEN BitOf(v, i + s) ELSE 0
  <2>1. BitOf(v \div Pow2[s], i) = BitOf(v, i + s)
    BY <1>1, QuotientBit
  <2> QED
    BY <1>5, <1>7, <2>1 DEF RightShift
<1>9. BitOf(SignedShift(v, s), i) = IF i + s \in 0 .. m - 1 THEN BitOf(v, i + s) ELSE BitOf(v, m - 1)
  <2> HIDE DEF n
  <2>1. q \in Int /\ BitOf(q, i) = BitOf(n, i + s)
    BY <1>1, <1>3, QuotientBit
  <2>2. BitOf(q % w, i) = BitOf(q, i)
    BY <1>1, <2>1, ModBit
  <2>3. SignedShift(v, s) = q % w
    BY <1>1 DEF SignedShift, n
  <2> QED
    BY <1>5, <1>6, <1>7, <2>1, <2>2, <2>3
<1> QED
  BY <1>4, <1>8, <1>9

(* A sign-extended immediate repeats its top bit.                           *)
LEMMA ExtendedBits ==
    ASSUME rt \in Reg
    PROVE  /\ SignExtended(Imm) \in Reg
           /\ \A i \in 0 .. Bits - 1 :
                 BitOf(SignExtended(Imm), i) = BitOf(rt, IF i < HalfBits THEN i ELSE HalfBits - 1)
<1> DEFINE k == HalfBits
           b == Pow2[k]
           half == rt % b
           ext == IF half >= b \div 2 THEN (W - b) + half ELSE half
           n == IF half >= b \div 2 THEN half - b ELSE half
<1>1. k \in Nat \ {0} /\ k - 1 \in Nat /\ k - 1 \in 0 .. k - 1 /\ B = b /\ b \in Nat \ {0} /\ rt \in Int /\ Imm = half /\ SignExtended(Imm) = ext
  BY WidthAssumption, WordFact, Pow2Type DEF B, Reg, Imm, SignExtended
<1>2. half \in 0 .. b - 1 /\ half \in Int
  <2> HIDE DEF b
  <2> QED
    BY <1>1, ModSplit
<1>3. W \in Nat /\ b <= W
  BY <1>1, WordFact
<1>4. \A i \in 0 .. k - 1 : BitOf(half, i) = BitOf(rt, i)
  BY <1>1, ModBit
<1>5. BitOf(half, k - 1) = IF half >= b \div 2 THEN 1 ELSE 0
  BY <1>1, <1>2, TopBit
<1>6. b \div 2 \in Nat /\ (b \div 2) * 2 = b
  <2>1. b = 2 * Pow2[k - 1]
    <3>1. (k - 1) + 1 = k
      BY <1>1
    <3> QED
      BY <1>1, <3>1, Pow2Steps
  <2> HIDE DEF b
  <2> QED
    BY <1>1, <2>1, Pow2Type
<1>7. ext \in Reg
  <2> HIDE DEF W, b, half
  <2> QED
    BY <1>1, <1>2, <1>3 DEF Reg
<1>8. ASSUME NEW i \in 0 .. Bits - 1
      PROVE  BitOf(ext, i) = BitOf(rt, IF i < k THEN i ELSE k - 1)
  <2>1. Bits \in Nat /\ i \in Nat /\ W = Pow2[Bits]
    BY WordPower
  <2>2. n \in Int /\ (ext = n + 1 * W \/ ext = n + 0 * W)
    BY <1>1, <1>2, <1>3
  <2>3. BitOf(ext, i) = BitOf(n, i)
    <3>1. \A c \in Int : BitOf(n + c * Pow2[Bits], i) = BitOf(n, i)
      BY <2>1, <2>2, ShiftedBit
    <3> HIDE DEF n, ext, W
    <3> QED
      BY <2>1, <2>2, <3>1
  <2>4. CASE i < k
    <3>1. i \in 0 .. k - 1
      BY <1>1, <2>1, <2>4
    <3> DEFINE minus == -1
    <3>2. minus \in Int /\ (n = half + minus * b \/ n = half)
      BY <1>1, <1>2
    <3> HIDE DEF n, half, minus
    <3>3. BitOf(half + minus * b, i) = BitOf(half, i)
      BY <1>1, <1>2, <3>1, <3>2, ShiftedBit
    <3> QED
      BY <1>4, <2>3, <2>4, <3>1, <3>2, <3>3
  <2>5. CASE i >= k
    <3>1. /\ half >= b \div 2 => -b <= n /\ n < 0
          /\ half < b \div 2 => 0 <= n /\ n < b
      <4> HIDE DEF half, b
      <4> QED
        BY <1>1, <1>2, <1>6
    <3> HIDE DEF n
    <3>2. BitOf(n, i) = IF half >= b \div 2 THEN 1 ELSE 0
      <4>1. half >= b \div 2 => BitOf(n, i) = 1
        BY <1>1, <2>1, <2>2, <2>5, <3>1, HighBits
      <4>2. half < b \div 2 => BitOf(n, i) = 0
        BY <1>1, <2>1, <2>2, <2>5, <3>1, HighBits
      <4>3. half \in Int /\ b \div 2 \in Int
        BY <1>2, <1>6
      <4> HIDE DEF half, b
      <4> QED
        BY <4>1, <4>2, <4>3
    <3>3. ~ (i < k)
      BY <1>1, <2>1, <2>5
    <3> QED
      BY <1>1, <1>4, <1>5, <2>3, <3>2, <3>3
  <2> QED
    BY <1>1, <2>1, <2>4, <2>5
<1> QED
  BY <1>1, <1>7, <1>8

(* The highest differing bit decides the order of two words, with and        *)
(* without a sign.                                                         *)
DecidesLess(signed, x, y) ==
    \E i \in Places :
        /\ Differ(x, y, i, Bits)
        /\ BitOf(x, i) = IF signed /\ i = Bits - 1 THEN 1 ELSE 0

LEMMA WordOrder ==
    ASSUME NEW x \in Reg, NEW y \in Reg
    PROVE  /\ x = y <=> \A i \in Places : BitOf(x, i) = BitOf(y, i)
           /\ x < y <=> DecidesLess(FALSE, x, y)
           /\ Signed(x) < Signed(y) <=> DecidesLess(TRUE, x, y)
<1> DEFINE m == Bits
           w == Pow2[m]
           t == m - 1
<1>1. m \in Nat \ {0} /\ W = w /\ x \in 0 .. w - 1 /\ y \in 0 .. w - 1 /\ t \in 0 .. m - 1 /\ x \in Int /\ y \in Int /\ t \in Nat
  BY WordPower, WordFact DEF Reg
<1>2. w \in Nat \ {0} /\ w \div 2 \in Nat /\ w = 2 * (w \div 2)
  BY <1>1, HalfWord, Pow2Type
<1>3. /\ x = y <=> \A i \in 0 .. m - 1 : BitOf(x, i) = BitOf(y, i)
      /\ x < y <=> \E i \in 0 .. m - 1 : Differ(x, y, i, m) /\ BitOf(x, i) = 0
  BY <1>1, BitsOrder
<1>4. x < y <=> DecidesLess(FALSE, x, y)
  BY <1>3 DEF DecidesLess, Places
<1>5. /\ BitOf(x, t) = IF x >= w \div 2 THEN 1 ELSE 0
      /\ BitOf(y, t) = IF y >= w \div 2 THEN 1 ELSE 0
  BY <1>1, TopBit
<1>6. /\ Signed(x) = IF x >= w \div 2 THEN x - w ELSE x
      /\ Signed(y) = IF y >= w \div 2 THEN y - w ELSE y
  BY <1>1 DEF Signed
<1>7. CASE BitOf(x, t) = BitOf(y, t)
  <2>1. Signed(x) < Signed(y) <=> x < y
    <3>1. x >= w \div 2 <=> y >= w \div 2
      BY <1>5, <1>7
    <3> HIDE DEF w
    <3> QED
      BY <1>1, <1>2, <1>6, <3>1
  <2>2. DecidesLess(TRUE, x, y) <=> DecidesLess(FALSE, x, y)
    BY <1>7 DEF DecidesLess, Differ
  <2> QED
    BY <1>3, <1>4, <2>1, <2>2 DEF Places
<1>8. CASE BitOf(x, t) # BitOf(y, t)
  <2>1. Signed(x) < Signed(y) <=> BitOf(x, t) = 1
    <3> HIDE DEF w
    <3> QED
      BY <1>1, <1>2, <1>5, <1>6, <1>8
  <2>2. \A i \in 0 .. m - 1 : Differ(x, y, i, m) <=> i = t
    <3> SUFFICES ASSUME NEW i \in 0 .. m - 1 PROVE Differ(x, y, i, m) <=> i = t
      OBVIOUS
    <3>1. i = t => Differ(x, y, i, m)
      <4>1. \A j \in t + 1 .. m - 1 : FALSE
        BY <1>1
      <4> QED
        BY <1>8, <4>1 DEF Differ
    <3>2. i # t => t \in i + 1 .. m - 1
      BY <1>1
    <3> QED
      BY <1>8, <3>1, <3>2 DEF Differ
  <2>3. DecidesLess(TRUE, x, y) <=> BitOf(x, t) = 1
    BY <1>1, <2>2 DEF DecidesLess, Places
  <2> QED
    BY <1>3, <1>4, <2>1, <2>3 DEF Places
<1> QED
  BY <1>7, <1>8

OnWords == rs \in Reg /\ rt \in Reg

(* What a shift and a test write, and what they leave.                      *)
LEMMA ShiftStep ==
    ASSUME OnWords, Sll \/ Srl \/ Sra
    PROVE  ShiftsMoveBits' /\ TestsOrderWords' /\ OnWords'
<1>1. Shamt \in 0 .. Bits - 1 /\ Shamt' = Shamt /\ UNCHANGED <<rs, rt>>
  <2>1. Bits \in Nat \ {0} /\ rs \in Int /\ UNCHANGED <<rs, rt>>
    BY WordPower, WordFact DEF OnWords, Reg, Sll, Srl, Sra, Sets
  <2> DEFINE m == Bits
  <2> HIDE DEF m
  <2>2. rs % m \in 0 .. m - 1
    BY <2>1, ModSplit DEF m
  <2> QED
    BY <2>1, <2>2 DEF Shamt, m
<1>2. OnWords'
  BY <1>1 DEF OnWords
<1>3. result'[1] \in {"sll", "srl", "sra"}
  BY DEF Sll, Srl, Sra, Sets
<1>4. TestsOrderWords'
  BY <1>3 DEF TestsOrderWords
<1>5. ASSUME NEW i \in 0 .. Bits - 1
      PROVE  LET fill == IF result'[1] = "sra" THEN BitOf(rt, Bits - 1) ELSE 0
                 from == IF result'[1] = "sll" THEN i - Shamt ELSE i + Shamt
             IN  BitOf(result'[2], i) = IF from \in 0 .. Bits - 1 THEN BitOf(rt, from) ELSE fill
  <2>1. CASE Sll
    <3>1. result' = <<"sll", LeftShift(rt, Shamt)>>
      BY <2>1 DEF Sll, Sets
    <3> QED
      BY <1>1, <3>1, ShiftBits DEF OnWords
  <2>2. CASE Srl
    <3>1. result' = <<"srl", RightShift(rt, Shamt)>>
      BY <2>2 DEF Srl, Sets
    <3> QED
      BY <1>1, <3>1, ShiftBits DEF OnWords
  <2>3. CASE Sra
    <3>1. result' = <<"sra", SignedShift(rt, Shamt)>>
      BY <2>3 DEF Sra, Sets
    <3> QED
      BY <1>1, <3>1, ShiftBits DEF OnWords
  <2> QED
    BY <2>1, <2>2, <2>3
<1>6. ShiftsMoveBits'
  BY <1>1, <1>5 DEF ShiftsMoveBits, Places
<1> QED
  BY <1>2, <1>4, <1>6

(* The second operand of the instruction that gave the result.              *)
RegisterTests == {"slt", "sltu", "teq", "tne", "tge", "tgeu", "tlt", "tltu"}
ImmediateTests == {"slti", "sltiu", "teqi", "tnei", "tgei", "tgeiu", "tlti", "tltiu"}
Second == IF result[1] \in RegisterTests THEN rt ELSE SignExtended(Imm)

SecondDecides ==
    /\ Less(TRUE) <=> DecidesLess(TRUE, rs, Second)
    /\ Less(FALSE) <=> DecidesLess(FALSE, rs, Second)
    /\ Same <=> rs = Second

LEMMA SecondFact == OnWords => SecondDecides
<1> SUFFICES ASSUME OnWords PROVE SecondDecides
  OBVIOUS
<1>1. Second \in Reg /\ \A i \in Places : SecondBit(i) = BitOf(Second, i)
  <2>1. CASE result[1] \in RegisterTests
    BY <2>1 DEF OnWords, Second, SecondBit, RegisterTests
  <2>2. CASE result[1] \notin RegisterTests
    BY <2>2, ExtendedBits DEF OnWords, Second, SecondBit, RegisterTests, Places
  <2> QED
    BY <2>1, <2>2
<1>2. ASSUME NEW signed \in BOOLEAN PROVE Less(signed) <=> DecidesLess(signed, rs, Second)
  <2> SUFFICES ASSUME NEW i \in Places
               PROVE  Differ(rs, Second, i, Bits) <=>
                        /\ BitOf(rs, i) # SecondBit(i)
                        /\ \A j \in i + 1 .. Bits - 1 : BitOf(rs, j) = SecondBit(j)
    BY DEF Less, DecidesLess
  <2>1. \A j \in i + 1 .. Bits - 1 : j \in Places
    BY WordPower DEF Places
  <2> QED
    BY <1>1, <2>1 DEF Differ
<1>3. Same <=> rs = Second
  <2>1. rs = Second <=> \A i \in Places : BitOf(rs, i) = BitOf(Second, i)
    BY <1>1, WordOrder DEF OnWords
  <2> QED
    BY <1>1, <2>1 DEF Same
<1> QED
  BY <1>2, <1>3 DEF SecondDecides

(* What a test writes: its condition on the first and the second operand.   *)
Outcome(op, x, y) ==
    IF op \in {"slt", "slti", "tlt", "tlti"} THEN Signed(x) < Signed(y)
    ELSE IF op \in {"sltu", "sltiu", "tltu", "tltiu"} THEN x < y
    ELSE IF op \in {"tge", "tgei"} THEN Signed(x) >= Signed(y)
    ELSE IF op \in {"tgeu", "tgeiu"} THEN x >= y
    ELSE IF op \in {"teq", "teqi"} THEN x = y
    ELSE x # y

Tests == Slt \/ Sltu \/ Slti \/ Sltiu \/ Teq \/ Tne \/ Tge \/ Tgeu \/ Tlt \/ Tltu

LEMMA TestStep ==
    ASSUME OnWords, Tests
    PROVE  ShiftsMoveBits' /\ TestsOrderWords' /\ OnWords'
<1> DEFINE op == result'[1]
           y == IF op \in RegisterTests THEN rt ELSE SignExtended(Imm)
<1>1. /\ op \in RegisterTests \cup ImmediateTests /\ UNCHANGED <<rs, rt>>
      /\ result'[2] = Truth(Outcome(op, rs, y))
  <2> USE DEF Traps, Sets, Outcome, RegisterTests, ImmediateTests
  <2>1. CASE Slt
    BY <2>1 DEF Slt
  <2>2. CASE Sltu
    BY <2>2 DEF Sltu
  <2>3. CASE Slti
    BY <2>3 DEF Slti
  <2>4. CASE Sltiu
    BY <2>4 DEF Sltiu
  <2>5. CASE Teq
    BY <2>5 DEF Teq
  <2>6. CASE Tne
    BY <2>6 DEF Tne
  <2>7. CASE Tge
    BY <2>7 DEF Tge
  <2>8. CASE Tgeu
    BY <2>8 DEF Tgeu
  <2>9. CASE Tlt
    BY <2>9 DEF Tlt
  <2>10. CASE Tltu
    BY <2>10 DEF Tltu
  <2> QED
    BY <2>1, <2>2, <2>3, <2>4, <2>5, <2>6, <2>7, <2>8, <2>9, <2>10 DEF Tests
<1>2. OnWords'
  BY <1>1 DEF OnWords
<1>3. Second' = y /\ y \in Reg
  <2>1. Second' = y
    BY <1>1 DEF Second, Imm
  <2> QED
    BY <2>1, ExtendedBits DEF OnWords
<1>4. /\ Less(TRUE)' <=> DecidesLess(TRUE, rs, y)
      /\ Less(FALSE)' <=> DecidesLess(FALSE, rs, y)
      /\ Same' <=> rs = y
  <2>1. SecondDecides'
    <3>1. OnWords'
      BY <1>2
    <3> QED
      BY <3>1, SecondFact, PTL
  <2> QED
    BY <1>1, <1>2, <1>3, <2>1 DEF SecondDecides
<1>5. /\ rs = y <=> Same'
      /\ rs < y <=> Less(FALSE)'
      /\ Signed(rs) < Signed(y) <=> Less(TRUE)'
      /\ rs >= y <=> ~ Less(FALSE)'
      /\ Signed(rs) >= Signed(y) <=> ~ Less(TRUE)'
  <2>1. /\ rs < y <=> DecidesLess(FALSE, rs, y)
        /\ Signed(rs) < Signed(y) <=> DecidesLess(TRUE, rs, y)
    BY <1>3, WordOrder DEF OnWords
  <2>2. rs \in Int /\ y \in Int /\ Signed(rs) \in Int /\ Signed(y) \in Int
    BY <1>3, SignedRange DEF OnWords
  <2>3. /\ rs >= y <=> ~ (rs < y)
        /\ Signed(rs) >= Signed(y) <=> ~ (Signed(rs) < Signed(y))
    BY <2>2
  <2> QED
    BY <1>4, <2>1, <2>3
<1>6. result'[2] = 1 <=> Outcome(op, rs, y)
  BY <1>1 DEF Truth
<1>7. ShiftsMoveBits'
  BY <1>1 DEF ShiftsMoveBits, RegisterTests, ImmediateTests
<1>8. TestsOrderWords'
  BY <1>1, <1>5, <1>6 DEF TestsOrderWords, Outcome, RegisterTests, ImmediateTests
<1> QED
  BY <1>2, <1>7, <1>8

WordInvariant == OnWords /\ ShiftsMoveBits /\ TestsOrderWords

LEMMA WordsInvariant == WordSpec => []WordInvariant
<1>1. WordInit => WordInvariant
  BY DEF WordInit, WordInvariant, OnWords, ShiftsMoveBits, TestsOrderWords
<1>2. WordInvariant /\ [WordNext]_wvars => WordInvariant'
  <2> SUFFICES ASSUME WordInvariant, [WordNext]_wvars PROVE WordInvariant'
    OBVIOUS
  <2>1. CASE WordNext
    BY <2>1, ShiftStep, TestStep DEF WordNext, WordInvariant, Tests
  <2>2. CASE UNCHANGED wvars
    BY <2>2 DEF wvars, WordInvariant, OnWords, ShiftsMoveBits, TestsOrderWords, Less, Same, SecondBit, Shamt
  <2> QED
    BY <2>1, <2>2
<1> QED
  BY <1>1, <1>2, PTL DEF WordSpec

(* ShiftsMoveBits for every width: a shift moves each bit by its amount and  *)
(* fills with zeros or with the sign.                                      *)
THEOREM ShiftsTheorem == WordSpec => []ShiftsMoveBits
<1>1. WordInvariant => ShiftsMoveBits
  BY DEF WordInvariant
<1> QED
  BY <1>1, WordsInvariant, PTL

(* TestsOrderWords for every width: set-on-less-than and the traps agree     *)
(* with the order of the words' bits, with registers and with immediates.   *)
THEOREM TestsTheorem == WordSpec => []TestsOrderWords
<1>1. WordInvariant => TestsOrderWords
  BY DEF WordInvariant
<1> QED
  BY <1>1, WordsInvariant, PTL

-----------------------------------------------------------------------------
(* The pseudo instructions.  A word, the signed number it stands for, and    *)
(* the word that has a signed number.                                      *)
LEMMA SignedWord ==
    ASSUME NEW v \in Reg
    PROVE  /\ Signed(v) \in Int /\ InRange(Signed(v)) /\ v \in Int
           /\ SIGN_BIT(v) <=> Signed(v) < 0
           /\ Signed(v) = v \/ Signed(v) = v + (-1) * W
           /\ 0 <= v /\ v < W
<1> DEFINE w == W
           h == W \div 2
<1>1. v \in 0 .. w - 1 /\ w \in Nat \ {0} /\ h \in Nat /\ w = 2 * h
  BY WordFact, HalfWord DEF Reg
<1> HIDE DEF w, h
<1>2. v - w = v + (-1) * w
  BY <1>1
<1>3. Signed(v) = IF v >= h THEN v - w ELSE v
  BY DEF Signed, w, h
<1>4. SIGN_BIT(v) <=> v >= h
  BY DEF SIGN_BIT, h
<1>5. InRange(Signed(v)) <=> -h <= Signed(v) /\ Signed(v) < h
  BY DEF InRange, h
<1>6. Signed(v) = v \/ Signed(v) = v + (-1) * w
  BY <1>2, <1>3
<1> QED
  BY <1>1, <1>3, <1>4, <1>5, <1>6 DEF w

LEMMA SignedOfRange ==
    ASSUME NEW n \in Int, InRange(n)
    PROVE  Unsigned(n) \in Reg /\ Signed(Unsigned(n)) = n
<1> DEFINE w == W
           h == W \div 2
           z == n % w
<1>1. w \in Nat \ {0} /\ h \in Nat /\ w = 2 * h
  BY WordFact, HalfWord
<1>2. z = IF n < 0 THEN n + w ELSE n
  <2>1. -h <= n /\ n < h
    BY DEF InRange
  <2> HIDE DEF w, h
  <2> QED
    BY <1>1, <2>1
<1>3. -h <= n /\ n < h
  BY DEF InRange
<1>4. Signed(z) = IF z >= h THEN z - w ELSE z
  BY DEF Signed
<1> HIDE DEF w, h, z
<1>5. Signed(z) = n
  BY <1>1, <1>2, <1>3, <1>4
<1> QED
  BY <1>5, UnsignedType DEF Unsigned, z, w

(* Words add and subtract as the numbers they stand for.                    *)
LEMMA SignedSums ==
    ASSUME NEW x \in Reg, NEW y \in Reg
    PROVE  /\ Unsigned(x + y) = Unsigned(Signed(x) + Signed(y))
           /\ Unsigned(x - y) = Unsigned(Signed(x) - Signed(y))
           /\ Unsigned(Signed(x)) = x /\ Unsigned(x) = x
<1> DEFINE w == W
           a == Signed(x)
           b == Signed(y)
<1>1. w \in Nat \ {0} /\ x \in 0 .. w - 1 /\ y \in 0 .. w - 1
  BY WordFact DEF Reg
<1>2. a \in Int /\ b \in Int /\ (a = x \/ a = x + (-1) * w) /\ (b = y \/ b = y + (-1) * w)
  BY SignedWord
<1>0. \A n : Unsigned(n) = n % w
  BY DEF Unsigned
<1> HIDE DEF w, a, b
<1> DEFINE s == x + y
           d == x - y
           t == a + b
           e == a - b
<1>3. /\ t = s + 0 * w \/ t = s + (-1) * w \/ t = s + (-2) * w
      /\ e = d + 0 * w \/ e = d + (-1) * w \/ e = d + 1 * w
      /\ s \in Int /\ d \in Int
  BY <1>1, <1>2
<1> HIDE DEF s, d, t, e
<1>4. t % w = s % w
  <2>1. PICK k \in Int : t = s + k * w
    BY <1>3
  <2>2. (s + k * w) % w = s % w
    BY <1>1, <1>3, ModShift
  <2> QED
    BY <2>1, <2>2
<1>5. e % w = d % w
  <2>1. PICK k \in Int : e = d + k * w
    BY <1>3
  <2>2. (d + k * w) % w = d % w
    BY <1>1, <1>3, ModShift
  <2> QED
    BY <2>1, <2>2
<1>6. x % w = x
  BY <1>1
<1>7. a % w = x % w
  <2> DEFINE k == -1
  <2>1. x \in Int /\ k \in Int /\ (a = x \/ a = x + k * w)
    BY <1>1, <1>2
  <2> HIDE DEF k
  <2>2. (x + k * w) % w = x % w
    BY <1>1, <2>1, ModShift
  <2> QED
    BY <2>1, <2>2
<1> QED
  BY <1>0, <1>4, <1>5, <1>6, <1>7 DEF s, d, t, e, a, b

(* The overflow test of an addition, and of a subtraction, is exact.        *)
LEMMA OverflowTests ==
    ASSUME NEW x \in Reg, NEW y \in Reg
    PROVE  /\ (SIGN_BIT(x) = SIGN_BIT(y) /\ SIGN_BIT(Unsigned(x + y)) # SIGN_BIT(x))
                 <=> ~InRange(Signed(x) + Signed(y))
           /\ (SIGN_BIT(x) # SIGN_BIT(y) /\ SIGN_BIT(Unsigned(x - y)) # SIGN_BIT(x))
                 <=> ~InRange(Signed(x) - Signed(y))
<1> DEFINE w == W
           h == W \div 2
           s == Unsigned(x + y)
           d == Unsigned(x - y)
           a == Signed(x)
           b == Signed(y)
<1>1. w \in Nat \ {0} /\ h \in Nat /\ w = 2 * h /\ x \in 0 .. w - 1 /\ y \in 0 .. w - 1
  BY WordFact, HalfWord DEF Reg
<1>2. /\ a = (IF x >= h THEN x - w ELSE x) /\ b = (IF y >= h THEN y - w ELSE y)
      /\ s = (x + y) % w /\ d = (x - y) % w
  BY DEF Signed, Unsigned
<1> HIDE DEF w, h, s, d, a, b
<1>3. s = (IF x + y >= w THEN x + y - w ELSE x + y) /\ d = (IF x - y < 0 THEN x - y + w ELSE x - y)
  BY <1>1, <1>2
<1>4. ((x >= h <=> y >= h) /\ ~(s >= h <=> x >= h)) <=> ~(-h <= a + b /\ a + b < h)
  BY <1>1, <1>2, <1>3
<1>5. (~(x >= h <=> y >= h) /\ ~(d >= h <=> x >= h)) <=> ~(-h <= a - b /\ a - b < h)
  BY <1>1, <1>2, <1>3
<1>6. (SIGN_BIT(x) = SIGN_BIT(y) /\ SIGN_BIT(s) # SIGN_BIT(x)) <=> ~InRange(a + b)
  BY <1>4 DEF SIGN_BIT, InRange, h
<1>7. (SIGN_BIT(x) # SIGN_BIT(y) /\ SIGN_BIT(d) # SIGN_BIT(x)) <=> ~InRange(a - b)
  BY <1>5 DEF SIGN_BIT, InRange, h
<1> QED
  BY <1>6, <1>7 DEF s, d, a, b

(* A value that fits a field is what the instruction makes of the field.    *)
LEMMA FittingField ==
    ASSUME NEW op, NEW value \in Reg, Fits(op, value)
    PROVE  /\ value % B \in Reg
           /\ op \in SignExtending => SignExtended(value % B) = value
           /\ op \notin SignExtending => value % B = value
<1> DEFINE w == W
           b == B
           h == B \div 2
           f == value % b
<1>1. b \in Nat \ {0, 1} /\ w = b * b /\ w \in Nat \ {0, 1} /\ b <= w /\ value \in 0 .. w - 1
  BY WordFact DEF Reg
<1>2. h \in Nat /\ b = 2 * h
  <2>1. HalfBits - 1 \in Nat /\ HalfBits = (HalfBits - 1) + 1
    BY WidthAssumption
  <2>2. B = 2 * Pow2[HalfBits - 1] /\ Pow2[HalfBits - 1] \in Nat
    BY <2>1, Pow2Steps, Pow2Type DEF B
  <2> QED
    BY <2>2
<1>3. f \in 0 .. b - 1
  <2> HIDE DEF b
  <2> QED
    BY <1>1
<1>4. SignExtended(f) = IF f >= h THEN (w - b) + f ELSE f
  BY DEF SignExtended
<1>5. CASE op \in SignExtending
  <2>1. (value + h) % w < b
    BY <1>5 DEF Fits, Unsigned
  <2> HIDE DEF w, h
  <2>2. value < h \/ value >= w - h
    <3> HIDE DEF b
    <3>1. value + h < w => (value + h) % w = value + h
      BY <1>1, <1>2
    <3> QED
      BY <1>1, <1>2, <2>1, <3>1
  <2>3. CASE value < h
    <3>1. f = value
      <4> HIDE DEF b
      <4> QED
        BY <1>1, <1>2, <2>3
    <3> QED
      BY <1>1, <1>2, <1>3, <1>4, <1>5, <2>3, <3>1 DEF Reg, w
  <2>4. CASE value >= w - h
    <3> DEFINE q == b - 1
               r == value - (w - b)
    <3>1. q \in Int /\ r \in 0 .. b - 1 /\ value \in Int
      BY <1>1, <1>2, <2>4
    <3>2. value = q * b + r
      <4> HIDE DEF b, r
      <4>1. q * b = b * b - b
        BY <1>1, Z3 DEF q
      <4> HIDE DEF q
      <4> QED
        BY <1>1, <4>1 DEF r
    <3>3. f = r
      <4> HIDE DEF b, q, r
      <4> QED
        BY <1>1, <3>1, <3>2, ModUnique
    <3> HIDE DEF b, f
    <3>4. f >= h /\ (w - b) + f = value
      BY <1>1, <1>2, <2>4, <3>3
    <3> QED
      BY <1>1, <1>3, <1>4, <1>5, <3>4 DEF Reg, w, f, b
  <2> QED
    BY <2>2, <2>3, <2>4, <1>1, <1>2
<1>6. CASE op \notin SignExtending
  <2>1. value < b
    BY <1>6 DEF Fits
  <2>2. f = value
    <3> HIDE DEF b
    <3> QED
      BY <1>1, <2>1
  <2> QED
    BY <1>6, <2>2
<1> QED
  BY <1>5, <1>6

(* The opposite of a word, and its successor, as signed numbers.            *)
LEMMA OppositeWord ==
    ASSUME NEW v \in Reg
    PROVE  /\ Unsigned(-v) \in Reg
           /\ Signed(Unsigned(-v)) = IF v = W \div 2 THEN Signed(v) ELSE -Signed(v)
           /\ v = W \div 2 => Signed(v) = -(W \div 2)
<1> DEFINE w == W
           h == W \div 2
           z == (-v) % w
<1>1. w \in Nat \ {0, 1} /\ h \in Nat /\ w = 2 * h /\ v \in 0 .. w - 1
  BY WordFact, HalfWord DEF Reg
<1>2. Signed(v) = (IF v >= h THEN v - w ELSE v) /\ Signed(z) = (IF z >= h THEN z - w ELSE z)
  BY DEF Signed
<1>3. Unsigned(-v) = z
  BY DEF Unsigned
<1>4. Unsigned(-v) \in Reg
  BY <1>1, UnsignedType
<1> HIDE DEF w, h, z
<1>5. z = IF v = 0 THEN 0 ELSE w - v
  BY <1>1 DEF z
<1>6. Signed(z) = (IF v = h THEN Signed(v) ELSE -Signed(v)) /\ (v = h => Signed(v) = -h)
  BY <1>1, <1>2, <1>5
<1> QED
  BY <1>3, <1>4, <1>6 DEF h

LEMMA SuccessorWord ==
    ASSUME NEW v \in Reg
    PROVE  /\ Unsigned(v + 1) \in Reg
           /\ Signed(Unsigned(v + 1)) = IF v = W \div 2 - 1 THEN -(W \div 2) ELSE Signed(v) + 1
           /\ v = W \div 2 - 1 => Signed(v) = v
<1> DEFINE w == W
           h == W \div 2
           z == (v + 1) % w
<1>1. w \in Nat \ {0, 1} /\ h \in Nat /\ w = 2 * h /\ v \in 0 .. w - 1
  BY WordFact, HalfWord DEF Reg
<1>2. Signed(v) = (IF v >= h THEN v - w ELSE v) /\ Signed(z) = (IF z >= h THEN z - w ELSE z)
  BY DEF Signed
<1>3. Unsigned(v + 1) = z
  BY DEF Unsigned
<1>4. Unsigned(v + 1) \in Reg
  BY <1>1, UnsignedType
<1> HIDE DEF w, h, z
<1>5. z = IF v = w - 1 THEN 0 ELSE v + 1
  BY <1>1 DEF z
<1>6. Signed(z) = (IF v = h - 1 THEN -h ELSE Signed(v) + 1) /\ (v = h - 1 => Signed(v) = v)
  BY <1>1, <1>2, <1>5
<1> QED
  BY <1>3, <1>4, <1>6 DEF h

-----------------------------------------------------------------------------
(* Two bits together, and what the operations on words do to the bits.      *)
LEMMA CommonSteps ==
    ASSUME NEW x \in Int, NEW y \in Int
    PROVE  /\ CommonBits(x, y)[0] = 0
           /\ \A n \in Nat : CommonBits(x, y)[n + 1] = CommonBits(x, y)[n] + BitOf(x, n) * BitOf(y, n) * Pow2[n]
<1> DEFINE Def(v, n) == v + BitOf(x, n - 1) * BitOf(y, n - 1) * Pow2[n - 1]
           f == CommonBits(x, y)
<1>1. NatInductiveDefHypothesis(f, 0, Def)
  BY DEF CommonBits, NatInductiveDefHypothesis
<1> HIDE DEF Def, f
<1>2. NatInductiveDefConclusion(f, 0, Def)
  BY <1>1, NatInductiveDef
<1>3. f = [n \in Nat |-> IF n = 0 THEN 0 ELSE f[n - 1] + BitOf(x, n - 1) * BitOf(y, n - 1) * Pow2[n - 1]]
  BY <1>2 DEF NatInductiveDefConclusion, Def
<1>4. ASSUME NEW n \in Nat PROVE f[n + 1] = f[n] + BitOf(x, n) * BitOf(y, n) * Pow2[n]
  <2>1. n + 1 \in Nat /\ n + 1 # 0 /\ (n + 1) - 1 = n
    OBVIOUS
  <2> QED
    BY <1>3, <2>1
<1>5. f[0] = 0
  BY <1>3
<1> QED
  BY <1>4, <1>5 DEF f

(* A bit more on top of a number.                                           *)
LEMMA BitOnTop ==
    ASSUME NEW n \in Nat, NEW v \in 0 .. Pow2[n] - 1, NEW b \in {0, 1}
    PROVE  /\ v + b * Pow2[n] \in 0 .. Pow2[n + 1] - 1
           /\ BitOf(v + b * Pow2[n], n) = b
           /\ \A i \in 0 .. n - 1 : BitOf(v + b * Pow2[n], i) = BitOf(v, i)
<1> DEFINE p == Pow2[n]
           s == v + b * p
<1>1. p \in Nat \ {0} /\ Pow2[n + 1] = 2 * p /\ v \in 0 .. p - 1 /\ v \in Int /\ b \in Int
  BY Pow2Type, Pow2Steps
<1>2. \A i \in 0 .. n - 1 : BitOf(s, i) = BitOf(v, i)
  BY <1>1, ShiftedBit
<1> HIDE DEF p
<1>3. s \in 0 .. 2 * p - 1 /\ s \in Int /\ s = b * p + v
  BY <1>1
<1>4. s \div p = b
  <2> HIDE DEF s
  <2> QED
    BY <1>1, <1>3, DivUnique
<1>5. BitOf(s, n) = b
  BY <1>4 DEF BitOf, p
<1> HIDE DEF s
<1> QED
  BY <1>1, <1>2, <1>3, <1>5 DEF s, p

(* The bits of a word below the n-th.                                       *)
LEMMA LowBits ==
    ASSUME NEW x \in Nat, NEW n \in Nat
    PROVE  /\ x % Pow2[n] \in 0 .. Pow2[n] - 1
           /\ x % Pow2[n + 1] = (x % Pow2[n]) + BitOf(x, n) * Pow2[n]
<1> DEFINE p == Pow2[n]
           q == Pow2[n + 1]
           a == x \div p
           r == x % p
           c == a \div 2
           b == a % 2
<1>1. p \in Nat \ {0} /\ q = 2 * p /\ q \in Nat \ {0}
  BY Pow2Type, Pow2Steps
<1>2. b = BitOf(x, n)
  BY DEF BitOf
<1> HIDE DEF p, q
<1>3. a \in Int /\ r \in 0 .. p - 1 /\ x = a * p + r
  BY <1>1, IntSplit
<1> HIDE DEF a, r
<1>4. c \in Int /\ b \in {0, 1} /\ a = 2 * c + b
  BY <1>3
<1> HIDE DEF c, b
<1> DEFINE s == r + b * p
<1>5. s \in 0 .. q - 1
  BY <1>1, <1>3, <1>4
<1>6. x = c * q + s
  BY <1>1, <1>3, <1>4, Z3
<1> HIDE DEF s
<1>7. x % q = s
  BY <1>1, <1>4, <1>5, <1>6, ModUnique
<1> QED
  BY <1>2, <1>3, <1>7 DEF s, r, p, q

AndBit(i, j) == i * j
OrBit(i, j) == i + j - i * j
XorBit(i, j) == i + j - 2 * (i * j)

(* Numbers of n bits and what they have in common.                          *)
Combines(n, a, b, c, x, y) ==
    /\ {c, a + b - c, a + b - 2 * c} \subseteq 0 .. Pow2[n] - 1
    /\ \A i \in 0 .. n - 1 :
          /\ BitOf(c, i) = AndBit(BitOf(x, i), BitOf(y, i))
          /\ BitOf(a + b - c, i) = OrBit(BitOf(x, i), BitOf(y, i))
          /\ BitOf(a + b - 2 * c, i) = XorBit(BitOf(x, i), BitOf(y, i))

LEMMA CombinesStep ==
    ASSUME NEW n \in Nat, NEW a \in Int, NEW b \in Int, NEW c \in Int, NEW x \in Nat, NEW y \in Nat,
           Combines(n, a, b, c, x, y)
    PROVE  LET p == Pow2[n]
               i == BitOf(x, n)
               j == BitOf(y, n)
           IN  Combines(n + 1, a + i * p, b + j * p, c + i * j * p, x, y)
<1> DEFINE p == Pow2[n]
           i == BitOf(x, n)
           j == BitOf(y, n)
           q == Pow2[n + 1]
           a2 == a + i * p
           b2 == b + j * p
           c2 == c + i * j * p
           u == a + b - c
           v == a + b - 2 * c
           ij == i * j
           o == OrBit(i, j)
           e == XorBit(i, j)
<1>1. x \in Int /\ y \in Int /\ i \in {0, 1} /\ j \in {0, 1} /\ p \in Nat \ {0}
  BY AboveType, Pow2Type
<1>2. {c, u, v} \subseteq 0 .. p - 1
  BY DEF Combines
<1> HIDE DEF i, j, p
<1>3. ij \in {0, 1} /\ o \in {0, 1} /\ e \in {0, 1}
  BY <1>1 DEF OrBit, XorBit
<1>4. c2 = c + ij * p /\ a2 + b2 - c2 = u + o * p /\ a2 + b2 - 2 * c2 = v + e * p
  <2>1. CASE i = 0
    BY <1>1, <2>1 DEF OrBit, XorBit
  <2>2. CASE i = 1 /\ j = 0
    BY <1>1, <2>2 DEF OrBit, XorBit
  <2>3. CASE i = 1 /\ j = 1
    BY <1>1, <2>3 DEF OrBit, XorBit
  <2> QED
    BY <1>1, <2>1, <2>2, <2>3
<1>5. ij = AndBit(i, j)
  BY DEF AndBit
<1> HIDE DEF ij, o, e
<1>6. ASSUME NEW m \in {c, u, v}, NEW t \in {0, 1}
      PROVE  /\ m + t * p \in 0 .. q - 1 /\ BitOf(m + t * p, n) = t
             /\ \A k \in 0 .. n - 1 : BitOf(m + t * p, k) = BitOf(m, k)
  BY <1>2, BitOnTop DEF p
<1> HIDE DEF q
<1> DEFINE c3 == c + ij * p
           u3 == u + o * p
           v3 == v + e * p
<1>7. /\ {c3, u3, v3} \subseteq 0 .. q - 1
      /\ BitOf(c3, n) = ij /\ BitOf(u3, n) = o /\ BitOf(v3, n) = e
      /\ \A k \in 0 .. n - 1 : BitOf(c3, k) = BitOf(c, k) /\ BitOf(u3, k) = BitOf(u, k) /\ BitOf(v3, k) = BitOf(v, k)
  BY <1>3, <1>6
<1>8. \A k \in 0 .. n - 1 :
          /\ BitOf(c, k) = AndBit(BitOf(x, k), BitOf(y, k))
          /\ BitOf(u, k) = OrBit(BitOf(x, k), BitOf(y, k))
          /\ BitOf(v, k) = XorBit(BitOf(x, k), BitOf(y, k))
  BY DEF Combines
<1>9. c2 = c3 /\ a2 + b2 - c2 = u3 /\ a2 + b2 - 2 * c2 = v3
  BY <1>4
<1> HIDE DEF c3, u3, v3, a2, b2, c2, u, v
<1>10. ASSUME NEW k \in 0 .. (n + 1) - 1
       PROVE  /\ BitOf(c3, k) = AndBit(BitOf(x, k), BitOf(y, k))
              /\ BitOf(u3, k) = OrBit(BitOf(x, k), BitOf(y, k))
              /\ BitOf(v3, k) = XorBit(BitOf(x, k), BitOf(y, k))
  <2>1. CASE k = n
    BY <1>5, <1>7, <2>1 DEF i, j, o, e
  <2>2. CASE k # n
    <3>1. k \in 0 .. n - 1
      BY <2>2
    <3> QED
      BY <1>7, <1>8, <3>1
  <2> QED
    BY <2>1, <2>2
<1>11. Combines(n + 1, a2, b2, c2, x, y)
  BY <1>7, <1>9, <1>10 DEF Combines, q
<1> QED
  BY <1>11 DEF a2, b2, c2, i, j, p

LEMMA CombinedBits ==
    ASSUME NEW x \in Reg, NEW y \in Reg
    PROVE  Combines(Bits, x, y, BitAnd(x, y), x, y)
<1> DEFINE C(n) == CommonBits(x, y)[n]
           Lo(v, n) == v % Pow2[n]
           S == {n \in Nat : C(n) \in Int /\ Combines(n, Lo(x, n), Lo(y, n), C(n), x, y)}
<1>1. x \in Nat /\ y \in Nat /\ x \in Int /\ y \in Int
  BY WordFact DEF Reg
<1>2. 0 \in S
  <2>1. C(0) = 0 /\ Pow2[0] = 1
    BY <1>1, CommonSteps, Pow2Steps
  <2>2. Lo(x, 0) = 0 /\ Lo(y, 0) = 0
    BY <1>1, <2>1
  <2> HIDE DEF C, Lo
  <2>3. Combines(0, 0, 0, 0, x, y)
    BY <2>1 DEF Combines
  <2> QED
    BY <2>1, <2>2, <2>3
<1>3. ASSUME NEW n \in Nat, n \in S PROVE n + 1 \in S
  <2> DEFINE p == Pow2[n]
             i == BitOf(x, n)
             j == BitOf(y, n)
             a == Lo(x, n)
             b == Lo(y, n)
             c == C(n)
  <2>1. i \in {0, 1} /\ j \in {0, 1} /\ p \in Nat \ {0}
    BY <1>1, AboveType, Pow2Type
  <2>2. C(n + 1) = c + i * j * p
    BY <1>1, CommonSteps
  <2>3. a \in 0 .. p - 1 /\ b \in 0 .. p - 1 /\ Lo(x, n + 1) = a + i * p /\ Lo(y, n + 1) = b + j * p
    BY <1>1, LowBits
  <2>4. c \in Int /\ Combines(n, a, b, c, x, y)
    BY <1>3
  <2> HIDE DEF C, Lo, a, b, c
  <2>5. Combines(n + 1, a + i * p, b + j * p, c + i * j * p, x, y)
    <3>1. a \in Int /\ b \in Int
      BY <2>3, <2>1
    <3> QED
      BY <1>1, <2>4, <3>1, CombinesStep
  <2>6. c + i * j * p \in Int
    <3> HIDE DEF i, j, p
    <3>1. i * j \in {0, 1}
      BY <2>1
    <3> QED
      BY <2>1, <2>4, <3>1
  <2> HIDE DEF i, j, p
  <2>7. C(n + 1) \in Int /\ Combines(n + 1, Lo(x, n + 1), Lo(y, n + 1), C(n + 1), x, y)
    BY <2>2, <2>3, <2>5, <2>6
  <2> QED
    BY <2>7
<1> HIDE DEF S
<1>4. Nat \subseteq S
  BY <1>2, <1>3, SetInduction
<1>5. Bits \in Nat /\ W = Pow2[Bits]
  BY WordPower
<1>6. Combines(Bits, Lo(x, Bits), Lo(y, Bits), C(Bits), x, y)
  BY <1>4, <1>5 DEF S
<1>7. Lo(x, Bits) = x /\ Lo(y, Bits) = y
  BY <1>5, SignedSums DEF Unsigned
<1> QED
  BY <1>6, <1>7 DEF BitAnd

LEMMA WordBits ==
    ASSUME NEW x \in Reg, NEW y \in Reg
    PROVE  /\ {BitAnd(x, y), BitOr(x, y), BitXor(x, y), W - 1 - BitOr(x, y)} \subseteq Reg
           /\ \A i \in 0 .. Bits - 1 :
                 /\ BitOf(x, i) \in {0, 1} /\ BitOf(y, i) \in {0, 1}
                 /\ BitOf(BitAnd(x, y), i) = BitOf(x, i) * BitOf(y, i)
                 /\ BitOf(BitOr(x, y), i) = (BitOf(x, i) + BitOf(y, i) + BitOf(x, i) * BitOf(y, i)) % 2
                 /\ BitOf(BitXor(x, y), i) = (BitOf(x, i) + BitOf(y, i)) % 2
                 /\ BitOf(W - 1 - BitOr(x, y), i) = (1 - BitOf(x, i)) * (1 - BitOf(y, i))
<1> DEFINE a == BitAnd(x, y)
           o == BitOr(x, y)
           e == BitXor(x, y)
           m == Bits
<1>1. m \in Nat /\ W = Pow2[m] /\ x \in Int /\ y \in Int
  BY WordPower, WordFact DEF Reg
<1>2. o = x + y - a /\ e = x + y - 2 * a
  BY DEF BitOr, BitXor
<1>3. Combines(m, x, y, a, x, y)
  BY CombinedBits
<1> HIDE DEF a, o, e, m
<1>4. {a, o, e} \subseteq Reg
  BY <1>1, <1>2, <1>3 DEF Combines, Reg
<1>5. o \in 0 .. Pow2[m] - 1
  BY <1>1, <1>4 DEF Reg
<1>6. m \in Nat \ {0}
  BY WordPower DEF m
<1>7. ASSUME NEW i \in 0 .. m - 1
      PROVE  /\ BitOf(x, i) \in {0, 1} /\ BitOf(y, i) \in {0, 1}
             /\ BitOf(a, i) = BitOf(x, i) * BitOf(y, i)
             /\ BitOf(o, i) = (BitOf(x, i) + BitOf(y, i) + BitOf(x, i) * BitOf(y, i)) % 2
             /\ BitOf(e, i) = (BitOf(x, i) + BitOf(y, i)) % 2
             /\ W - 1 - o \in Reg
             /\ BitOf(W - 1 - o, i) = (1 - BitOf(x, i)) * (1 - BitOf(y, i))
  <2> DEFINE p == BitOf(x, i)
             q == BitOf(y, i)
  <2>0. i \in Nat
    BY <1>1
  <2>1. p \in {0, 1} /\ q \in {0, 1}
    BY <1>1, <2>0, AboveType
  <2>2. BitOf(a, i) = AndBit(p, q) /\ BitOf(o, i) = OrBit(p, q) /\ BitOf(e, i) = XorBit(p, q)
    BY <1>2, <1>3 DEF Combines
  <2>3. W - 1 - o \in Reg /\ BitOf(W - 1 - o, i) = 1 - OrBit(p, q)
    BY <1>1, <1>5, <2>2, ComplementBits DEF Reg
  <2> HIDE DEF p, q
  <2>4. /\ AndBit(p, q) = p * q /\ OrBit(p, q) = (p + q + p * q) % 2 /\ XorBit(p, q) = (p + q) % 2
        /\ 1 - OrBit(p, q) = (1 - p) * (1 - q)
    BY <2>1 DEF AndBit, OrBit, XorBit
  <2> QED
    BY <2>1, <2>2, <2>3, <2>4 DEF p, q
<1>8. 0 \in 0 .. m - 1
  BY <1>6
<1>9. W - 1 - o \in Reg
  BY <1>7, <1>8
<1> QED
  BY <1>4, <1>7, <1>9 DEF a, o, e, m

-----------------------------------------------------------------------------
(* A word rotated by any number, from its two shifts.                       *)
LEMMA ShiftTypes ==
    ASSUME NEW v \in Reg, NEW s \in Nat
    PROVE  LeftShift(v, s) \in Reg /\ RightShift(v, s) \in Reg
<1> DEFINE p == Pow2[s]
           d == v \div p
           m == v % p
           w == W
<1>1. p \in Nat \ {0} /\ v \in 0 .. w - 1 /\ v \in Nat /\ w \in Nat
  BY Pow2Type, WordFact DEF Reg
<1> HIDE DEF p, w
<1>2. d \in Nat /\ m \in 0 .. p - 1 /\ v = d * p + m
  BY <1>1, SplitFact
<1> HIDE DEF d, m
<1>3. d <= d * p
  BY <1>1, <1>2, Z3
<1> DEFINE dp == d * p
<1>4. dp \in Nat
  BY <1>1, <1>2, Z3
<1> HIDE DEF dp
<1>5. d <= v
  <2>1. d <= dp /\ v = dp + m
    BY <1>2, <1>3 DEF dp
  <2> QED
    BY <1>1, <1>2, <1>4, <2>1
<1>6. v * p \in Int
  BY <1>1
<1>7. Unsigned(v * p) \in Reg
  BY <1>6, UnsignedType
<1>8. d \in Reg
  BY <1>1, <1>2, <1>5 DEF Reg, w
<1> QED
  BY <1>7, <1>8 DEF LeftShift, RightShift, d, p

(* One of the shifts brings each bit to its place, the other none.          *)
LEMMA RotatedBit ==
    ASSUME NEW x \in Reg, NEW a \in 0 .. Bits - 1, NEW c \in 0 .. Bits - 1,
           a + c \in {0, Bits}, NEW i \in 0 .. Bits - 1
    PROVE  LET l == BitOf(LeftShift(x, c), i)
               r == BitOf(RightShift(x, a), i)
               b == BitOf(x, (i + a) % Bits)
           IN  b \in {0, 1} /\ (l = b \/ l = 0) /\ (r = b \/ r = 0) /\ (l = b \/ r = b)
<1> DEFINE m == Bits
           l == BitOf(LeftShift(x, c), i)
           r == BitOf(RightShift(x, a), i)
           k == (i + a) % m
<1>1. m \in Nat \ {0} /\ x \in Int
  BY WordPower, WordFact DEF Reg
<1>2. l = (IF i - c \in 0 .. m - 1 THEN BitOf(x, i - c) ELSE 0) /\ r = (IF i + a \in 0 .. m - 1 THEN BitOf(x, i + a) ELSE 0)
  BY ShiftBits
<1>3. a \in 0 .. m - 1 /\ c \in 0 .. m - 1 /\ a + c \in {0, m} /\ i \in 0 .. m - 1
  OBVIOUS
<1> HIDE DEF m, l, r
<1>4. k = IF i + a < m THEN i + a ELSE i + a - m
  BY <1>1, <1>3
<1>5. k \in 0 .. m - 1 /\ k \in Nat
  BY <1>1, <1>3, <1>4
<1> HIDE DEF k
<1>6. BitOf(x, k) \in {0, 1}
  BY <1>1, <1>5, AboveType
<1> DEFINE b == BitOf(x, k)
<1>7. b \in {0, 1} /\ (l = b \/ l = 0) /\ (r = b \/ r = 0) /\ (l = b \/ r = b)
  <2>1. CASE a + c = 0
    BY <1>1, <1>2, <1>3, <1>4, <1>6, <2>1
  <2>2. CASE a + c = m /\ i + a < m
    <3>1. i - c < 0
      BY <1>1, <1>3, <2>2
    <3> QED
      BY <1>1, <1>2, <1>3, <1>4, <1>6, <2>2, <3>1
  <2>3. CASE a + c = m /\ i + a >= m
    <3>1. i - c = k
      BY <1>1, <1>3, <1>4, <2>3
    <3> QED
      BY <1>1, <1>2, <1>3, <1>5, <1>6, <2>3, <3>1
  <2> QED
    BY <1>1, <1>3, <2>1, <2>2, <2>3
<1> QED
  BY <1>7 DEF b, l, r, k, m

(* Amounts that are opposite modulo the number of bits.                     *)
LEMMA OppositeAmounts ==
    ASSUME NEW m \in Nat \ {0}, NEW y \in Int
    PROVE  /\ y % m \in 0 .. m - 1 /\ (-y) % m \in 0 .. m - 1
           /\ (y % m) + ((-y) % m) \in {0, m}
<1> DEFINE a == y % m
           c == (-y) % m
           n == -y
<1>1. PICK q \in Int : y = q * m + a
  BY ModSplit
<1>2. n \in Int
  OBVIOUS
<1>3. PICK p \in Int : n = p * m + c
  BY <1>2, ModSplit
<1>4. a \in 0 .. m - 1 /\ c \in 0 .. m - 1
  BY <1>2, ModSplit
<1> HIDE DEF a, c
<1> DEFINE k == -(p + q)
<1>5. a + c = k * m /\ k \in Int
  BY <1>1, <1>3, <1>4, Z3 DEF n
<1> HIDE DEF k
<1>6. k >= 0
  <2>1. ASSUME k <= -1 PROVE FALSE
    <3>1. k * m <= -m
      BY <1>5, <2>1, Z3
    <3> DEFINE km == k * m
    <3>2. km \in Int
      BY <1>5
    <3> HIDE DEF km
    <3>3. km <= -m /\ a + c = km
      BY <1>5, <3>1 DEF km
    <3> QED
      BY <1>4, <3>2, <3>3
  <2> QED
    BY <1>5, <2>1
<1>7. k <= 1
  <2>1. ASSUME k >= 2 PROVE FALSE
    <3>1. k * m >= 2 * m
      BY <1>5, <2>1, Z3
    <3> DEFINE km == k * m
    <3>2. km \in Int
      BY <1>5
    <3> HIDE DEF km
    <3>3. km >= 2 * m /\ a + c = km
      BY <1>5, <3>1 DEF km
    <3> QED
      BY <1>4, <3>2, <3>3
  <2> QED
    BY <1>5, <2>1
<1>8. k = 0 \/ k = 1
  BY <1>5, <1>6, <1>7
<1>9. a + c = 0 \/ a + c = m
  BY <1>5, <1>8
<1> QED
  BY <1>4, <1>9 DEF a, c

LEMMA RotatedWord ==
    ASSUME NEW x \in Reg, NEW y \in Int
    PROVE  LET a == y % Bits
               c == (-y) % Bits
           IN  /\ a \in 0 .. Bits - 1 /\ c \in 0 .. Bits - 1
               /\ {LeftShift(x, c), RightShift(x, a), LeftShift(x, a), RightShift(x, c)} \subseteq Reg
               /\ \A i \in 0 .. Bits - 1 :
                     /\ BitOf(BitOr(RightShift(x, a), LeftShift(x, c)), i) = BitOf(x, (i + y) % Bits)
                     /\ BitOf(BitOr(LeftShift(x, a), RightShift(x, c)), i) = BitOf(x, (i - y) % Bits)
<1> DEFINE m == Bits
           a == y % m
           c == (-y) % m
<1>1. m \in Nat \ {0}
  BY WordPower
<1>2. a \in 0 .. m - 1 /\ c \in 0 .. m - 1 /\ a + c \in {0, m} /\ c + a \in {0, m} /\ a \in Nat /\ c \in Nat
  <2> HIDE DEF m
  <2>1. a \in 0 .. m - 1 /\ c \in 0 .. m - 1 /\ a + c \in {0, m}
    BY <1>1, OppositeAmounts
  <2> HIDE DEF a, c
  <2> QED
    BY <1>1, <2>1
<1>3. ASSUME NEW i \in 0 .. m - 1
      PROVE  (i + a) % m = (i + y) % m /\ (i + c) % m = (i - y) % m
  <2> HIDE DEF m
  <2>1. i \in Int /\ -y \in Int /\ i + (-y) = i - y
    BY <1>1
  <2> QED
    BY <1>1, <2>1, ModAdd
<1> HIDE DEF a, c
<1>4. {LeftShift(x, c), RightShift(x, a), LeftShift(x, a), RightShift(x, c)} \subseteq Reg
  BY <1>2, ShiftTypes
<1> DEFINE la == LeftShift(x, a)
           lc == LeftShift(x, c)
           ra == RightShift(x, a)
           rc == RightShift(x, c)
<1>5. ASSUME NEW i \in 0 .. m - 1
      PROVE  /\ BitOf(BitOr(ra, lc), i) = BitOf(x, (i + a) % m)
             /\ BitOf(BitOr(la, rc), i) = BitOf(x, (i + c) % m)
  <2> DEFINE b == BitOf(x, (i + a) % m)
             d == BitOf(x, (i + c) % m)
  <2>1. b \in {0, 1} /\ (BitOf(lc, i) = b \/ BitOf(lc, i) = 0) /\ (BitOf(ra, i) = b \/ BitOf(ra, i) = 0) /\ (BitOf(lc, i) = b \/ BitOf(ra, i) = b)
    BY <1>2, RotatedBit
  <2>2. d \in {0, 1} /\ (BitOf(la, i) = d \/ BitOf(la, i) = 0) /\ (BitOf(rc, i) = d \/ BitOf(rc, i) = 0) /\ (BitOf(la, i) = d \/ BitOf(rc, i) = d)
    BY <1>2, RotatedBit
  <2> HIDE DEF b, d, la, lc, ra, rc
  <2>3. la \in Reg /\ lc \in Reg /\ ra \in Reg /\ rc \in Reg
    BY <1>4 DEF la, lc, ra, rc
  <2>4. /\ BitOf(BitOr(ra, lc), i) = (BitOf(ra, i) + BitOf(lc, i) + BitOf(ra, i) * BitOf(lc, i)) % 2
        /\ BitOf(BitOr(la, rc), i) = (BitOf(la, i) + BitOf(rc, i) + BitOf(la, i) * BitOf(rc, i)) % 2
    BY <2>3, WordBits
  <2> DEFINE p == BitOf(ra, i)
             q == BitOf(lc, i)
             s == BitOf(la, i)
             t == BitOf(rc, i)
  <2> HIDE DEF p, q, s, t
  <2>5. (p + q + p * q) % 2 = b
    BY <2>1 DEF p, q
  <2>6. (s + t + s * t) % 2 = d
    BY <2>2 DEF s, t
  <2> QED
    BY <2>4, <2>5, <2>6 DEF p, q, s, t, b, d
<1>6. ASSUME NEW i \in 0 .. m - 1
      PROVE  /\ BitOf(BitOr(ra, lc), i) = BitOf(x, (i + y) % m)
             /\ BitOf(BitOr(la, rc), i) = BitOf(x, (i - y) % m)
  BY <1>3, <1>5
<1> QED
  BY <1>2, <1>4, <1>6 DEF a, c, m

-----------------------------------------------------------------------------
(* What an instruction that is not the end of its sequence leaves, and the   *)
(* property of the registers and the outcome at the end.                   *)
After(i, r) == IF IsBranch(i) THEN r ELSE [r EXCEPT ![i.d] = Value(i, r)]
Passes(i, r) == IF IsBranch(i) THEN ~Taken(i, r) ELSE ~Overflows(i, r)

Meets(r, o) ==
    /\ \A n \in Registers \ {AT, pseudo.d} : r[n] = first[n]
    /\ pseudo.op \in OrderOps \cup EqualOps => o = IF Holds # Wraps THEN "taken" ELSE "done"
    /\ pseudo.op \in BitOps => o = "done" /\ \A i \in 0 .. Bits - 1 : BitOf(r[pseudo.d], i) = WantedBit(i)
    /\ pseudo.op \in (UnaryOps \cup BinaryOps) \ BitOps =>
           /\ o = IF Trapping # Wraps THEN "overflow" ELSE "done"
           /\ o = "done" => r[pseudo.d] = Unsigned(Meant)

(* Wherever the sequence c, with the registers r before its k-th instruction, *)
(* ends with that instruction, it meets the property; and so it does from   *)
(* there on.                                                               *)
Leaves(i) == IF i.to = 0 THEN "taken" ELSE "done"
Exits(c, k, r) ==
    /\ ~IsBranch(c[k]) => /\ Overflows(c[k], r) => Meets(r, "overflow")
                          /\ ~Overflows(c[k], r) /\ k = Len(c) => Meets(After(c[k], r), "done")
    /\ IsBranch(c[k]) =>
           /\ ~Taken(c[k], r) /\ k = Len(c) => Meets(r, "done")
           /\ Taken(c[k], r) =>
                  /\ c[k].to = 0 \/ k + c[k].to > Len(c)
                  /\ Meets(r, Leaves(c[k]))

Good5(c, r) == Exits(c, 5, r)
Good4(c, r) == Exits(c, 4, r) /\ (4 < Len(c) /\ Passes(c[4], r) => Good5(c, After(c[4], r)))
Good3(c, r) == Exits(c, 3, r) /\ (3 < Len(c) /\ Passes(c[3], r) => Good4(c, After(c[3], r)))
Good2(c, r) == Exits(c, 2, r) /\ (2 < Len(c) /\ Passes(c[2], r) => Good3(c, After(c[2], r)))
Good1(c, r) == Exits(c, 1, r) /\ (1 < Len(c) /\ Passes(c[1], r) => Good2(c, After(c[1], r)))
Good(c, k, r) ==
    /\ k = 1 => Good1(c, r)
    /\ k = 2 => Good2(c, r)
    /\ k = 3 => Good3(c, r)
    /\ k = 4 => Good4(c, r)
    /\ k = 5 => Good5(c, r)

LEMMA GoodUnfolds ==
    ASSUME NEW c, NEW k \in 1 .. 5, NEW r, Len(c) \in 1 .. 5
    PROVE  Good(c, k, r) <=> /\ Exits(c, k, r)
                             /\ k < Len(c) /\ Passes(c[k], r) => Good(c, k + 1, After(c[k], r))
<1>1. CASE k = 1
  BY <1>1 DEF Good, Good1
<1>2. CASE k = 2
  BY <1>2 DEF Good, Good2
<1>3. CASE k = 3
  BY <1>3 DEF Good, Good3
<1>4. CASE k = 4
  BY <1>4 DEF Good, Good4
<1>5. CASE k = 5
  BY <1>5 DEF Good, Good5
<1> QED
  BY <1>1, <1>2, <1>3, <1>4, <1>5

(* The cases that the sequences are made of: an instruction in the middle,   *)
(* one at the end, a branch at the end.                                    *)
LEMMA GoodLink ==
    ASSUME NEW c, NEW k \in 1 .. 4, NEW r, Len(c) \in 1 .. 5, k < Len(c),
           ~IsBranch(c[k]), ~Overflows(c[k], r), Good(c, k + 1, [r EXCEPT ![c[k].d] = Value(c[k], r)])
    PROVE  Good(c, k, r)
<1>1. After(c[k], r) = [r EXCEPT ![c[k].d] = Value(c[k], r)]
  BY DEF After
<1>2. Exits(c, k, r)
  BY DEF Exits
<1> QED
  BY <1>1, <1>2, GoodUnfolds

LEMMA GoodLast ==
    ASSUME NEW c, NEW k \in 1 .. 5, NEW r, Len(c) \in 1 .. 5, k = Len(c), ~IsBranch(c[k]),
           Overflows(c[k], r) => Meets(r, "overflow"),
           ~Overflows(c[k], r) => Meets([r EXCEPT ![c[k].d] = Value(c[k], r)], "done")
    PROVE  Good(c, k, r)
<1>1. After(c[k], r) = [r EXCEPT ![c[k].d] = Value(c[k], r)]
  BY DEF After
<1>2. Exits(c, k, r)
  BY <1>1 DEF Exits
<1>3. ~(k < Len(c))
  OBVIOUS
<1> QED
  BY <1>2, <1>3, GoodUnfolds

LEMMA GoodBranch ==
    ASSUME NEW c, NEW k \in 1 .. 5, NEW r, Len(c) \in 1 .. 5, k = Len(c), IsBranch(c[k]), c[k].to = 0,
           Meets(r, IF Taken(c[k], r) THEN "taken" ELSE "done")
    PROVE  Good(c, k, r)
<1>1. Exits(c, k, r)
  BY DEF Exits, Leaves
<1>2. ~(k < Len(c))
  OBVIOUS
<1> QED
  BY <1>1, <1>2, GoodUnfolds

-----------------------------------------------------------------------------
(* Every step of a sequence keeps it good, and the end meets the property.   *)
Underway ==
    /\ Len(Code) \in 1 .. 5
    /\ outcome = "running" => at \in 1 .. Len(Code) /\ Good(Code, at, now)
    /\ outcome # "running" => Meets(now, outcome)

Stays == UNCHANGED <<pseudo, first>>

LEMMA MeetsStays == Stays => \A r, o : Meets(r, o) => Meets(r, o)'
<1> SUFFICES ASSUME Stays, NEW r, NEW o, Meets(r, o) PROVE Meets(r, o)'
  OBVIOUS
<1> USE DEF Stays
<1>1. X' = X /\ Y' = Y /\ (Immediate' <=> Immediate)
  BY DEF X, Y, Immediate
<1>2. Holds' <=> Holds
  BY <1>1 DEF Holds
<1>3. Meant' = Meant
  BY <1>1 DEF Meant
<1>4. Wraps' <=> Wraps
  BY <1>1 DEF Wraps
<1>5. Trapping' <=> Trapping
  BY <1>3 DEF Trapping, InRange
<1>6. \A i : WantedBit(i)' = WantedBit(i)
  BY <1>1 DEF WantedBit
<1> QED
  BY <1>2, <1>3, <1>4, <1>5, <1>6 DEF Meets

LEMMA GoodStays == Stays => Code' = Code /\ \A c, k, r : Good(c, k, r) => Good(c, k, r)'
<1> SUFFICES ASSUME Stays PROVE Code' = Code /\ \A c, k, r : Good(c, k, r) => Good(c, k, r)'
  OBVIOUS
<1>1. Code' = Code
  BY DEF Stays, Code
<1>2. \A c, k, r : Exits(c, k, r) => Exits(c, k, r)'
  BY MeetsStays DEF Exits, Stays
<1>7. \A c, r : Good5(c, r) => Good5(c, r)'
  BY <1>2 DEF Good5
<1>3. \A c, r : Good4(c, r) => Good4(c, r)'
  BY <1>2, <1>7 DEF Good4
<1>4. \A c, r : Good3(c, r) => Good3(c, r)'
  BY <1>2, <1>3 DEF Good3
<1>5. \A c, r : Good2(c, r) => Good2(c, r)'
  BY <1>2, <1>4 DEF Good2
<1>6. \A c, r : Good1(c, r) => Good1(c, r)'
  BY <1>2, <1>5 DEF Good1
<1> QED
  BY <1>1, <1>3, <1>4, <1>5, <1>6, <1>7 DEF Good

LEMMA ComputeStays == Underway /\ Compute => Underway'
<1> SUFFICES ASSUME Underway, Compute PROVE Underway'
  OBVIOUS
<1> DEFINE c == Code
           i == c[at]
<1>1. Stays /\ c' = c
  BY GoodStays DEF Compute, Stays
<1>2. /\ Len(c) \in 1 .. 5 /\ at \in 1 .. Len(c) /\ at \in 1 .. 5 /\ Good(c, at, now)
      /\ outcome = "running" /\ ~IsBranch(i) /\ now' = Executed(i, now) /\ at' = at + 1
      /\ outcome' = (IF Overflows(i, now) THEN "overflow" ELSE IF at + 1 > Len(c) THEN "done" ELSE "running")
  BY DEF Underway, Compute, Through
<1> HIDE DEF c
<1>3. Exits(c, at, now) /\ (at < Len(c) /\ Passes(i, now) => Good(c, at + 1, After(i, now)))
  BY <1>2, GoodUnfolds
<1>4. After(i, now) = [now EXCEPT ![i.d] = Value(i, now)] /\ (Passes(i, now) <=> ~Overflows(i, now))
  BY <1>2 DEF After, Passes
<1>5. CASE Overflows(i, now)
  <2>1. outcome' = "overflow" /\ now' = now
    BY <1>2, <1>5 DEF Executed
  <2>2. Meets(now, "overflow")
    BY <1>2, <1>3, <1>5 DEF Exits
  <2>3. Meets(now, "overflow")'
    BY <1>1, <2>1, <2>2, MeetsStays
  <2> QED
    BY <1>1, <1>2, <2>1, <2>3 DEF Underway, c
<1>6. CASE ~Overflows(i, now) /\ at = Len(c)
  <2>1. outcome' = "done" /\ now' = After(i, now)
    BY <1>2, <1>4, <1>6 DEF Executed
  <2>2. Meets(After(i, now), "done")
    BY <1>2, <1>3, <1>6 DEF Exits
  <2>3. Meets(now, outcome)'
    BY <1>1, <2>1, <2>2, MeetsStays
  <2> QED
    BY <1>1, <1>2, <2>1, <2>3 DEF Underway, c
<1>7. CASE ~Overflows(i, now) /\ at # Len(c)
  <2>1. outcome' = "running" /\ now' = After(i, now) /\ at' \in 1 .. Len(c)
    BY <1>2, <1>4, <1>7 DEF Executed
  <2>2. Good(c, at + 1, After(i, now))
    BY <1>2, <1>3, <1>4, <1>7
  <2>3. Good(c, at, now)'
    BY <1>1, <1>2, <2>1, <2>2, GoodStays
  <2> QED
    BY <1>1, <1>2, <2>1, <2>3 DEF Underway, c
<1> QED
  BY <1>5, <1>6, <1>7

LEMMA JumpStays == Underway /\ Jump => Underway'
<1> SUFFICES ASSUME Underway, Jump PROVE Underway'
  OBVIOUS
<1> DEFINE c == Code
           i == c[at]
<1>1. Stays /\ c' = c /\ now' = now
  BY GoodStays DEF Jump, Stays
<1>2. /\ Len(c) \in 1 .. 5 /\ at \in 1 .. Len(c) /\ at \in 1 .. 5 /\ Good(c, at, now)
      /\ outcome = "running" /\ IsBranch(i)
      /\ ~Taken(i, now) => at' = at + 1 /\ outcome' = IF at + 1 > Len(c) THEN "done" ELSE "running"
  BY DEF Underway, Jump, Through
<1>3. Taken(i, now) => outcome' = IF i.to = 0 THEN "taken" ELSE IF at + i.to > Len(c) THEN "done" ELSE "running"
  BY DEF Jump, Through
<1> HIDE DEF c
<1>5. Exits(c, at, now) /\ (at < Len(c) /\ Passes(i, now) => Good(c, at + 1, After(i, now)))
  BY <1>2, GoodUnfolds
<1>6. CASE Taken(i, now)
  <2>1. Meets(now, Leaves(i)) /\ (i.to = 0 \/ at + i.to > Len(c))
    BY <1>2, <1>5, <1>6 DEF Exits
  <2>2. outcome' = Leaves(i) /\ outcome' # "running"
    BY <1>3, <1>6, <2>1 DEF Leaves
  <2>3. Meets(now, outcome)'
    BY <1>1, <2>1, <2>2, MeetsStays
  <2> QED
    BY <1>1, <1>2, <2>2, <2>3 DEF Underway, c
<1>7. CASE ~Taken(i, now) /\ at = Len(c)
  <2>1. outcome' = "done" /\ now' = now
    BY <1>1, <1>2, <1>7
  <2>2. Meets(now, "done")
    BY <1>2, <1>5, <1>7 DEF Exits
  <2>3. Meets(now, outcome)'
    BY <1>1, <2>1, <2>2, MeetsStays
  <2> QED
    BY <1>1, <1>2, <2>1, <2>3 DEF Underway, c
<1>8. CASE ~Taken(i, now) /\ at # Len(c)
  <2>1. outcome' = "running" /\ now' = now /\ at' = at + 1 /\ at' \in 1 .. Len(c)
    BY <1>1, <1>2, <1>8
  <2>2. Good(c, at + 1, now)
    BY <1>2, <1>5, <1>8 DEF After, Passes
  <2>3. Good(c, at, now)'
    BY <1>1, <2>1, <2>2, GoodStays
  <2> QED
    BY <1>1, <1>2, <2>1, <2>3 DEF Underway, c
<1> QED
  BY <1>6, <1>7, <1>8

-----------------------------------------------------------------------------
(* What an operation computes of two words, and when it raises Ov.          *)
RegisterOps == {"add", "addu", "sub", "subu", "and", "or", "xor", "nor", "slt", "sltu"}
Computed(f, x, y) ==
    CASE f \in {"add", "addu"} -> Unsigned(x + y)
      [] f \in {"sub", "subu"} -> Unsigned(x - y)
      [] f = "and" -> BitAnd(x, y)
      [] f = "or" -> BitOr(x, y)
      [] f = "xor" -> BitXor(x, y)
      [] f = "nor" -> W - 1 - BitOr(x, y)
      [] f = "slt" -> OneIf(Signed(x) < Signed(y))
      [] f = "sltu" -> OneIf(x < y)
Raises(f, x, y) ==
    \/ f = "add" /\ ~InRange(Signed(x) + Signed(y))
    \/ f = "sub" /\ ~InRange(Signed(x) - Signed(y))

(* The instruction i puts that into the register d.                         *)
Does(i, r, d, f, x, y) ==
    /\ ~IsBranch(i) /\ i.d = d
    /\ Value(i, r) = Computed(f, x, y)
    /\ Overflows(i, r) <=> Raises(f, x, y)

(* It puts v into the register d.                                           *)
Puts(i, r, d, v) == ~IsBranch(i) /\ i.d = d /\ Value(i, r) = v /\ ~Overflows(i, r)

(* The first instruction of a sequence of several, which writes v.          *)
LEMMA FirstGood ==
    ASSUME NEW c, NEW r, NEW d, NEW v, NEW r2, Len(c) \in 2 .. 5, Puts(c[1], r, d, v),
           r2 = [r EXCEPT ![d] = v], Good(c, 2, r2)
    PROVE  Good(c, 1, r)
<1> DEFINE j == 1
<1>1. ~IsBranch(c[j]) /\ ~Overflows(c[j], r) /\ c[j].d = d /\ Value(c[j], r) = v
  BY DEF Puts
<1>2. Good(c, j + 1, r2) /\ j \in 1 .. 4 /\ j < Len(c) /\ Len(c) \in 1 .. 5
  OBVIOUS
<1> HIDE DEF j
<1>3. r2 = [r EXCEPT ![c[j].d] = Value(c[j], r)]
  BY <1>1
<1>4. Good(c, j, r)
  BY <1>1, <1>2, <1>3, GoodLink
<1> QED
  BY <1>4 DEF j

LEMMA ComputedType ==
    ASSUME NEW f \in RegisterOps, NEW x \in Reg, NEW y \in Reg
    PROVE  Computed(f, x, y) \in Reg
<1>1. x \in Int /\ y \in Int
  BY SignedWord
<1>2. Unsigned(x + y) \in Reg /\ Unsigned(x - y) \in Reg
  BY <1>1, UnsignedType
<1>3. BitAnd(x, y) \in Reg /\ BitOr(x, y) \in Reg /\ BitXor(x, y) \in Reg /\ W - 1 - BitOr(x, y) \in Reg
  BY WordBits
<1>4. 0 \in Reg /\ 1 \in Reg
  <2> HIDE DEF W
  <2> QED
    BY WordFact DEF Reg
<1>5. OneIf(Signed(x) < Signed(y)) \in Reg /\ OneIf(x < y) \in Reg
  BY <1>4 DEF OneIf
<1> QED
  BY <1>2, <1>3, <1>5 DEF Computed, RegisterOps

LEMMA SignExtendingOps == \A op \in DOMAIN RegForm :
    RegForm[op] \in {"add", "addu", "slt", "sltu", "and", "or", "xor"} /\ op \notin {"beq", "bne", "bgez", "lui"}
BY DEF RegForm

(* Both overflow tests and the value, whatever the operand comes from.      *)
LEMMA OperationFact ==
    ASSUME NEW i, NEW r, NEW f \in RegisterOps, Operation(i) = f, ~IsBranch(i),
           r[i.a] \in Reg, Operand(i, r) \in Reg
    PROVE  Does(i, r, i.d, f, r[i.a], Operand(i, r))
<1> DEFINE x == r[i.a]
           y == Operand(i, r)
<1>1. Value(i, r) = Computed(f, x, y)
  BY DEF Value, Computed, RegisterOps
<1>2. x \in Reg /\ y \in Reg
  OBVIOUS
<1>3. Overflows(i, r) <=> /\ f \in {"add", "sub"}
                          /\ (SIGN_BIT(x) = SIGN_BIT(y)) <=> f = "add"
                          /\ SIGN_BIT(Value(i, r)) # SIGN_BIT(x)
  BY DEF Overflows
<1> HIDE DEF x, y
<1>4. Overflows(i, r) <=> Raises(f, x, y)
  <2>1. CASE f = "add"
    <3>1. Value(i, r) = Unsigned(x + y)
      BY <1>1, <2>1 DEF Computed
    <3> QED
      BY <1>2, <1>3, <2>1, <3>1, OverflowTests DEF Raises
  <2>2. CASE f = "sub"
    <3>1. Value(i, r) = Unsigned(x - y)
      BY <1>1, <2>2 DEF Computed
    <3> QED
      BY <1>2, <1>3, <2>2, <3>1, OverflowTests DEF Raises
  <2>3. CASE f \notin {"add", "sub"}
    BY <1>3, <2>3 DEF Raises
  <2> QED
    BY <2>1, <2>2, <2>3
<1> QED
  BY <1>1, <1>4 DEF Does, x, y

LEMMA RegisterForm ==
    ASSUME NEW f \in RegisterOps, NEW d, NEW a, NEW b, NEW r, r[a] \in Reg, r[b] \in Reg
    PROVE  Does(R3(f, d, a, b), r, d, f, r[a], r[b])
<1> DEFINE i == R3(f, d, a, b)
<1>1. i.op = f /\ i.d = d /\ i.a = a /\ i.b = b
  BY DEF R3
<1> HIDE DEF i
<1>2. f \notin DOMAIN RegForm /\ f \notin {"beq", "bne", "bgez"}
  BY DEF RegForm, RegisterOps
<1>3. Operand(i, r) = r[b] /\ Operation(i) = f /\ ~IsBranch(i)
  BY <1>1, <1>2 DEF Operand, Operation, IsBranch
<1>4. Does(i, r, i.d, f, r[i.a], Operand(i, r))
  BY <1>1, <1>3, OperationFact
<1> QED
  BY <1>1, <1>3, <1>4 DEF i

LEMMA ImmediateForm ==
    ASSUME NEW op \in DOMAIN RegForm, NEW d, NEW a, NEW r, NEW value \in Reg, r[a] \in Reg, Fits(op, value)
    PROVE  Does(R2Imm(op, d, a, value % B), r, d, RegForm[op], r[a], value)
<1> DEFINE field == value % B
           i == R2Imm(op, d, a, field)
           f == RegForm[op]
<1>1. i.op = op /\ i.d = d /\ i.a = a /\ i.imm = field
  BY DEF R2Imm
<1>2. IF op \in SignExtending THEN SignExtended(field) = value ELSE field = value
  BY FittingField
<1> HIDE DEF i, field
<1>3. f \in RegisterOps /\ ~IsBranch(i)
  BY <1>1, SignExtendingOps DEF RegisterOps, IsBranch
<1>4. Operation(i) = f /\ Operand(i, r) = value
  BY <1>1, <1>2 DEF Operation, Operand
<1> HIDE DEF f
<1>5. Does(i, r, i.d, f, r[i.a], Operand(i, r))
  BY <1>1, <1>3, <1>4, OperationFact
<1> QED
  BY <1>1, <1>4, <1>5 DEF i, f, field

LEMMA UpperForm ==
    ASSUME NEW d, NEW hi, NEW r
    PROVE  Puts(R2Imm("lui", d, 0, hi), r, d, hi * B)
<1> DEFINE i == R2Imm("lui", d, 0, hi)
<1>1. i.op = "lui" /\ i.d = d /\ i.imm = hi
  BY DEF R2Imm
<1> HIDE DEF i
<1>2. Operation(i) = "lui" /\ ~IsBranch(i)
  BY <1>1 DEF Operation, RegForm, IsBranch
<1>3. Value(i, r) = hi * B /\ ~Overflows(i, r)
  BY <1>1, <1>2 DEF Value, Overflows
<1> QED
  BY <1>1, <1>2, <1>3 DEF Puts, i

(* The two halves of a word share no bit, so that "ori" joins them.         *)
LEMMA HalvesJoined ==
    ASSUME NEW hi \in 0 .. B - 1, NEW lo \in 0 .. B - 1
    PROVE  hi * B \in Reg /\ lo \in Reg /\ BitOr(hi * B, lo) = hi * B + lo
<1> DEFINE up == hi * B
           z == BitAnd(up, lo)
<1>1. up \in Reg /\ lo \in Reg
  <2> DEFINE b == B
             w == W
  <2>1. b \in Nat \ {0, 1} /\ w = b * b
    BY WordFact
  <2> HIDE DEF b, w
  <2>2. hi * b \in 0 .. w - 1 /\ lo \in 0 .. w - 1
    <3>1. hi \in 0 .. b - 1 /\ lo \in 0 .. b - 1
      BY DEF b
    <3>2. hi * b \in Nat /\ hi * b <= (b - 1) * b
      BY <2>1, <3>1, Z3
    <3>3. (b - 1) * b = w - b /\ b <= w
      BY <2>1, Z3
    <3> HIDE DEF b, w
    <3> QED
      BY <2>1, <3>1, <3>2, <3>3, Z3
  <2> QED
    BY <2>2 DEF Reg, b, w
<1>2. /\ Bits \in Nat /\ W = Pow2[Bits] /\ HalfBits \in Nat /\ B = Pow2[HalfBits] /\ up \in Int /\ hi \in Int /\ lo \in Int
      /\ 0 <= lo /\ lo < B
  <2>1. Bits \in Nat /\ W = Pow2[Bits] /\ HalfBits \in Nat /\ B = Pow2[HalfBits] /\ up \in Int
    BY <1>1, WordPower, WidthAssumption, SignedWord DEF B
  <2> DEFINE b == B
  <2>2. b \in Nat /\ hi \in 0 .. b - 1 /\ lo \in 0 .. b - 1
    BY WordFact
  <2> HIDE DEF b
  <2>3. hi \in Int /\ lo \in Int /\ 0 <= lo /\ lo < b
    BY <2>2
  <2> QED
    BY <2>1, <2>3 DEF b
<1>3. \A i \in 0 .. Bits - 1 : BitOf(z, i) = 0
  <2> SUFFICES ASSUME NEW i \in 0 .. Bits - 1 PROVE BitOf(z, i) = 0
    OBVIOUS
  <2> DEFINE x == BitOf(up, i)
             y == BitOf(lo, i)
  <2>1. x \in {0, 1} /\ y \in {0, 1} /\ BitOf(z, i) = x * y
    BY <1>1, WordBits
  <2>2. i < HalfBits => x = 0
    BY <1>2, ProductBit
  <2>3. i >= HalfBits => y = 0
    <3> SUFFICES ASSUME HalfBits <= i PROVE y = 0
      BY <1>2
    <3>1. i \in Nat /\ lo < Pow2[HalfBits]
      BY <1>2
    <3> QED
      BY <1>2, <3>1, HighBits
  <2> HIDE DEF x, y, z
  <2>4. x = 0 \/ y = 0
    BY <1>2, <2>2, <2>3
  <2> QED
    BY <2>1, <2>4
<1>4. z \in 0 .. Pow2[Bits] - 1
  BY <1>1, <1>2, WordBits DEF Reg
<1>5. z = 0
  BY <1>2, <1>3, <1>4, NoBits
<1>6. BitOr(up, lo) = up + lo - z
  BY DEF BitOr
<1> HIDE DEF up, z
<1> QED
  BY <1>1, <1>2, <1>5, <1>6 DEF up

LEMMA HalvesOf ==
    ASSUME NEW value \in Reg
    PROVE  value \div B \in 0 .. B - 1 /\ value % B \in 0 .. B - 1 /\ value = (value \div B) * B + (value % B)
<1> DEFINE b == B
           w == W
           q == value \div b
           m == value % b
<1>1. b \in Nat \ {0, 1} /\ w = b * b /\ value \in 0 .. w - 1
  BY WordFact DEF Reg
<1> HIDE DEF b, w
<1>2. value \in Nat /\ value < b * b
  BY <1>1
<1>3. q \in Nat /\ m \in 0 .. b - 1 /\ value = q * b + m
  BY <1>1, <1>2, SplitFact
<1> HIDE DEF q, m
<1>4. q < b
  BY <1>1, <1>2, <1>3, Z3
<1>5. q \in 0 .. b - 1
  BY <1>1, <1>3, <1>4
<1>6. q \in 0 .. b - 1 /\ m \in 0 .. b - 1 /\ value = q * b + m
  BY <1>3, <1>5
<1> QED
  BY <1>6 DEF b, q, m

(* Nothing is raised, and nothing changed, by adding to zero.               *)
LEMMA ZeroOperand ==
    ASSUME NEW v \in Reg
    PROVE  0 \in Reg /\ BitOr(0, v) = v /\ Unsigned(0 + v) = v /\ Signed(0) = 0
<1>1. 0 \in Reg
  <2> HIDE DEF W
  <2> QED
    BY WordFact DEF Reg
<1>2. Unsigned(0 + v) = v
  <2>1. 0 + v = v
    BY SignedWord
  <2> QED
    BY <2>1, SignedSums
<1>3. BitAnd(0, v) = 0
  <2> DEFINE z == BitAnd(0, v)
  <2>1. z \in Reg /\ \A i \in 0 .. Bits - 1 : BitOf(z, i) = BitOf(0, i) * BitOf(v, i) /\ BitOf(v, i) \in {0, 1}
    BY <1>1, WordBits
  <2>2. Bits \in Nat /\ W = Pow2[Bits]
    BY WordPower
  <2> HIDE DEF z
  <2>3. \A i \in 0 .. Bits - 1 : BitOf(z, i) = 0
    <3> SUFFICES ASSUME NEW i \in 0 .. Bits - 1 PROVE BitOf(z, i) = 0
      OBVIOUS
    <3>1. BitOf(0, i) = 0
      BY <2>2, ZeroBits
    <3> DEFINE b == BitOf(v, i)
    <3>2. b \in {0, 1} /\ BitOf(z, i) = 0 * b
      BY <2>1, <3>1
    <3> HIDE DEF b
    <3> QED
      BY <3>2
  <2>4. z \in 0 .. Pow2[Bits] - 1
    BY <2>1, <2>2 DEF Reg
  <2> QED
    BY <2>2, <2>3, <2>4, NoBits DEF z
<1>4. BitOr(0, v) = v
  <2>1. v \in Int
    BY SignedWord
  <2> QED
    BY <1>3, <2>1 DEF BitOr
<1>5. Signed(0) = 0
  BY <1>1, SignedRange
<1> QED
  BY <1>1, <1>2, <1>4, <1>5

LEMMA AddingToZero ==
    ASSUME NEW v \in Reg, NEW f \in {"add", "addu", "or"}
    PROVE  Computed(f, 0, v) = v /\ ~Raises(f, 0, v)
<1>1. Computed(f, 0, v) = v
  BY ZeroOperand DEF Computed
<1>2. Signed(0) + Signed(v) = Signed(v) /\ InRange(Signed(v))
  BY SignedWord, ZeroOperand
<1>3. ~Raises(f, 0, v)
  BY <1>2 DEF Raises
<1> QED
  BY <1>1, <1>3

(* "ori" with a half that fits, of a register whose lower half is zero.     *)
LEMMA LowerForm ==
    ASSUME NEW d, NEW a, NEW r, NEW hi \in 0 .. B - 1, NEW lo \in 0 .. B - 1, r[a] = hi * B
    PROVE  Puts(R2Imm("ori", d, a, lo), r, d, hi * B + lo)
<1> DEFINE up == hi * B
           i == R2Imm("ori", d, a, lo % B)
<1>1. up \in Reg /\ lo \in Reg /\ BitOr(up, lo) = up + lo
  BY HalvesJoined
<1>2. "ori" \in DOMAIN RegForm /\ RegForm["ori"] = "or" /\ "ori" \notin SignExtending
  BY DEF RegForm, SignExtending
<1>3. Fits("ori", lo)
  BY <1>2, WordFact DEF Fits
<1>4. lo % B = lo
  BY <1>1, <1>2, <1>3, FittingField
<1> HIDE DEF up
<1>5. Does(i, r, d, "or", up, lo)
  BY <1>1, <1>2, <1>3, ImmediateForm DEF up
<1> HIDE DEF i
<1>6. Computed("or", up, lo) = up + lo /\ ~Raises("or", up, lo)
  BY <1>1 DEF Computed, Raises
<1>7. Puts(i, r, d, up + lo)
  BY <1>5, <1>6 DEF Does, Puts
<1> QED
  BY <1>4, <1>7 DEF i, up

(* What produce_immediate makes puts the word into the register.            *)
LEMMA ProducedImmediate ==
    ASSUME NEW d, NEW value \in Reg, NEW r \in [Registers -> Reg], r[0] = 0
    PROVE  \/ \E i : produce_immediate(d, value) = <<i>> /\ Puts(i, r, d, value)
           \/ \E i, j : \E h \in Reg : /\ produce_immediate(d, value) = <<i, j>>
                                       /\ Puts(i, r, AT, h) /\ Puts(j, [r EXCEPT ![AT] = h], d, value)
<1> DEFINE hi == value \div B
           lo == value % B
           up == hi * B
<1>1. hi \in 0 .. B - 1 /\ lo \in 0 .. B - 1 /\ value = up + lo /\ AT \in Registers /\ up \in Reg
  <2>1. hi \in 0 .. B - 1 /\ lo \in 0 .. B - 1 /\ value = up + lo
    BY HalvesOf
  <2> QED
    BY <2>1, HalvesJoined DEF Registers
<1>2. CASE lo = 0
  <2>1. produce_immediate(d, value) = <<R2Imm("lui", d, 0, hi)>>
    BY <1>2 DEF produce_immediate
  <2>2. Puts(R2Imm("lui", d, 0, hi), r, d, up)
    BY UpperForm
  <2>3. up = value
    <3> HIDE DEF up, lo
    <3>1. up \in Int
      BY <1>1, SignedWord
    <3> QED
      BY <1>1, <1>2, <3>1
  <2> HIDE DEF up, hi
  <2> QED
    BY <2>1, <2>2, <2>3
<1>3. CASE lo # 0 /\ value < B
  <2> DEFINE i == R2Imm("ori", d, 0, value)
             none == 0
  <2>1. produce_immediate(d, value) = <<i>>
    BY <1>3 DEF produce_immediate
  <2>2. value \in 0 .. B - 1 /\ none * B = none /\ none + value = value /\ none \in 0 .. B - 1
    <3> DEFINE b == B
    <3>1. b \in Nat \ {0} /\ value \in Int /\ 0 <= value /\ value < b
      BY <1>3, SignedWord, WordFact
    <3> HIDE DEF b
    <3>2. value \in 0 .. b - 1 /\ none * b = none /\ none + value = value /\ none \in 0 .. b - 1
      BY <3>1
    <3> QED
      BY <3>2 DEF b
  <2> HIDE DEF none
  <2>3. Puts(i, r, d, none * B + value)
    <3>1. r[0] = none * B
      BY <2>2 DEF none
    <3> QED
      BY <2>2, <3>1, LowerForm
  <2> HIDE DEF i
  <2> QED
    BY <2>1, <2>2, <2>3
<1>4. CASE lo # 0 /\ ~(value < B)
  <2> DEFINE i == R2Imm("lui", AT, 0, hi)
             j == R2Imm("ori", d, AT, lo)
             r2 == [r EXCEPT ![AT] = up]
  <2>1. produce_immediate(d, value) = <<i, j>>
    BY <1>4 DEF produce_immediate
  <2>2. Puts(i, r, AT, up)
    BY UpperForm
  <2>3. r2[AT] = up
    BY <1>1
  <2> HIDE DEF i, r2
  <2>4. Puts(j, r2, d, value)
    BY <1>1, <2>3, LowerForm
  <2> HIDE DEF j, up
  <2> QED
    BY <1>1, <2>1, <2>2, <2>4 DEF r2
<1> QED
  BY <1>2, <1>3, <1>4

(* The first n instructions of the sequence c put v into $at.               *)
Brings(c, n, r, v) ==
    \/ n = 1 /\ Puts(c[1], r, AT, v)
    \/ n = 2 /\ \E h \in Reg : Puts(c[1], r, AT, h) /\ Puts(c[2], [r EXCEPT ![AT] = h], AT, v)

LEMMA Brought ==
    ASSUME NEW r \in [Registers -> Reg], NEW v, NEW c, NEW n \in {1, 2}, Brings(c, n, r, v),
           Len(c) \in 1 .. 5, n < Len(c), Good(c, n + 1, [r EXCEPT ![AT] = v])
    PROVE  Good(c, 1, r)
<1> DEFINE r2 == [r EXCEPT ![AT] = v]
<1>1. AT \in Registers
  BY DEF Registers
<1>2. CASE n = 1
  <2>1. Len(c) \in 2 .. 5 /\ Puts(c[1], r, AT, v) /\ Good(c, 2, r2)
    BY <1>2 DEF Brings
  <2> QED
    BY <2>1, FirstGood
<1>3. CASE n = 2
  <2>a. n # 1
    BY <1>3
  <2>b. \E h \in Reg : Puts(c[1], r, AT, h) /\ Puts(c[2], [r EXCEPT ![AT] = h], AT, v)
    BY <2>a, Zenon DEF Brings
  <2>1. PICK h \in Reg : Puts(c[1], r, AT, h) /\ Puts(c[2], [r EXCEPT ![AT] = h], AT, v)
    BY <2>b, Zenon
  <2> DEFINE r1 == [r EXCEPT ![AT] = h]
             k == 2
  <2>2. r2 = [r1 EXCEPT ![AT] = v]
    BY <1>1
  <2>3. Len(c) \in 2 .. 5 /\ k \in 1 .. 4 /\ k < Len(c) /\ n + 1 = k + 1
    BY <1>3
  <2> HIDE DEF r1
  <2>4. ~IsBranch(c[k]) /\ ~Overflows(c[k], r1) /\ c[k].d = AT /\ Value(c[k], r1) = v
    BY <2>1 DEF Puts, r1
  <2>5. Good(c, k + 1, [r1 EXCEPT ![c[k].d] = Value(c[k], r1)])
    BY <2>2, <2>3, <2>4
  <2> HIDE DEF k
  <2>6. Good(c, k, r1)
    BY <2>3, <2>4, <2>5, GoodLink
  <2> QED
    BY <2>1, <2>3, <2>6, FirstGood DEF k, r1
<1> QED
  BY <1>2, <1>3

(* A sequence with another after it.                                        *)
IsSequence(t) == \E T : t \in Seq(T)

IsJoined(c, t, u) ==
    /\ Len(c) = Len(t) + Len(u) /\ Len(t) \in Nat /\ Len(u) \in Nat
    /\ \A n \in 1 .. Len(t) : c[n] = t[n]
    /\ \A n \in 1 .. Len(u) : c[Len(t) + n] = u[n]
    /\ IsSequence(c)

LEMMA Appended ==
    ASSUME NEW front, IsSequence(front), NEW rest, IsSequence(rest)
    PROVE  IsJoined(front \o rest, front, rest)
<1> DEFINE whole == front \o rest
<1>1. PICK T : front \in Seq(T)
  BY DEF IsSequence
<1>2. PICK U : rest \in Seq(U)
  BY DEF IsSequence
<1>3. front \in Seq(T \cup U) /\ rest \in Seq(T \cup U)
  BY <1>1, <1>2
<1>4. whole \in Seq(T \cup U)
  BY <1>3
<1>5. Len(whole) = Len(front) + Len(rest) /\ Len(front) \in Nat /\ Len(rest) \in Nat
  BY <1>3
<1>6. \A n \in 1 .. Len(front) : whole[n] = front[n]
  BY <1>3
<1>7. \A n \in 1 .. Len(rest) : whole[Len(front) + n] = rest[n]
  BY <1>3
<1> QED
  BY <1>4, <1>5, <1>6, <1>7 DEF IsSequence, IsJoined

LEMMA Literals ==
    /\ \A i : IsSequence(<<i>>)
    /\ \A i, j : IsSequence(<<i, j>>)
    /\ \A i, j, k : IsSequence(<<i, j, k>>)
<1>1. \A i : <<i>> \in Seq({i})
  OBVIOUS
<1>2. \A i, j : <<i, j>> \in Seq({i, j})
  OBVIOUS
<1>3. \A i, j, k : <<i, j, k>> \in Seq({i, j, k})
  OBVIOUS
<1> QED
  BY <1>1, <1>2, <1>3 DEF IsSequence

LEMMA BringsAppended ==
    ASSUME NEW r, NEW v, NEW t, NEW n \in {1, 2}, Brings(t, n, r, v), n <= Len(t), IsSequence(t),
           NEW u, IsSequence(u), NEW c, c = t \o u
    PROVE  Brings(c, n, r, v)
<1>0. IsJoined(c, t, u)
  BY Appended, Zenon
<1>1. n = 2 => c[1] = t[1] /\ c[2] = t[2]
  BY <1>0 DEF IsJoined
<1>2. n = 1 => c[1] = t[1]
  BY <1>0 DEF IsJoined
<1> QED
  BY <1>1, <1>2 DEF Brings

(* What the assembler brings to $at alone: produce_immediate, and "ori".    *)
Loads(t, r, v) == Len(t) \in {1, 2} /\ IsSequence(t) /\ Brings(t, Len(t), r, v)

LEMMA ProducedLoads ==
    ASSUME NEW value \in Reg, NEW r \in [Registers -> Reg], r[0] = 0
    PROVE  Loads(produce_immediate(AT, value), r, value)
<1> DEFINE t == produce_immediate(AT, value)
<1>1. \/ \E i : t = <<i>> /\ Puts(i, r, AT, value)
      \/ \E i, j : \E h \in Reg : t = <<i, j>> /\ Puts(i, r, AT, h) /\ Puts(j, [r EXCEPT ![AT] = h], AT, value)
  BY ProducedImmediate
<1> HIDE DEF t
<1>2. ASSUME NEW i, t = <<i>>, Puts(i, r, AT, value) PROVE Loads(t, r, value)
  BY <1>2, Literals DEF Loads, Brings
<1>3. ASSUME NEW i, NEW j, NEW h \in Reg, t = <<i, j>>, Puts(i, r, AT, h), Puts(j, [r EXCEPT ![AT] = h], AT, value)
      PROVE  Loads(t, r, value)
  <2>1. Len(t) = 2 /\ t[1] = i /\ t[2] = j /\ IsSequence(t)
    BY <1>3, Literals
  <2> QED
    BY <1>3, <2>1 DEF Loads, Brings
<1> QED
  BY <1>1, <1>2, <1>3 DEF t

(* An operation with an immediate of a whole word is one instruction, or     *)
(* some that put a word into $at and one that uses it.                     *)
Immediately(t, r, d, f, x, y) ==
    /\ IsSequence(t)
    /\ \/ Len(t) = 1 /\ Does(t[1], r, d, f, x, y)
       \/ \E n \in {1, 2} : \E h \in Reg : /\ Len(t) = n + 1 /\ Brings(t, n, r, h)
                                           /\ Does(t[n + 1], [r EXCEPT ![AT] = h], d, f, x, y)

LEMMA ImmediateInstructions ==
    ASSUME NEW op \in DOMAIN RegForm, NEW d, NEW a, a # AT, NEW value \in Reg,
           NEW r \in [Registers -> Reg], r[0] = 0, a \in Registers
    PROVE  Immediately(i_type_inst(op, d, a, value), r, d, RegForm[op], r[a], value)
<1> DEFINE f == RegForm[op]
           t == i_type_inst(op, d, a, value)
<1>0. f \in RegisterOps /\ r[a] \in Reg /\ AT \in Registers
  BY SignExtendingOps DEF RegisterOps, Registers
<1>1. CASE Fits(op, value)
  <2> DEFINE i == R2Imm(op, d, a, value % B)
  <2>1. t = <<i>>
    BY <1>1 DEF i_type_inst
  <2>2. Does(i, r, d, f, r[a], value)
    BY <1>0, <1>1, ImmediateForm
  <2> HIDE DEF i, t, f
  <2> QED
    BY <2>1, <2>2, Literals DEF Immediately, t, f
<1>2. CASE ~Fits(op, value) /\ op \in {"ori", "addi", "addiu"} /\ a = 0
  <2>1. t = produce_immediate(d, value)
    BY <1>2 DEF i_type_inst
  <2>2. f \in {"add", "addu", "or"}
    BY <1>2 DEF RegForm
  <2>3. Computed(f, 0, value) = value /\ ~Raises(f, 0, value) /\ r[a] = 0
    BY <1>2, <2>2, AddingToZero
  <2> HIDE DEF f, t
  <2>4. \A i, r1 : Puts(i, r1, d, value) => Does(i, r1, d, f, r[a], value)
    BY <2>3 DEF Does, Puts
  <2>5. ASSUME NEW i, t = <<i>>, Puts(i, r, d, value) PROVE Immediately(t, r, d, f, r[a], value)
    BY <2>4, <2>5, Literals DEF Immediately
  <2>6. ASSUME NEW i, NEW j, NEW h \in Reg, t = <<i, j>>, Puts(i, r, AT, h), Puts(j, [r EXCEPT ![AT] = h], d, value)
        PROVE  Immediately(t, r, d, f, r[a], value)
    <3> DEFINE n == 1
    <3>1. Len(t) = n + 1 /\ t[1] = i /\ t[n + 1] = j /\ IsSequence(t) /\ n \in {1, 2}
      BY <2>6, Literals
    <3>2. Brings(t, n, r, h)
      BY <2>6, <3>1 DEF Brings
    <3>3. Does(t[n + 1], [r EXCEPT ![AT] = h], d, f, r[a], value)
      BY <2>4, <2>6, <3>1
    <3> HIDE DEF n
    <3> QED
      BY <3>1, <3>2, <3>3 DEF Immediately
  <2>7. \/ \E i : t = <<i>> /\ Puts(i, r, d, value)
        \/ \E i, j : \E h \in Reg : t = <<i, j>> /\ Puts(i, r, AT, h) /\ Puts(j, [r EXCEPT ![AT] = h], d, value)
    BY <2>1, ProducedImmediate
  <2> QED
    BY <2>5, <2>6, <2>7 DEF f, t
<1>3. CASE ~Fits(op, value) /\ ~(op \in {"ori", "addi", "addiu"} /\ a = 0)
  <2> DEFINE l == produce_immediate(AT, value)
             j == R3(f, d, a, AT)
             u == <<j>>
             r2 == [r EXCEPT ![AT] = value]
             n == Len(l)
  <2>1. t = l \o u
    BY <1>3 DEF i_type_inst
  <2>2. Loads(l, r, value)
    BY ProducedLoads
  <2>3. r2[a] = r[a] /\ r2[AT] = value
    BY <1>0
  <2>4. Does(j, r2, d, f, r2[a], r2[AT])
    <3> HIDE DEF r2, f
    <3> QED
      BY <1>0, <2>3, RegisterForm
  <2> HIDE DEF l, j, t, f
  <2>5. IsSequence(u) /\ Len(u) = 1 /\ u[1] = j
    BY Literals
  <2> HIDE DEF u, r2
  <2>6. n \in {1, 2} /\ IsSequence(l) /\ Brings(l, n, r, value)
    BY <2>2 DEF Loads
  <2>7. Len(t) = n + 1 /\ t[n + 1] = j /\ IsSequence(t)
    <3>1. Len(t) = n + Len(u) /\ IsSequence(t) /\ \A m \in 1 .. Len(u) : t[n + m] = u[m]
      <4>1. t = l \o u /\ IsSequence(l) /\ IsSequence(u)
        BY <2>1, <2>5, <2>6
      <4>2. IsJoined(t, l, u)
        BY <4>1, Appended, Zenon
      <4> QED
        BY <4>2 DEF IsJoined
    <3>2. 1 \in 1 .. Len(u)
      BY <2>5
    <3> QED
      BY <2>5, <3>1, <3>2
  <2>8. Brings(t, n, r, value)
    <3>1. n <= Len(l)
      BY <2>6
    <3> QED
      BY <2>1, <2>5, <2>6, <3>1, BringsAppended
  <2> HIDE DEF n
  <2>9. Does(t[n + 1], r2, d, f, r[a], value)
    BY <2>3, <2>4, <2>7
  <2> QED
    BY <2>6, <2>7, <2>8, <2>9 DEF Immediately, r2, t, f
<1> QED
  BY <1>1, <1>2, <1>3

LEMMA ImmediateLoad ==
    ASSUME NEW value \in Reg, NEW r \in [Registers -> Reg], r[0] = 0
    PROVE  Loads(i_type_inst("ori", AT, 0, value), r, value)
<1>0. 0 \in Registers /\ r[0] \in Reg /\ "ori" \in DOMAIN RegForm /\ RegForm["ori"] = "or"
  BY DEF Registers, RegForm
<1>1. CASE Fits("ori", value)
  <2> DEFINE i == R2Imm("ori", AT, 0, value % B)
  <2>1. i_type_inst("ori", AT, 0, value) = <<i>>
    BY <1>1 DEF i_type_inst
  <2>2. Does(i, r, AT, "or", 0, value)
    BY <1>0, <1>1, ImmediateForm
  <2>3. Computed("or", 0, value) = value /\ ~Raises("or", 0, value)
    BY AddingToZero
  <2> HIDE DEF i
  <2>4. Puts(i, r, AT, value)
    BY <2>2, <2>3 DEF Does, Puts
  <2> QED
    BY <2>1, <2>4, Literals DEF Loads, Brings
<1>2. CASE ~Fits("ori", value)
  <2>1. i_type_inst("ori", AT, 0, value) = produce_immediate(AT, value)
    BY <1>2 DEF i_type_inst
  <2> QED
    BY <2>1, ProducedLoads
<1> QED
  BY <1>1, <1>2

LEMMA ImmediateSequence ==
    ASSUME NEW value \in Reg
    PROVE  IsSequence(i_type_inst("ori", AT, 0, value))
<1> DEFINE l == i_type_inst("ori", AT, 0, value)
           r == [n \in Registers |-> 0]
<1>1. r \in [Registers -> Reg] /\ r[0] = 0
  <2>1. 0 \in Reg /\ 0 \in Registers
    BY ZeroOperand DEF Registers
  <2> QED
    BY <2>1
<1> HIDE DEF l, r
<1>2. Loads(l, r, value)
  BY <1>1, ImmediateLoad DEF l
<1> QED
  BY <1>2 DEF Loads, l

LEMMA LoadedLength ==
    ASSUME NEW value \in Reg, NEW u, IsSequence(u), NEW c, c = i_type_inst("ori", AT, 0, value) \o u
    PROVE  Len(c) \in Nat
<1> DEFINE l == i_type_inst("ori", AT, 0, value)
<1>1. IsSequence(l)
  BY ImmediateSequence
<1> HIDE DEF l
<1>2. c = l \o u
  BY DEF l
<1>3. IsJoined(c, l, u)
  BY <1>1, <1>2, Appended, Zenon
<1> QED
  BY <1>3 DEF IsJoined

(* $at loaded before the rest u of the sequence c.                          *)
Enters(c, u, r, v) ==
    \E k \in {2, 3} : /\ Len(c) + 1 = k + Len(u)
                      /\ c[k] = u[1] /\ (Len(u) = 3 => c[k + 1] = u[2] /\ c[k + 2] = u[3])
                      /\ Good(c, k, [r EXCEPT ![AT] = v]) => Good(c, 1, r)

LEMMA LoadedFirst ==
    ASSUME NEW value \in Reg, NEW r \in [Registers -> Reg], r[0] = 0, NEW u, IsSequence(u), Len(u) \in 1 .. 3,
           NEW c, c = i_type_inst("ori", AT, 0, value) \o u
    PROVE  Enters(c, u, r, value)
<1> DEFINE l == i_type_inst("ori", AT, 0, value)
           n == Len(l)
           k == n + 1
           m == Len(u)
           r2 == [r EXCEPT ![AT] = value]
<1>1. Loads(l, r, value) /\ c = l \o u
  BY ImmediateLoad
<1> HIDE DEF l
<1>2. n \in {1, 2} /\ IsSequence(l) /\ Brings(l, n, r, value)
  BY <1>1 DEF Loads
<1>3. Len(c) = n + m /\ (\A j \in 1 .. m : c[n + j] = u[j]) /\ m \in 1 .. 3
  <2>1. IsJoined(c, l, u)
    BY <1>1, <1>2, Appended, Zenon
  <2> QED
    BY <2>1 DEF IsJoined
<1>4. Brings(c, n, r, value)
  <2>1. n <= Len(l)
    BY <1>2
  <2> QED
    BY <1>1, <1>2, <2>1, BringsAppended
<1> HIDE DEF n, m
<1>5. Len(c) \in 1 .. 5 /\ n < Len(c) /\ k \in {2, 3} /\ Len(c) + 1 = k + m
  BY <1>2, <1>3
<1>6. c[k] = u[1]
  <2>1. 1 \in 1 .. m
    BY <1>3
  <2> QED
    BY <1>3, <2>1
<1>7. ASSUME m = 3 PROVE c[k + 1] = u[2] /\ c[k + 2] = u[3]
  <2>1. 2 \in 1 .. m /\ 3 \in 1 .. m
    BY <1>7
  <2>3. c[n + 2] = u[2] /\ c[n + 3] = u[3]
    BY <1>3, <2>1, Zenon
  <2>2. n + 2 = k + 1 /\ n + 3 = k + 2
    BY <1>2
  <2> QED
    BY <2>2, <2>3
<1> HIDE DEF r2
<1>8. ASSUME Good(c, k, r2) PROVE Good(c, 1, r)
  <2>1. Good(c, n + 1, r2)
    BY <1>8
  <2> QED
    BY <1>2, <1>4, <1>5, <2>1, Brought DEF r2
<1> HIDE DEF k
<1> QED
  BY <1>5, <1>6, <1>7, <1>8 DEF m, r2, Enters

-----------------------------------------------------------------------------
(* The pseudo instruction as it was written, with $0 zero before it.        *)
Started ==
    /\ pseudo \in Forms
    /\ first \in [Registers -> Reg] /\ first[0] = 0

(* Only the destination and $at differ from before.                         *)
Frame(r) ==
    /\ r \in [Registers -> Reg] /\ r[0] = 0
    /\ \A n \in Registers \ {AT, pseudo.d} : r[n] = first[n]

LEMMA NamedRegisters ==
    /\ 0 \in Registers /\ AT \in Registers /\ AT # 0
    /\ \A n \in Dests : n \in Registers /\ n # AT /\ n # 0
    /\ \A n \in Sources1 \cup Sources2 : n \in Registers /\ n # AT
BY RegistersAssumption DEF Registers, AT

LEMMA OpSets ==
    ASSUME NEW op
    PROVE  /\ op \in UnaryOps => op \notin RotateOps /\ op \notin BinaryOps /\ op \notin OrderOps /\ op \notin EqualOps
           /\ op \in RotateOps => op \notin UnaryOps /\ op \notin BinaryOps /\ op \notin OrderOps /\ op \notin EqualOps
           /\ op \in BinaryOps => op \notin UnaryOps /\ op \notin RotateOps /\ op \notin OrderOps /\ op \notin EqualOps
           /\ op \in OrderOps => op \notin UnaryOps /\ op \notin RotateOps /\ op \notin BinaryOps /\ op \notin EqualOps
           /\ op \in EqualOps => op \notin UnaryOps /\ op \notin RotateOps /\ op \notin BinaryOps /\ op \notin OrderOps
BY DEF UnaryOps, RotateOps, BinaryOps, OrderOps, EqualOps, op_to_imm_op

LEMMA UnaryFacts ==
    ASSUME Started, pseudo.op \in UnaryOps
    PROVE  /\ pseudo.d \in Dests /\ pseudo.s \in Sources1 /\ pseudo.value = NoValue
           /\ Code = Unary(pseudo.op, pseudo.d, pseudo.s)
<1>1. pseudo \in [op : UnaryOps, d : Dests, s : Sources1, t : {0}, value : {NoValue}]
  BY OpSets DEF Started, Forms
<1> QED
  BY <1>1, OpSets DEF Code, Expansion

LEMMA RotateFacts ==
    ASSUME Started, pseudo.op \in RotateOps
    PROVE  /\ pseudo.d \in Dests /\ pseudo.s \in Sources1
           /\ \/ /\ pseudo.t \in Sources2 /\ pseudo.value = NoValue
                 /\ Code = Rotation(pseudo.op, pseudo.d, pseudo.s, pseudo.t)
              \/ /\ pseudo.value \in 0 .. Bits - 1 /\ pseudo.value # NoValue
                 /\ Code = RotationImm(pseudo.op, pseudo.d, pseudo.s, pseudo.value)
<1>1. \/ pseudo \in [op : RotateOps, d : Dests, s : Sources1, t : Sources2, value : {NoValue}]
      \/ pseudo \in [op : RotateOps, d : Dests, s : Sources1, t : {0}, value : 0 .. Bits - 1]
  BY OpSets DEF Started, Forms
<1>3. NoValue \notin 0 .. Bits - 1
  BY WordPower DEF NoValue
<1>4. Code = IF pseudo.value = NoValue THEN Rotation(pseudo.op, pseudo.d, pseudo.s, pseudo.t)
             ELSE RotationImm(pseudo.op, pseudo.d, pseudo.s, pseudo.value)
  BY OpSets DEF Code, Expansion
<1> QED
  BY <1>1, <1>3, <1>4

LEMMA BinaryFacts ==
    ASSUME Started, pseudo.op \in BinaryOps
    PROVE  /\ pseudo.d \in Dests /\ pseudo.s \in Sources1 /\ pseudo.value \in Reg /\ pseudo.value # NoValue
           /\ Code = BinaryImm(pseudo.op, pseudo.d, pseudo.s, pseudo.value)
<1>1. pseudo \in [op : BinaryOps, d : Dests, s : Sources1, t : {0}, value : Reg]
  BY OpSets DEF Started, Forms
<1>3. NoValue \notin Reg
  BY DEF NoValue, Reg
<1> QED
  BY <1>1, <1>3, OpSets DEF Code, Expansion

LEMMA BranchFacts ==
    ASSUME Started, pseudo.op \in OrderOps \cup EqualOps
    PROVE  /\ pseudo.d = 0 /\ pseudo.s \in Sources1
           /\ \/ /\ pseudo.op \in OrderOps /\ pseudo.t \in Sources2 /\ pseudo.value = NoValue
                 /\ Code = Ordered(pseudo.op, pseudo.s, pseudo.t)
              \/ /\ pseudo.value \in Reg /\ pseudo.value # NoValue
                 /\ Code = IF pseudo.op \in OrderOps THEN OrderedImm(pseudo.op, pseudo.s, pseudo.value)
                           ELSE EqualImm(pseudo.op, pseudo.s, pseudo.value)
<1>1. \/ pseudo \in [op : OrderOps, d : {0}, s : Sources1, t : Sources2, value : {NoValue}]
      \/ pseudo \in [op : OrderOps \cup EqualOps, d : {0}, s : Sources1, t : {0}, value : Reg]
  BY OpSets DEF Started, Forms
<1>3. NoValue \notin Reg
  BY DEF NoValue, Reg
<1>4. pseudo.op \in OrderOps => Code = IF pseudo.value = NoValue THEN Ordered(pseudo.op, pseudo.s, pseudo.t)
                                       ELSE OrderedImm(pseudo.op, pseudo.s, pseudo.value)
  BY OpSets DEF Code, Expansion
<1>5. pseudo.op \in EqualOps => Code = EqualImm(pseudo.op, pseudo.s, pseudo.value)
  BY OpSets DEF Code, Expansion
<1> QED
  BY <1>1, <1>3, <1>4, <1>5, OpSets

LEMMA FirstFrame ==
    ASSUME Started
    PROVE  Frame(first) /\ X \in Reg /\ pseudo.s \in Registers /\ pseudo.s # AT /\ pseudo.d # AT
<1>1. pseudo.op \in UnaryOps \cup RotateOps \cup BinaryOps \cup OrderOps \cup EqualOps
  BY DEF Started, Forms
<1>2. pseudo.s \in Sources1 /\ (pseudo.d \in Dests \/ pseudo.d = 0)
  BY <1>1, UnaryFacts, RotateFacts, BinaryFacts, BranchFacts
<1>3. pseudo.s \in Registers /\ pseudo.s # AT /\ pseudo.d # AT
  BY <1>2, NamedRegisters
<1> QED
  BY <1>3 DEF Started, Frame, X

LEMMA FrameWrites ==
    ASSUME NEW r, Frame(r), NEW n \in {AT, pseudo.d}, n \in Registers, n # 0, NEW v \in Reg
    PROVE  /\ Frame([r EXCEPT ![n] = v])
           /\ [r EXCEPT ![n] = v][n] = v
           /\ \A m \in Registers \ {n} : [r EXCEPT ![n] = v][m] = r[m]
BY NamedRegisters DEF Frame

-----------------------------------------------------------------------------
(* How a sequence may end: with a value in the destination or an overflow,   *)
(* or at a branch.                                                         *)
Ends(v, raised) ==
    /\ raised => \A r : Frame(r) => Meets(r, "overflow")
    /\ ~raised => \A r : Frame(r) /\ r[pseudo.d] = v => Meets(r, "done")

LEMMA EndsWord ==
    ASSUME Started, pseudo.op \in (UnaryOps \cup BinaryOps) \ BitOps, NEW v, NEW raised \in BOOLEAN,
           raised <=> (Trapping # Wraps), v = Unsigned(Meant)
    PROVE  Ends(v, raised)
<1>1. pseudo.op \notin OrderOps \cup EqualOps
  BY DEF UnaryOps, BinaryOps, OrderOps, EqualOps, op_to_imm_op
<1> QED
  BY <1>1 DEF Ends, Meets, Frame

LEMMA EndsBits ==
    ASSUME Started, pseudo.op \in BitOps, NEW v, \A i \in 0 .. Bits - 1 : BitOf(v, i) = WantedBit(i)
    PROVE  Ends(v, FALSE)
<1>1. pseudo.op \notin OrderOps \cup EqualOps
  BY DEF BitOps, OrderOps, EqualOps
<1> QED
  BY <1>1 DEF Ends, Meets, Frame

LEMMA EndsBranch ==
    ASSUME Started, pseudo.op \in OrderOps \cup EqualOps, NEW r, Frame(r),
           NEW o, o = IF Holds # Wraps THEN "taken" ELSE "done"
    PROVE  Meets(r, o)
<1>1. pseudo.op \notin UnaryOps \cup BinaryOps \cup BitOps
  BY DEF UnaryOps, BinaryOps, BitOps, OrderOps, EqualOps, op_to_imm_op
<1> QED
  BY <1>1 DEF Meets, Frame

(* The last instruction puts the result into the destination.               *)
LEMMA LastGood ==
    ASSUME Started, pseudo.d \in Dests, NEW c, NEW k \in 1 .. 5, Len(c) \in 1 .. 5, k = Len(c),
           NEW r, Frame(r), NEW f \in RegisterOps, NEW x \in Reg, NEW y \in Reg,
           Does(c[k], r, pseudo.d, f, x, y), Ends(Computed(f, x, y), Raises(f, x, y))
    PROVE  Good(c, k, r)
<1> DEFINE v == Computed(f, x, y)
           e == Raises(f, x, y)
           r2 == [r EXCEPT ![pseudo.d] = v]
<1>1. v \in Reg
  BY ComputedType
<1> HIDE DEF v, e
<1>2. Frame(r2) /\ r2[pseudo.d] = v
  BY <1>1, NamedRegisters, FrameWrites
<1>3. ~IsBranch(c[k]) /\ c[k].d = pseudo.d /\ Value(c[k], r) = v /\ (Overflows(c[k], r) <=> e)
  BY DEF Does, v, e
<1>4. Ends(v, e)
  BY DEF v, e
<1>5. Overflows(c[k], r) => Meets(r, "overflow")
  BY <1>3, <1>4 DEF Ends
<1>6. ~Overflows(c[k], r) => Meets(r2, "done")
  BY <1>2, <1>3, <1>4 DEF Ends
<1> QED
  BY <1>3, <1>5, <1>6, GoodLast

(* One before it only writes $at, or the destination.                       *)
LEMMA NextGood ==
    ASSUME NEW c, NEW k \in 1 .. 4, Len(c) \in 1 .. 5, k < Len(c),
           NEW r, Frame(r), NEW n \in {AT, pseudo.d}, n \in Registers, n # 0, NEW v \in Reg, Puts(c[k], r, n, v),
           \A r2 : Frame(r2) /\ r2[n] = v /\ (\A m \in Registers \ {n} : r2[m] = r[m]) => Good(c, k + 1, r2)
    PROVE  Good(c, k, r)
<1> DEFINE r2 == [r EXCEPT ![n] = v]
<1>1. Frame(r2) /\ r2[n] = v /\ \A m \in Registers \ {n} : r2[m] = r[m]
  BY FrameWrites
<1>2. ~IsBranch(c[k]) /\ ~Overflows(c[k], r) /\ c[k].d = n /\ Value(c[k], r) = v
  BY DEF Puts
<1>3. Good(c, k + 1, r2)
  BY <1>1
<1> QED
  BY <1>2, <1>3, GoodLink

LEMMA DoesPuts ==
    ASSUME NEW i, NEW r, NEW d, NEW f, NEW x, NEW y, Does(i, r, d, f, x, y), ~Raises(f, x, y)
    PROVE  Puts(i, r, d, Computed(f, x, y))
BY DEF Does, Puts

LEMMA RaisingOps == \A f \in RegisterOps \ {"add", "sub"} : \A x, y : ~Raises(f, x, y)
BY DEF Raises

(* A sequence that is an operation with an immediate.                       *)
LEMMA ImmediateGood ==
    ASSUME Started, pseudo.d \in Dests, NEW op \in DOMAIN RegForm, NEW a \in Registers, a # AT, NEW value \in Reg,
           Code = i_type_inst(op, pseudo.d, a, value),
           Ends(Computed(RegForm[op], first[a], value), Raises(RegForm[op], first[a], value))
    PROVE  Len(Code) \in 1 .. 5 /\ Good(Code, 1, first)
<1> DEFINE f == RegForm[op]
           x == first[a]
           d == pseudo.d
           c == Code
<1>1. f \in RegisterOps /\ x \in Reg /\ Frame(first) /\ first \in [Registers -> Reg] /\ first[0] = 0
  BY SignExtendingOps, FirstFrame DEF RegisterOps, Started
<1>2. Ends(Computed(f, x, value), Raises(f, x, value))
  OBVIOUS
<1>3. Immediately(c, first, d, f, x, value)
  BY <1>1, ImmediateInstructions
<1>4. d \in Dests /\ AT \in Registers /\ AT # 0
  BY NamedRegisters
<1> HIDE DEF f, x, d, c
<1>5. ASSUME Len(c) = 1, Does(c[1], first, d, f, x, value) PROVE Len(c) \in 1 .. 5 /\ Good(c, 1, first)
  BY <1>1, <1>2, <1>5, LastGood DEF d
<1>6. ASSUME NEW n \in {1, 2}, NEW h \in Reg, Len(c) = n + 1, Brings(c, n, first, h),
             Does(c[n + 1], [first EXCEPT ![AT] = h], d, f, x, value)
      PROVE  Len(c) \in 1 .. 5 /\ Good(c, 1, first)
  <2> DEFINE r2 == [first EXCEPT ![AT] = h]
             k == n + 1
  <2>1. Len(c) \in 1 .. 5 /\ k \in 1 .. 5 /\ k = Len(c) /\ n < Len(c)
    BY <1>6
  <2>2. Frame(r2) /\ Does(c[k], r2, d, f, x, value)
    BY <1>1, <1>4, <1>6, FrameWrites
  <2> HIDE DEF r2, k
  <2>3. Good(c, k, r2)
    BY <1>1, <1>2, <2>1, <2>2, LastGood DEF d
  <2> QED
    BY <1>1, <1>6, <2>1, <2>3, Brought DEF k, r2
<1> QED
  BY <1>3, <1>5, <1>6 DEF c, Immediately

-----------------------------------------------------------------------------
(* The operations with an immediate of a whole word.                        *)
LEMMA ImmediateOps ==
    \A f \in {"add", "addu", "slt", "sltu", "and", "or", "xor"} :
        f \in DOMAIN op_to_imm_op /\ op_to_imm_op[f] \in DOMAIN RegForm /\ RegForm[op_to_imm_op[f]] = f /\ f \in RegisterOps
BY DEF op_to_imm_op, RegForm, RegisterOps

LEMMA SmallNumbers ==
    /\ InRange(0) /\ Unsigned(0) = 0 /\ Unsigned(1) = 1 /\ 0 \in Reg /\ 1 \in Reg
    /\ \A b : OneIf(b) \in {0, 1}
<1> HIDE DEF W
<1> DEFINE h == W \div 2
<1>1. h \in Nat /\ h # 0 /\ W \in Nat \ {0, 1}
  BY HalfWord, WordFact
<1>2. Unsigned(0) = 0 /\ Unsigned(1) = 1 /\ 0 \in Reg /\ 1 \in Reg
  BY <1>1 DEF Unsigned, Reg
<1>3. -h <= 0 /\ 0 < h
  <2> HIDE DEF h
  <2> QED
    BY <1>1
<1> QED
  BY <1>2, <1>3 DEF InRange, OneIf

(* What the two numbers of the program are in a form with an immediate.     *)
LEMMA BinaryOperands ==
    ASSUME Started, pseudo.op \in BinaryOps
    PROVE  /\ X \in Reg /\ Y \in Reg /\ Y = pseudo.value /\ first[pseudo.s] = X
           /\ Signed(X) \in Int /\ Signed(Y) \in Int /\ X \in Int /\ Y \in Int
           /\ pseudo.op # "sub" => Wraps = FALSE
           /\ pseudo.op = "sub" => (Wraps <=> Y = W \div 2)
           /\ Trapping <=> pseudo.op \in {"add", "sub"} /\ ~InRange(Meant)
<1>1. X \in Reg /\ Y \in Reg /\ Y = pseudo.value /\ first[pseudo.s] = X
  BY BinaryFacts, FirstFrame DEF X, Y
<1>2. pseudo.op \notin {"bgt", "ble", "abs", "neg"}
  BY DEF BinaryOps, op_to_imm_op
<1> QED
  BY <1>1, <1>2, SignedWord DEF Wraps, Trapping

LEMMA SumEnds ==
    ASSUME Started, pseudo.op \in {"add", "addu", "slt", "sltu"}
    PROVE  Ends(Computed(pseudo.op, X, Y), Raises(pseudo.op, X, Y))
<1> DEFINE f == pseudo.op
           v == Computed(f, X, Y)
           e == Raises(f, X, Y)
<1>1. f \in BinaryOps /\ f \in (UnaryOps \cup BinaryOps) \ BitOps /\ f # "sub"
  BY DEF BinaryOps, op_to_imm_op, BitOps
<1>2. X \in Reg /\ Y \in Reg /\ Wraps = FALSE /\ (Trapping <=> f = "add" /\ ~InRange(Meant))
  BY <1>1, BinaryOperands
<1>3. v = Unsigned(Meant)
  <2>1. CASE f \in {"add", "addu"}
    BY <1>2, <2>1, SignedSums DEF Computed, Meant
  <2>2. CASE f = "slt"
    BY <2>2, SmallNumbers DEF Computed, Meant, OneIf
  <2>3. CASE f = "sltu"
    BY <2>3, SmallNumbers DEF Computed, Meant, OneIf
  <2> QED
    BY <2>1, <2>2, <2>3
<1>4. e <=> f = "add" /\ ~InRange(Meant)
  BY DEF Raises, Meant
<1>5. e \in BOOLEAN /\ (e <=> (Trapping # Wraps))
  <2>1. Trapping # Wraps <=> Trapping
    BY <1>2 DEF Trapping
  <2>2. e \in BOOLEAN
    BY DEF Raises
  <2> QED
    BY <1>2, <1>4, <2>1, <2>2
<1> HIDE DEF v, e
<1>6. Ends(v, e)
  BY <1>1, <1>3, <1>5, EndsWord
<1> QED
  BY <1>6 DEF v, e

LEMMA BitwiseEnds ==
    ASSUME Started, pseudo.op \in {"and", "or", "xor", "nor"}
    PROVE  Ends(Computed(pseudo.op, X, Y), FALSE)
<1> DEFINE v == Computed(pseudo.op, X, Y)
<1>1. pseudo.op \in BinaryOps /\ pseudo.op \in BitOps
  BY DEF BinaryOps, op_to_imm_op, BitOps
<1>2. X \in Reg /\ Y \in Reg
  BY <1>1, BinaryOperands
<1>3. ASSUME NEW i \in 0 .. Bits - 1 PROVE BitOf(v, i) = WantedBit(i)
  <2>1. CASE pseudo.op = "and"
    BY <1>2, <2>1, WordBits DEF Computed, WantedBit
  <2>2. CASE pseudo.op = "or"
    BY <1>2, <2>2, WordBits DEF Computed, WantedBit
  <2>3. CASE pseudo.op = "xor"
    BY <1>2, <2>3, WordBits DEF Computed, WantedBit
  <2>4. CASE pseudo.op = "nor"
    BY <1>2, <2>4, WordBits DEF Computed, WantedBit
  <2> QED
    BY <2>1, <2>2, <2>3, <2>4
<1> HIDE DEF v
<1>4. Ends(v, FALSE)
  BY <1>1, <1>3, EndsBits
<1> QED
  BY <1>4 DEF v

(* Subtraction adds the opposite, which the least number lacks.             *)
LEMMA DifferenceEnds ==
    ASSUME Started, pseudo.op \in {"sub", "subu"}, NEW f, f = IF pseudo.op = "sub" THEN "add" ELSE "addu"
    PROVE  /\ Unsigned(-Y) \in Reg
           /\ Ends(Computed(f, X, Unsigned(-Y)), Raises(f, X, Unsigned(-Y)))
<1> DEFINE z == Unsigned(-Y)
           v == Computed(f, X, z)
           e == Raises(f, X, z)
           a == Signed(X)
           b == Signed(Y)
           h == W \div 2
<1>1. pseudo.op \in BinaryOps /\ pseudo.op \in (UnaryOps \cup BinaryOps) \ BitOps
  BY DEF BinaryOps, op_to_imm_op, BitOps
<1>2. /\ X \in Reg /\ Y \in Reg /\ X \in Int /\ Y \in Int /\ a \in Int /\ b \in Int
      /\ pseudo.op = "subu" => Wraps = FALSE
      /\ pseudo.op = "sub" => (Wraps <=> Y = h)
      /\ Trapping <=> pseudo.op = "sub" /\ ~InRange(Meant)
  BY <1>1, BinaryOperands
<1>3. Meant = a - b
  BY DEF Meant
<1>4. z \in Reg /\ Signed(z) = (IF Y = h THEN b ELSE -b) /\ (Y = h => b = -h)
  BY <1>2, OppositeWord
<1>5. v = Unsigned(Meant)
  <2>1. Computed(f, X, z) = Unsigned(X + z)
    BY DEF Computed
  <2> HIDE DEF a, b, h
  <2>2. Unsigned(X + z) = Unsigned(X - Y)
    <3> DEFINE w == W
               t == -Y
    <3>1. w \in Nat \ {0} /\ t \in Int /\ X + t = X - Y
      BY <1>2, WordFact
    <3> HIDE DEF w, t
    <3>2. (X + (t % w)) % w = (X + t) % w
      BY <1>2, <3>1, ModAdd
    <3> QED
      BY <3>1, <3>2 DEF Unsigned, w, t
  <2>3. Unsigned(X - Y) = Unsigned(a - b)
    BY <1>2, SignedSums DEF a, b
  <2> QED
    BY <1>3, <2>1, <2>2, <2>3
<1>6. e <=> (Trapping # Wraps)
  <2>1. CASE pseudo.op = "subu"
    BY <1>2, <2>1 DEF Raises, Trapping
  <2>2. CASE pseudo.op = "sub" /\ Y # h
    <3>1. a + Signed(z) = a - b
      <4> HIDE DEF z, a, b, h
      <4> QED
        BY <1>2, <1>4, <2>2
    <3>2. e <=> ~InRange(a - b)
      BY <2>2, <3>1 DEF Raises
    <3>3. ~Wraps /\ (Trapping <=> ~InRange(a - b))
      BY <1>2, <1>3, <2>2
    <3> QED
      BY <3>2, <3>3 DEF Wraps, Trapping
  <2>3. CASE pseudo.op = "sub" /\ Y = h
    <3>1. e <=> ~InRange(a + b)
      BY <1>4, <2>3 DEF Raises
    <3>2. Wraps /\ (Trapping <=> ~InRange(a - b))
      BY <1>2, <1>3, <2>3
    <3>3. b = -h /\ InRange(a) /\ h \in Nat
      BY <1>2, <1>4, <2>3, SignedWord, HalfWord
    <3>4. -h <= a /\ a < h
      BY <3>3 DEF InRange, h
    <3>5. InRange(a + b) = (-h <= a + b /\ a + b < h) /\ InRange(a - b) = (-h <= a - b /\ a - b < h)
      BY DEF InRange, h
    <3> HIDE DEF a, b, h
    <3>6. InRange(a + b) <=> ~InRange(a - b)
      BY <1>2, <3>3, <3>4, <3>5 DEF InRange
    <3> QED
      BY <3>1, <3>2, <3>6 DEF Wraps, Trapping
  <2> QED
    BY <2>1, <2>2, <2>3
<1>7. e \in BOOLEAN
  BY DEF Raises
<1> HIDE DEF v, e
<1>8. Ends(v, e)
  BY <1>1, <1>5, <1>6, <1>7, EndsWord
<1> QED
  BY <1>4, <1>8 DEF v, e, z

LEMMA LoadEnds ==
    ASSUME Started, pseudo.op = "li"
    PROVE  Ends(Computed("or", 0, Y), Raises("or", 0, Y))
<1> DEFINE v == Computed("or", 0, Y)
           e == Raises("or", 0, Y)
<1>1. pseudo.op \in BinaryOps /\ pseudo.op \in (UnaryOps \cup BinaryOps) \ BitOps
  BY DEF BinaryOps, op_to_imm_op, BitOps
<1>2. Y \in Reg /\ Wraps = FALSE /\ ~Trapping
  BY <1>1, BinaryOperands
<1>3. v = Unsigned(Meant)
  <2>1. Meant = Signed(Y)
    BY DEF Meant
  <2> QED
    BY <1>2, <2>1, AddingToZero, SignedSums
<1>4. e \in BOOLEAN /\ (e <=> (Trapping # Wraps))
  BY <1>2, AddingToZero DEF Raises, Trapping
<1> HIDE DEF v, e
<1>5. Ends(v, e)
  BY <1>1, <1>3, <1>4, EndsWord
<1> QED
  BY <1>5 DEF v, e

LEMMA NorGood ==
    ASSUME Started, pseudo.op = "nor"
    PROVE  Len(Code) \in 1 .. 5 /\ Good(Code, 1, first)
<1> DEFINE d == pseudo.d
           s == pseudo.s
           c == Code
<1>1. pseudo.op \in BinaryOps /\ "nor" \in RegisterOps
  BY DEF BinaryOps, RegisterOps
<1>2. X \in Reg /\ Y \in Reg /\ first[s] = X /\ Y = pseudo.value
  BY <1>1, BinaryOperands
<1>3. d \in Dests /\ Frame(first) /\ s \in Registers /\ s # AT /\ AT \in Registers /\ AT # 0 /\ first[0] = 0 /\ first \in [Registers -> Reg]
  BY <1>1, BinaryFacts, FirstFrame, NamedRegisters DEF Started
<1>4. c = IF Y = 0 THEN <<R3("nor", d, s, 0)>> ELSE i_type_inst("ori", AT, 0, Y) \o <<R3("nor", d, s, AT)>>
  <2>1. c = BinaryImm(pseudo.op, d, s, Y)
    BY <1>1, <1>2, BinaryFacts
  <2>2. "nor" \notin DOMAIN op_to_imm_op /\ "nor" \notin {"sub", "subu"}
    BY DEF op_to_imm_op
  <2> QED
    BY <2>1, <2>2 DEF BinaryImm
<1>5. Ends(Computed("nor", X, Y), Raises("nor", X, Y))
  <2>1. Raises("nor", X, Y) = FALSE
    BY DEF Raises
  <2> QED
    BY <2>1, BitwiseEnds
<1>6. CASE Y = 0
  <2> DEFINE i == R3("nor", d, s, 0)
  <2>1. Does(i, first, d, "nor", first[s], first[0])
    BY <1>1, <1>2, <1>3, <1>6, RegisterForm
  <2> HIDE DEF i, c
  <2>2. Len(c) = 1 /\ c[1] = i
    BY <1>4, <1>6 DEF i
  <2>3. Does(c[1], first, d, "nor", X, Y)
    BY <1>2, <1>3, <1>6, <2>1, <2>2
  <2>4. Good(c, 1, first)
    BY <1>1, <1>2, <1>3, <1>5, <2>2, <2>3, LastGood
  <2> QED
    BY <2>2, <2>4 DEF c
<1>7. CASE Y # 0
  <2> DEFINE j == R3("nor", d, s, AT)
             u == <<j>>
             r2 == [first EXCEPT ![AT] = Y]
  <2>1. c = i_type_inst("ori", AT, 0, Y) \o u
    BY <1>4, <1>7
  <2> HIDE DEF j, c
  <2>2. IsSequence(u) /\ Len(u) = 1 /\ u[1] = j
    BY Literals
  <2> HIDE DEF u, r2
  <2>3. PICK k \in {2, 3} : Len(c) + 1 = k + Len(u) /\ c[k] = u[1] /\ (Good(c, k, r2) => Good(c, 1, first))
    <3>1. Len(u) \in 1 .. 3
      BY <2>2
    <3>2. Enters(c, u, first, Y)
      BY <1>2, <1>3, <2>1, <2>2, <3>1, LoadedFirst, Zenon
    <3> QED
      BY <3>2 DEF Enters, r2
  <2>4. c[k] = j /\ k = Len(c) /\ k \in 1 .. 5 /\ Len(c) \in 1 .. 5
    <3> DEFINE m == Len(c)
    <3>1. m \in Nat
      BY <1>2, <2>1, <2>2, LoadedLength
    <3>2. m + 1 = k + 1 /\ c[k] = j
      BY <2>2, <2>3
    <3> HIDE DEF m
    <3>3. k = m /\ k \in 1 .. 5 /\ m \in 1 .. 5
      BY <2>3, <3>1, <3>2
    <3> QED
      BY <3>2, <3>3 DEF m
  <2>5. Frame(r2) /\ r2[AT] = Y /\ r2[s] = X
    BY <1>2, <1>3, FrameWrites DEF r2
  <2>6. Does(j, r2, d, "nor", r2[s], r2[AT])
    BY <1>1, <1>2, <2>5, RegisterForm DEF j
  <2>7. Good(c, k, r2)
    BY <1>1, <1>2, <1>3, <1>5, <2>4, <2>5, <2>6, LastGood
  <2> QED
    BY <2>3, <2>4, <2>7 DEF c
<1> QED
  BY <1>6, <1>7

LEMMA BinaryGood ==
    ASSUME Started, pseudo.op \in BinaryOps
    PROVE  Len(Code) \in 1 .. 5 /\ Good(Code, 1, first)
<1> DEFINE d == pseudo.d
           s == pseudo.s
           f == pseudo.op
<1>1. X \in Reg /\ Y \in Reg /\ first[s] = X /\ Y = pseudo.value /\ d \in Dests /\ s \in Registers /\ s # AT
  BY BinaryOperands, BinaryFacts, FirstFrame
<1>2. Code = BinaryImm(f, d, s, Y)
  BY <1>1, BinaryFacts
<1>3. CASE f \in {"add", "addu", "slt", "sltu", "and", "or", "xor"}
  <2> DEFINE op == op_to_imm_op[f]
  <2>1. op \in DOMAIN RegForm /\ RegForm[op] = f /\ f \in DOMAIN op_to_imm_op
    BY <1>3, ImmediateOps
  <2>2. Code = i_type_inst(op, d, s, Y)
    BY <1>2, <1>3, <2>1 DEF BinaryImm, op_to_imm_op
  <2>3. Ends(Computed(f, X, Y), Raises(f, X, Y))
    <3>1. f \in {"and", "or", "xor"} => Raises(f, X, Y) = FALSE
      BY DEF Raises
    <3> QED
      BY <1>3, <3>1, SumEnds, BitwiseEnds
  <2> HIDE DEF op
  <2> QED
    BY <1>1, <2>1, <2>2, <2>3, ImmediateGood
<1>4. CASE f \in {"sub", "subu"}
  <2> DEFINE g == IF f = "sub" THEN "add" ELSE "addu"
             op == IF f = "sub" THEN "addi" ELSE "addiu"
             z == Unsigned(-Y)
  <2>1. op \in DOMAIN RegForm /\ RegForm[op] = g
    BY DEF RegForm
  <2>2. Code = i_type_inst(op, d, s, z)
    BY <1>2, <1>4 DEF BinaryImm, op_to_imm_op
  <2>3. z \in Reg /\ Ends(Computed(g, X, z), Raises(g, X, z))
    BY <1>4, DifferenceEnds
  <2> HIDE DEF op, g, z
  <2> QED
    BY <1>1, <2>1, <2>2, <2>3, ImmediateGood
<1>5. CASE f = "li"
  <2>1. "ori" \in DOMAIN RegForm /\ RegForm["ori"] = "or"
    BY DEF RegForm
  <2>2. Code = i_type_inst("ori", d, 0, Y)
    BY <1>2, <1>5 DEF BinaryImm, op_to_imm_op
  <2>3. 0 \in Registers /\ 0 # AT /\ first[0] = 0
    BY NamedRegisters DEF Started
  <2>4. Ends(Computed("or", 0, Y), Raises("or", 0, Y))
    BY <1>5, LoadEnds
  <2> QED
    BY <1>1, <2>1, <2>2, <2>3, <2>4, ImmediateGood
<1> QED
  BY <1>3, <1>4, <1>5, NorGood DEF BinaryOps, op_to_imm_op

-----------------------------------------------------------------------------
(* The branches.                                                            *)
LEMMA BranchOperands ==
    ASSUME Started, pseudo.op \in OrderOps \cup EqualOps
    PROVE  /\ X \in Reg /\ Y \in Reg /\ first[pseudo.s] = X
           /\ Y = IF pseudo.value = NoValue THEN first[pseudo.t] ELSE pseudo.value
           /\ Signed(X) \in Int /\ Signed(Y) \in Int /\ X \in Int /\ Y \in Int
           /\ Wraps <=> pseudo.op \in {"bgt", "ble"} /\ pseudo.value # NoValue /\ Y = W \div 2 - 1
<1>1. X \in Reg /\ first[pseudo.s] = X
  BY FirstFrame DEF X
<1>2. Y = IF pseudo.value = NoValue THEN first[pseudo.t] ELSE pseudo.value
  BY DEF Y
<1>3. Y \in Reg
  BY <1>2, BranchFacts, NamedRegisters DEF Started
<1>4. pseudo.op # "sub"
  BY DEF OrderOps, EqualOps
<1> QED
  BY <1>1, <1>2, <1>3, <1>4, SignedWord DEF Wraps, Immediate

(* Where the order wraps the branch is taken the other way.                 *)
WrappingOrder == pseudo.op \in {"bgt", "ble"} /\ pseudo.value # NoValue /\ Y = W \div 2 - 1

LEMMA Unequal ==
    ASSUME NEW p \in BOOLEAN, NEW q \in BOOLEAN, NEW h, NEW w, h = p, w = q
    PROVE  (h # w) <=> (p <=> ~q)
BY Zenon

LEMMA BranchMeaning ==
    ASSUME Started, pseudo.op \in OrderOps \cup EqualOps, NEW p \in BOOLEAN, Holds = p
    PROVE  (Holds # Wraps) <=> (p <=> ~WrappingOrder)
<1>1. pseudo.op # "sub"
  BY DEF OrderOps, EqualOps
<1>2. Wraps = WrappingOrder /\ WrappingOrder \in BOOLEAN
  BY <1>1 DEF Wraps, Immediate, WrappingOrder
<1> QED
  BY <1>2, Unequal

(* A comparison into $at and the branch on it.                              *)
LEMMA TestGood ==
    ASSUME Started, pseudo.op \in OrderOps \cup EqualOps,
           NEW c, NEW k \in 1 .. 4, Len(c) = k + 1, NEW r, Frame(r),
           NEW v \in {0, 1}, Puts(c[k], r, AT, v), NEW b \in {"beq", "bne"}, c[k + 1] = Branch(b, 0, AT, 0),
           (Holds # Wraps) <=> (b = "bne" <=> v = 1)
    PROVE  Good(c, k, r)
<1>1. AT \in Registers /\ AT # 0 /\ v \in Reg
  BY NamedRegisters, SmallNumbers
<1>2. ASSUME NEW r2, Frame(r2), r2[AT] = v PROVE Good(c, k + 1, r2)
  <2> DEFINE i == Branch(b, 0, AT, 0)
             n == k + 1
  <2>1. i.op = b /\ i.a = 0 /\ i.b = AT /\ i.to = 0
    BY DEF Branch
  <2>2. r2[0] = 0
    BY <1>2 DEF Frame
  <2>3. c[n] = i /\ n \in 1 .. 5 /\ n = Len(c) /\ Len(c) \in 1 .. 5
    OBVIOUS
  <2> HIDE DEF i, n
  <2>4. IsBranch(i) /\ (Taken(i, r2) <=> (Holds # Wraps))
    <3>1. CASE b = "beq"
      BY <1>2, <2>1, <2>2, <3>1 DEF IsBranch, Taken
    <3>2. CASE b = "bne"
      BY <1>2, <2>1, <2>2, <3>2 DEF IsBranch, Taken
    <3> QED
      BY <3>1, <3>2
  <2> DEFINE o == IF Taken(i, r2) THEN "taken" ELSE "done"
  <2>5. o = IF Holds # Wraps THEN "taken" ELSE "done"
    BY <2>4
  <2> HIDE DEF o
  <2>6. Meets(r2, o)
    BY <1>2, <2>5, EndsBranch
  <2>7. Good(c, n, r2)
    BY <2>1, <2>3, <2>4, <2>6, GoodBranch DEF o
  <2> QED
    BY <2>7 DEF n
<1>3. Len(c) \in 1 .. 5 /\ k < Len(c)
  OBVIOUS
<1> DEFINE n == AT
<1>4. \A r2 : Frame(r2) /\ r2[n] = v /\ (\A m \in Registers \ {n} : r2[m] = r[m]) => Good(c, k + 1, r2)
  BY <1>2
<1>5. n \in {AT, pseudo.d} /\ n \in Registers /\ n # 0 /\ Puts(c[k], r, n, v)
  BY <1>1
<1> HIDE DEF n
<1> QED
  BY <1>1, <1>3, <1>4, <1>5, NextGood

LEMMA TestFact ==
    ASSUME NEW f \in {"slt", "sltu"}, NEW x \in Reg, NEW y \in Reg
    PROVE  /\ f \in RegisterOps /\ Computed(f, x, y) \in {0, 1} /\ ~Raises(f, x, y)
           /\ Computed(f, x, y) = 1 <=> IF f = "slt" THEN Signed(x) < Signed(y) ELSE x < y
BY DEF RegisterOps, Computed, Raises, OneIf

(* The forms that compare two registers.                                    *)
LEMMA RegisterTestGood ==
    ASSUME Started, pseudo.op \in OrderOps, NEW f \in {"slt", "sltu"}, NEW a, NEW b, {a, b} \subseteq Registers,
           NEW br \in {"beq", "bne"}, Code = <<R3(f, AT, a, b), Branch(br, 0, AT, 0)>>,
           (Holds # Wraps) <=> (br = "bne" <=> Computed(f, first[a], first[b]) = 1)
    PROVE  Len(Code) \in 1 .. 5 /\ Good(Code, 1, first)
<1> DEFINE c == Code
           x == first[a]
           y == first[b]
           v == Computed(f, x, y)
           i == R3(f, AT, a, b)
           k == 1
<1>1. x \in Reg /\ y \in Reg /\ Frame(first)
  BY FirstFrame DEF Started
<1>2. f \in RegisterOps /\ v \in {0, 1} /\ ~Raises(f, x, y)
  BY <1>1, TestFact
<1>3. Does(i, first, AT, f, x, y)
  BY <1>1, <1>2, RegisterForm
<1>4. Puts(i, first, AT, v)
  BY <1>2, <1>3, DoesPuts
<1>5. (Holds # Wraps) <=> (br = "bne" <=> v = 1)
  OBVIOUS
<1> HIDE DEF c, i, v
<1>6. Len(c) = k + 1 /\ c[k] = i /\ c[k + 1] = Branch(br, 0, AT, 0) /\ k \in 1 .. 4
  BY DEF c, i
<1> HIDE DEF k
<1>7. Good(c, k, first)
  BY <1>1, <1>2, <1>4, <1>5, <1>6, TestGood
<1> QED
  BY <1>6, <1>7 DEF c, k

(* The forms that compare a register with an immediate in $at.              *)
LEMMA ImmediateTestGood ==
    ASSUME Started, pseudo.op \in OrderOps, NEW op \in DOMAIN RegForm, RegForm[op] \in {"slt", "sltu"},
           NEW value \in Reg, NEW br \in {"beq", "bne"},
           Code = i_type_inst(op, AT, pseudo.s, value) \o <<Branch(br, 0, AT, 0)>>,
           (Holds # Wraps) <=> (br = "bne" <=> Computed(RegForm[op], X, value) = 1)
    PROVE  Len(Code) \in 1 .. 5 /\ Good(Code, 1, first)
<1> DEFINE c == Code
           f == RegForm[op]
           s == pseudo.s
           v == Computed(f, X, value)
           b == Branch(br, 0, AT, 0)
           t == i_type_inst(op, AT, s, value)
<1>1. /\ X \in Reg /\ first[s] = X /\ s \in Registers /\ s # AT /\ Frame(first)
      /\ first \in [Registers -> Reg] /\ first[0] = 0 /\ AT \in Registers /\ AT # 0
  BY FirstFrame, NamedRegisters DEF Started, X
<1>2. f \in RegisterOps /\ v \in {0, 1} /\ ~Raises(f, X, value)
  BY <1>1, TestFact
<1>3. Immediately(t, first, AT, f, X, value)
  BY <1>1, ImmediateInstructions
<1>4. (Holds # Wraps) <=> (br = "bne" <=> v = 1)
  OBVIOUS
<1>5. c = t \o <<b>>
  OBVIOUS
<1> HIDE DEF c, f, t, b
<1> DEFINE u == <<b>>
<1>8. IsSequence(t) /\ IsSequence(u) /\ Len(u) = 1 /\ u[1] = b /\ c = t \o u
  BY <1>3, <1>5, Literals DEF Immediately
<1> HIDE DEF u
<1>9. Len(c) = Len(t) + 1 /\ Len(t) \in Nat /\ (\A n \in 1 .. Len(t) : c[n] = t[n]) /\ c[Len(t) + 1] = b
  <2>1. /\ Len(c) = Len(t) + Len(u) /\ Len(t) \in Nat
        /\ \A n \in 1 .. Len(t) : c[n] = t[n]
        /\ \A n \in 1 .. Len(u) : c[Len(t) + n] = u[n]
    <3>1. IsJoined(c, t, u)
      BY <1>8, Appended, Zenon
    <3> QED
      BY <3>1 DEF IsJoined
  <2>2. 1 \in 1 .. Len(u)
    BY <1>8
  <2> QED
    BY <1>8, <2>1, <2>2
<1>6. ASSUME Len(t) = 1, Does(t[1], first, AT, f, X, value) PROVE Len(c) \in 1 .. 5 /\ Good(c, 1, first)
  <2> DEFINE k == 1
  <2>1. Len(c) = k + 1 /\ c[k] = t[1] /\ c[k + 1] = b /\ k \in 1 .. 4
    BY <1>6, <1>9
  <2>2. Puts(t[1], first, AT, v)
    BY <1>2, <1>6, DoesPuts
  <2> HIDE DEF k, v
  <2>3. Good(c, k, first)
    BY <1>1, <1>2, <1>4, <2>1, <2>2, TestGood DEF b
  <2> QED
    BY <2>1, <2>3 DEF k
<1>7. ASSUME NEW n \in {1, 2}, NEW h \in Reg, Len(t) = n + 1, Brings(t, n, first, h),
             Does(t[n + 1], [first EXCEPT ![AT] = h], AT, f, X, value)
      PROVE  Len(c) \in 1 .. 5 /\ Good(c, 1, first)
  <2> DEFINE r2 == [first EXCEPT ![AT] = h]
             k == n + 1
             j == t[k]
  <2>1. c[k] = j /\ c[k + 1] = b /\ Len(c) = k + 1 /\ k \in 1 .. 4 /\ Len(c) \in 1 .. 5 /\ n < Len(c) /\ n <= Len(t)
    BY <1>7, <1>9
  <2>2. Frame(r2)
    BY <1>1, FrameWrites
  <2>3. Puts(j, r2, AT, v)
    BY <1>2, <1>7, DoesPuts
  <2>4. Brings(c, n, first, h)
    BY <1>7, <1>8, <2>1, BringsAppended
  <2> HIDE DEF r2, k, v, j
  <2>5. Good(c, k, r2)
    BY <1>2, <1>4, <2>1, <2>2, <2>3, TestGood DEF b
  <2> QED
    BY <1>1, <2>1, <2>4, <2>5, Brought DEF k, r2
<1> QED
  BY <1>3, <1>6, <1>7 DEF c, Immediately

(* The unsigned orders on an immediate that have no successor to compare     *)
(* with: a branch on equality comes first.                                 *)
LEMMA UnsignedTestGood ==
    ASSUME Started, pseudo.op \in {"bgtu", "bleu"}, pseudo.value # NoValue
    PROVE  Len(Code) \in 1 .. 5 /\ Good(Code, 1, first)
<1> DEFINE c == Code
           s == pseudo.s
           to == IF pseudo.op = "bgtu" THEN 3 ELSE 0
           br == IF pseudo.op = "bgtu" THEN "beq" ELSE "bne"
           b2 == Branch("beq", s, AT, to)
           i3 == R3("sltu", AT, s, AT)
           b4 == Branch(br, 0, AT, 0)
           v == Computed("sltu", X, Y)
           u == <<b2, i3, b4>>
<1>1. pseudo.op \in OrderOps \cup EqualOps /\ pseudo.op \in OrderOps
  BY DEF OrderOps
<1>2. /\ X \in Reg /\ Y \in Reg /\ first[s] = X /\ Y = pseudo.value /\ X \in Int /\ Y \in Int
      /\ Wraps = FALSE /\ s \in Registers /\ s # AT /\ Frame(first)
      /\ first \in [Registers -> Reg] /\ first[0] = 0 /\ AT \in Registers /\ AT # 0
  BY <1>1, BranchOperands, FirstFrame, NamedRegisters DEF Started
<1>3. c = i_type_inst("ori", AT, 0, Y) \o u
  <2>1. c = OrderedImm(pseudo.op, s, Y)
    BY <1>1, <1>2, BranchFacts
  <2> QED
    BY <2>1 DEF OrderedImm, Compared
<1>4. (Holds # Wraps) <=> IF pseudo.op = "bgtu" THEN X > Y ELSE X <= Y
  <2> DEFINE more == X > Y
             less == X <= Y
  <2>1. more \in BOOLEAN /\ less \in BOOLEAN
    OBVIOUS
  <2>2. ~WrappingOrder
    BY DEF WrappingOrder
  <2>3. Holds = IF pseudo.op = "bgtu" THEN more ELSE less
    BY DEF Holds
  <2> HIDE DEF more, less
  <2>4. CASE pseudo.op = "bgtu"
    <3>1. Holds = more
      BY <2>3, <2>4
    <3> QED
      BY <1>1, <2>1, <2>2, <2>4, <3>1, BranchMeaning DEF more
  <2>5. CASE pseudo.op # "bgtu"
    <3>1. Holds = less
      BY <2>3, <2>5
    <3> QED
      BY <1>1, <2>1, <2>2, <2>5, <3>1, BranchMeaning DEF less
  <2> QED
    BY <2>4, <2>5
<1>6. v \in {0, 1} /\ (v = 1 <=> X < Y) /\ "sltu" \in RegisterOps /\ ~Raises("sltu", X, Y)
  BY <1>2, TestFact
<1>7. b2.op = "beq" /\ b2.a = s /\ b2.b = AT /\ b2.to = to
  BY DEF Branch
<1> HIDE DEF c, b2, i3, b4
<1>0. IsSequence(u) /\ Len(u) = 3 /\ u[1] = b2 /\ u[2] = i3 /\ u[3] = b4
  BY Literals
<1> HIDE DEF u
<1> DEFINE loaded == [first EXCEPT ![AT] = Y]
<1> HIDE DEF loaded
<1>11. PICK k \in {2, 3} : /\ Len(c) + 1 = k + Len(u)
                           /\ c[k] = u[1] /\ (Len(u) = 3 => c[k + 1] = u[2] /\ c[k + 2] = u[3])
                           /\ Good(c, k, loaded) => Good(c, 1, first)
  <2>1. Len(u) \in 1 .. 3
    BY <1>0
  <2>2. Enters(c, u, first, Y)
    BY <1>0, <1>2, <1>3, <2>1, LoadedFirst, Zenon
  <2> QED
    BY <2>2 DEF Enters, loaded
<1> DEFINE k3 == k + 1
<1>8. /\ c[k] = b2 /\ c[k3] = i3 /\ c[k3 + 1] = b4 /\ Len(c) = k3 + 1 /\ Len(c) \in 1 .. 5 /\ k \in 1 .. 5 /\ k \in Nat
      /\ k3 = k + 1 /\ k3 \in 1 .. 4
  <2>1. c[k] = b2 /\ c[k + 1] = i3 /\ c[k + 2] = b4
    BY <1>0, <1>11
  <2> DEFINE m == Len(c)
  <2>2. m + 1 = k + 3 /\ m \in Nat
    BY <1>0, <1>2, <1>3, <1>11, LoadedLength
  <2> HIDE DEF m
  <2>4. k + 2 = k3 + 1 /\ m = k3 + 1 /\ m \in 1 .. 5 /\ k \in 1 .. 5 /\ k \in Nat /\ k3 \in 1 .. 4
    BY <1>11, <2>2
  <2>3. k + 2 = k3 + 1 /\ Len(c) = k3 + 1 /\ Len(c) \in 1 .. 5 /\ k \in 1 .. 5 /\ k \in Nat /\ k3 \in 1 .. 4
    BY <2>4 DEF m
  <2> QED
    BY <2>1, <2>3
<1> HIDE DEF k3
<1>9. ASSUME NEW r2, Frame(r2), r2[AT] = Y, \A m \in Registers \ {AT} : r2[m] = first[m] PROVE Good(c, k, r2)
  <2>1. r2[s] = X
    BY <1>2, <1>9
  <2>2. IsBranch(b2) /\ (Taken(b2, r2) <=> X = Y)
    BY <1>7, <1>9, <2>1 DEF IsBranch, Taken
  <2>3. Puts(i3, r2, AT, v)
    <3>1. Does(i3, r2, AT, "sltu", r2[s], r2[AT])
      BY <1>2, <1>6, <1>9, <2>1, RegisterForm DEF i3
    <3> QED
      BY <1>6, <1>9, <2>1, <3>1, DoesPuts
  <2>4. X # Y => Good(c, k3, r2)
    <3> SUFFICES ASSUME X # Y PROVE Good(c, k3, r2)
      OBVIOUS
    <3>1. (Holds # Wraps) <=> (br = "bne" <=> v = 1)
      BY <1>2, <1>4, <1>6
    <3>2. Len(c) = k3 + 1 /\ c[k3] = i3 /\ c[k3 + 1] = Branch(br, 0, AT, 0) /\ k3 \in 1 .. 4 /\ br \in {"beq", "bne"}
      BY <1>8 DEF b4
    <3> HIDE DEF v, br
    <3> QED
      BY <1>1, <1>6, <1>9, <2>3, <3>1, <3>2, TestGood
  <2>5. ASSUME X = Y, NEW r, Frame(r) PROVE Meets(r, Leaves(b2))
    <3>1. Leaves(b2) = IF Holds # Wraps THEN "taken" ELSE "done"
      BY <1>2, <1>4, <1>7, <2>5 DEF Leaves
    <3> QED
      BY <1>1, <2>5, <3>1, EndsBranch
  <2>7. b2.to = 0 \/ k + b2.to > Len(c)
    BY <1>7, <1>8
  <2>8. Exits(c, k, r2)
    BY <1>8, <1>9, <2>2, <2>5, <2>7 DEF Exits
  <2>9. Passes(c[k], r2) => After(c[k], r2) = r2 /\ X # Y
    BY <1>8, <2>2 DEF Passes, After
  <2>10. Good(c, k + 1, r2) \/ X = Y
    BY <1>8, <2>4
  <2> QED
    BY <1>8, <2>8, <2>9, <2>10, GoodUnfolds
<1>10. Good(c, 1, first)
  <2>1. Frame(loaded) /\ loaded[AT] = Y /\ \A m \in Registers \ {AT} : loaded[m] = first[m]
    BY <1>2, FrameWrites DEF loaded
  <2>2. Good(c, k, loaded)
    BY <1>9, <2>1
  <2>3. Good(c, k, loaded) => Good(c, 1, first)
    BY <1>11, Zenon
  <2> QED
    BY <2>2, <2>3, Zenon
<1> QED
  BY <1>8, <1>10 DEF c

-----------------------------------------------------------------------------
(* Which way each of the branches goes.                                     *)
LEMMA Orders ==
    ASSUME Started, pseudo.op \in OrderOps \cup EqualOps
    PROVE  /\ pseudo.op = "bgt" => ((Holds # Wraps) <=> (Signed(X) > Signed(Y) <=> ~WrappingOrder))
           /\ pseudo.op = "bge" => ((Holds # Wraps) <=> (Signed(X) >= Signed(Y)))
           /\ pseudo.op = "blt" => ((Holds # Wraps) <=> (Signed(X) < Signed(Y)))
           /\ pseudo.op = "ble" => ((Holds # Wraps) <=> (Signed(X) <= Signed(Y) <=> ~WrappingOrder))
           /\ pseudo.op = "bgtu" => ((Holds # Wraps) <=> (X > Y))
           /\ pseudo.op = "bgeu" => ((Holds # Wraps) <=> (X >= Y))
           /\ pseudo.op = "bltu" => ((Holds # Wraps) <=> (X < Y))
           /\ pseudo.op = "bleu" => ((Holds # Wraps) <=> (X <= Y))
           /\ pseudo.op = "beq" => ((Holds # Wraps) <=> (X = Y))
           /\ pseudo.op = "bne" => ((Holds # Wraps) <=> (X # Y))
<1>1. pseudo.op \notin {"bgt", "ble"} => ~WrappingOrder
  BY DEF WrappingOrder
<1>2. ASSUME pseudo.op = "bgt" PROVE (Holds # Wraps) <=> (Signed(X) > Signed(Y) <=> ~WrappingOrder)
  <2> DEFINE p == Signed(X) > Signed(Y)
  <2>1. p \in BOOLEAN /\ Holds = p
    BY <1>2 DEF Holds
  <2> HIDE DEF p
  <2>2. (Holds # Wraps) <=> (p <=> ~WrappingOrder)
    BY <2>1, BranchMeaning
  <2> QED
    BY <2>2 DEF p
<1>3. ASSUME pseudo.op = "bge" PROVE (Holds # Wraps) <=> (Signed(X) >= Signed(Y) <=> ~WrappingOrder)
  <2> DEFINE p == Signed(X) >= Signed(Y)
  <2>1. p \in BOOLEAN /\ Holds = p
    BY <1>3 DEF Holds
  <2> HIDE DEF p
  <2>2. (Holds # Wraps) <=> (p <=> ~WrappingOrder)
    BY <2>1, BranchMeaning
  <2> QED
    BY <2>2 DEF p
<1>4. ASSUME pseudo.op = "blt" PROVE (Holds # Wraps) <=> (Signed(X) < Signed(Y) <=> ~WrappingOrder)
  <2> DEFINE p == Signed(X) < Signed(Y)
  <2>1. p \in BOOLEAN /\ Holds = p
    BY <1>4 DEF Holds
  <2> HIDE DEF p
  <2>2. (Holds # Wraps) <=> (p <=> ~WrappingOrder)
    BY <2>1, BranchMeaning
  <2> QED
    BY <2>2 DEF p
<1>5. ASSUME pseudo.op = "ble" PROVE (Holds # Wraps) <=> (Signed(X) <= Signed(Y) <=> ~WrappingOrder)
  <2> DEFINE p == Signed(X) <= Signed(Y)
  <2>1. p \in BOOLEAN /\ Holds = p
    BY <1>5 DEF Holds
  <2> HIDE DEF p
  <2>2. (Holds # Wraps) <=> (p <=> ~WrappingOrder)
    BY <2>1, BranchMeaning
  <2> QED
    BY <2>2 DEF p
<1>6. ASSUME pseudo.op = "bgtu" PROVE (Holds # Wraps) <=> (X > Y <=> ~WrappingOrder)
  <2> DEFINE p == X > Y
  <2>1. p \in BOOLEAN /\ Holds = p
    BY <1>6 DEF Holds
  <2> HIDE DEF p
  <2>2. (Holds # Wraps) <=> (p <=> ~WrappingOrder)
    BY <2>1, BranchMeaning
  <2> QED
    BY <2>2 DEF p
<1>7. ASSUME pseudo.op = "bgeu" PROVE (Holds # Wraps) <=> (X >= Y <=> ~WrappingOrder)
  <2> DEFINE p == X >= Y
  <2>1. p \in BOOLEAN /\ Holds = p
    BY <1>7 DEF Holds
  <2> HIDE DEF p
  <2>2. (Holds # Wraps) <=> (p <=> ~WrappingOrder)
    BY <2>1, BranchMeaning
  <2> QED
    BY <2>2 DEF p
<1>8. ASSUME pseudo.op = "bltu" PROVE (Holds # Wraps) <=> (X < Y <=> ~WrappingOrder)
  <2> DEFINE p == X < Y
  <2>1. p \in BOOLEAN /\ Holds = p
    BY <1>8 DEF Holds
  <2> HIDE DEF p
  <2>2. (Holds # Wraps) <=> (p <=> ~WrappingOrder)
    BY <2>1, BranchMeaning
  <2> QED
    BY <2>2 DEF p
<1>9. ASSUME pseudo.op = "bleu" PROVE (Holds # Wraps) <=> (X <= Y <=> ~WrappingOrder)
  <2> DEFINE p == X <= Y
  <2>1. p \in BOOLEAN /\ Holds = p
    BY <1>9 DEF Holds
  <2> HIDE DEF p
  <2>2. (Holds # Wraps) <=> (p <=> ~WrappingOrder)
    BY <2>1, BranchMeaning
  <2> QED
    BY <2>2 DEF p
<1>10. ASSUME pseudo.op = "beq" PROVE (Holds # Wraps) <=> (X = Y <=> ~WrappingOrder)
  <2> DEFINE p == X = Y
  <2>1. p \in BOOLEAN /\ Holds = p
    BY <1>10 DEF Holds
  <2> HIDE DEF p
  <2>2. (Holds # Wraps) <=> (p <=> ~WrappingOrder)
    BY <2>1, BranchMeaning
  <2> QED
    BY <2>2 DEF p
<1>11. ASSUME pseudo.op = "bne" PROVE (Holds # Wraps) <=> (X # Y <=> ~WrappingOrder)
  <2> DEFINE p == X # Y
  <2>1. p \in BOOLEAN /\ Holds = p
    BY <1>11 DEF Holds
  <2> HIDE DEF p
  <2>2. (Holds # Wraps) <=> (p <=> ~WrappingOrder)
    BY <2>1, BranchMeaning
  <2> QED
    BY <2>2 DEF p
<1> QED
  BY <1>1, <1>2, <1>3, <1>4, <1>5, <1>6, <1>7, <1>8, <1>9, <1>10, <1>11

LEMMA OrderedGood ==
    ASSUME Started, pseudo.op \in OrderOps, pseudo.value = NoValue
    PROVE  Len(Code) \in 1 .. 5 /\ Good(Code, 1, first)
<1> DEFINE s == pseudo.s
           t == pseudo.t
           f == Compared(pseudo.op)
<1>1. /\ X \in Reg /\ Y \in Reg /\ first[s] = X /\ first[t] = Y /\ {s, t} \subseteq Registers
      /\ Signed(X) \in Int /\ Signed(Y) \in Int /\ X \in Int /\ Y \in Int
      /\ ~WrappingOrder /\ Code = Ordered(pseudo.op, s, t)
  BY BranchOperands, BranchFacts, NamedRegisters DEF WrappingOrder
<1>2. /\ f \in {"slt", "sltu"}
      /\ pseudo.op \in {"bgt", "bge", "blt", "ble"} => f = "slt"
      /\ pseudo.op \in {"bgtu", "bgeu", "bltu", "bleu"} => f = "sltu"
  BY DEF Compared
<1>3. /\ Computed(f, X, Y) = 1 <=> IF f = "slt" THEN Signed(X) < Signed(Y) ELSE X < Y
      /\ Computed(f, Y, X) = 1 <=> IF f = "slt" THEN Signed(Y) < Signed(X) ELSE Y < X
  BY <1>1, <1>2, TestFact
<1> HIDE DEF f
<1>4. CASE pseudo.op \in {"bgt", "bgtu"}
  <2>1. Code = <<R3(f, AT, t, s), Branch("bne", 0, AT, 0)>>
    BY <1>1, <1>4 DEF Ordered, f
  <2>2. (Holds # Wraps) <=> ("bne" = "bne" <=> Computed(f, Y, X) = 1)
    BY <1>1, <1>2, <1>3, <1>4, Orders
  <2> QED
    BY <1>1, <1>2, <2>1, <2>2, RegisterTestGood
<1>5. CASE pseudo.op \in {"bge", "bgeu"}
  <2>1. Code = <<R3(f, AT, s, t), Branch("beq", 0, AT, 0)>>
    BY <1>1, <1>5 DEF Ordered, f
  <2>2. (Holds # Wraps) <=> ("beq" = "bne" <=> Computed(f, X, Y) = 1)
    BY <1>1, <1>2, <1>3, <1>5, Orders
  <2> QED
    BY <1>1, <1>2, <2>1, <2>2, RegisterTestGood
<1>6. CASE pseudo.op \in {"blt", "bltu"}
  <2>1. Code = <<R3(f, AT, s, t), Branch("bne", 0, AT, 0)>>
    BY <1>1, <1>6 DEF Ordered, f
  <2>2. (Holds # Wraps) <=> ("bne" = "bne" <=> Computed(f, X, Y) = 1)
    BY <1>1, <1>2, <1>3, <1>6, Orders
  <2> QED
    BY <1>1, <1>2, <2>1, <2>2, RegisterTestGood
<1>7. CASE pseudo.op \in {"ble", "bleu"}
  <2>1. Code = <<R3(f, AT, t, s), Branch("beq", 0, AT, 0)>>
    BY <1>1, <1>7 DEF Ordered, f
  <2>2. (Holds # Wraps) <=> ("beq" = "bne" <=> Computed(f, Y, X) = 1)
    BY <1>1, <1>2, <1>3, <1>7, Orders
  <2> QED
    BY <1>1, <1>2, <2>1, <2>2, RegisterTestGood
<1> QED
  BY <1>4, <1>5, <1>6, <1>7 DEF OrderOps

LEMMA OrderedImmGood ==
    ASSUME Started, pseudo.op \in OrderOps, pseudo.value # NoValue
    PROVE  Len(Code) \in 1 .. 5 /\ Good(Code, 1, first)
<1> DEFINE s == pseudo.s
           z == Unsigned(Y + 1)
           a == Signed(X)
           b == Signed(Y)
           h == W \div 2
<1>1. /\ X \in Reg /\ Y \in Reg /\ Y = pseudo.value /\ a \in Int /\ b \in Int /\ X \in Int /\ Y \in Int
      /\ pseudo.op \in {"bgt", "ble"} => (WrappingOrder <=> Y = h - 1)
      /\ Code = OrderedImm(pseudo.op, s, Y)
  BY BranchOperands, BranchFacts DEF WrappingOrder
<1>2. /\ z \in Reg /\ Signed(z) = (IF Y = h - 1 THEN -h ELSE b + 1) /\ (Y = h - 1 => b = Y)
      /\ h \in Nat /\ -h <= a /\ a < h
  BY <1>1, SuccessorWord, SignedWord, HalfWord DEF InRange
<1>3. /\ "slti" \in DOMAIN RegForm /\ RegForm["slti"] = "slt"
      /\ "sltiu" \in DOMAIN RegForm /\ RegForm["sltiu"] = "sltu"
  BY DEF RegForm
<1>4. CASE pseudo.op \in {"bgt", "ble"}
  <2> DEFINE v == Computed("slt", X, z)
  <2>1. v = 1 <=> a < Signed(z)
    BY <1>1, <1>2, TestFact
  <2> HIDE DEF v, z, a, b, h
  <2>2. v = 1 <=> (IF Y = h - 1 THEN FALSE ELSE a <= b)
    BY <1>1, <1>2, <2>1
  <2>3. (Y = h - 1) => a <= b
    BY <1>1, <1>2
  <2>4. CASE pseudo.op = "bgt"
    <3>1. (Holds # Wraps) <=> (a > b <=> ~WrappingOrder)
      BY <2>4, Orders DEF OrderOps, a, b
    <3>2. (Holds # Wraps) <=> ("beq" = "bne" <=> v = 1)
      BY <1>1, <2>2, <2>3, <2>4, <3>1
    <3>3. Code = i_type_inst("slti", AT, s, z) \o <<Branch("beq", 0, AT, 0)>>
      BY <1>1, <2>4 DEF OrderedImm, z
    <3> QED
      BY <1>2, <1>3, <3>2, <3>3, ImmediateTestGood DEF v
  <2>5. CASE pseudo.op = "ble"
    <3>1. (Holds # Wraps) <=> (a <= b <=> ~WrappingOrder)
      BY <2>5, Orders DEF OrderOps, a, b
    <3>2. (Holds # Wraps) <=> ("bne" = "bne" <=> v = 1)
      BY <1>1, <2>2, <2>3, <2>5, <3>1
    <3>3. Code = i_type_inst("slti", AT, s, z) \o <<Branch("bne", 0, AT, 0)>>
      BY <1>1, <2>5 DEF OrderedImm, z
    <3> QED
      BY <1>2, <1>3, <3>2, <3>3, ImmediateTestGood DEF v
  <2> QED
    BY <1>4, <2>4, <2>5
<1>5. CASE pseudo.op \in {"bge", "bgeu", "blt", "bltu"}
  <2> DEFINE op == LessImm(pseudo.op)
             f == IF pseudo.op \in {"bge", "blt"} THEN "slt" ELSE "sltu"
             v == Computed(f, X, Y)
             br == IF pseudo.op \in {"bge", "bgeu"} THEN "beq" ELSE "bne"
  <2>1. op \in DOMAIN RegForm /\ RegForm[op] = f
    BY <1>5 DEF LessImm, Compared, op_to_imm_op, RegForm
  <2>2. v = 1 <=> IF f = "slt" THEN Signed(X) < Signed(Y) ELSE X < Y
    BY <1>1, TestFact
  <2>3. Code = i_type_inst(op, AT, s, Y) \o <<Branch(br, 0, AT, 0)>>
    BY <1>1, <1>5 DEF OrderedImm
  <2> HIDE DEF v
  <2>4. (Holds # Wraps) <=> (br = "bne" <=> v = 1)
    BY <1>1, <1>5, <2>2, Orders DEF OrderOps
  <2> HIDE DEF op, f, br
  <2>5. f \in {"slt", "sltu"} /\ br \in {"beq", "bne"}
    BY DEF f, br
  <2> QED
    BY <1>1, <2>1, <2>3, <2>4, <2>5, ImmediateTestGood DEF v
<1>6. CASE pseudo.op \in {"bgtu", "bleu"}
  BY <1>6, UnsignedTestGood
<1> QED
  BY <1>4, <1>5, <1>6 DEF OrderOps

LEMMA EqualGood ==
    ASSUME Started, pseudo.op \in EqualOps
    PROVE  Len(Code) \in 1 .. 5 /\ Good(Code, 1, first)
<1> DEFINE c == Code
           s == pseudo.s
           op == pseudo.op
<1>1. /\ X \in Reg /\ Y \in Reg /\ first[s] = X /\ Y = pseudo.value /\ s \in Registers /\ s # AT /\ Frame(first)
      /\ first \in [Registers -> Reg] /\ first[0] = 0 /\ AT \in Registers /\ AT # 0
      /\ c = EqualImm(op, s, Y)
  BY BranchOperands, BranchFacts, FirstFrame, NamedRegisters, OpSets DEF Started
<1>2. (Holds # Wraps) <=> IF op = "beq" THEN X = Y ELSE X # Y
  BY Orders DEF EqualOps
<1> HIDE DEF c
<1>3. ASSUME NEW k \in 1 .. 5, k = Len(c), NEW b, c[k] = Branch(op, s, b, 0), NEW r, Frame(r), r[s] = X, r[b] = Y
      PROVE  Good(c, k, r)
  <2> DEFINE i == Branch(op, s, b, 0)
             o == IF Taken(i, r) THEN "taken" ELSE "done"
  <2>1. i.op = op /\ i.a = s /\ i.b = b /\ i.to = 0
    BY DEF Branch
  <2>2. c[k] = i
    BY <1>3
  <2> HIDE DEF i
  <2>3. IsBranch(i) /\ (Taken(i, r) <=> (Holds # Wraps))
    <3>1. CASE op = "beq"
      BY <1>2, <1>3, <2>1, <3>1 DEF IsBranch, Taken
    <3>2. CASE op = "bne"
      BY <1>2, <1>3, <2>1, <3>2 DEF IsBranch, Taken
    <3> QED
      BY <3>1, <3>2 DEF EqualOps
  <2>4. o = IF Holds # Wraps THEN "taken" ELSE "done"
    BY <2>3
  <2> HIDE DEF o
  <2>5. Meets(r, o)
    BY <1>3, <2>4, EndsBranch
  <2>6. Len(c) \in 1 .. 5
    BY <1>3
  <2> QED
    BY <1>3, <2>1, <2>2, <2>3, <2>5, <2>6, GoodBranch DEF o
<1>4. CASE Y = 0
  <2>1. c = <<Branch(op, s, 0, 0)>>
    BY <1>1, <1>4 DEF EqualImm
  <2>2. Len(c) = 1 /\ c[1] = Branch(op, s, 0, 0)
    BY <2>1
  <2>3. Good(c, 1, first)
    BY <1>1, <1>3, <1>4, <2>2
  <2> QED
    BY <2>2, <2>3 DEF c
<1>5. CASE Y # 0
  <2> DEFINE b == Branch(op, s, AT, 0)
             u == <<b>>
             r2 == [first EXCEPT ![AT] = Y]
  <2>1. c = i_type_inst("ori", AT, 0, Y) \o u
    BY <1>1, <1>5 DEF EqualImm
  <2> HIDE DEF b
  <2>2. IsSequence(u) /\ Len(u) = 1 /\ u[1] = b
    BY Literals
  <2> HIDE DEF u, r2
  <2>3. PICK k \in {2, 3} : Len(c) + 1 = k + Len(u) /\ c[k] = u[1] /\ (Good(c, k, r2) => Good(c, 1, first))
    <3>1. Len(u) \in 1 .. 3
      BY <2>2
    <3>2. Enters(c, u, first, Y)
      BY <1>1, <2>1, <2>2, <3>1, LoadedFirst, Zenon
    <3> QED
      BY <3>2 DEF Enters, r2
  <2>4. c[k] = b /\ k = Len(c) /\ k \in 1 .. 5 /\ Len(c) \in 1 .. 5
    <3> DEFINE m == Len(c)
    <3>1. m \in Nat
      BY <1>1, <2>1, <2>2, LoadedLength
    <3>2. m + 1 = k + 1 /\ c[k] = b
      BY <2>2, <2>3
    <3> HIDE DEF m
    <3>3. k = m /\ k \in 1 .. 5 /\ m \in 1 .. 5
      BY <2>3, <3>1, <3>2
    <3> QED
      BY <3>2, <3>3 DEF m
  <2>5. Frame(r2) /\ r2[AT] = Y /\ r2[s] = X
    BY <1>1, FrameWrites DEF r2
  <2>6. Good(c, k, r2)
    BY <1>3, <2>4, <2>5 DEF b
  <2> QED
    BY <2>3, <2>4, <2>6 DEF c
<1> QED
  BY <1>4, <1>5 DEF c

-----------------------------------------------------------------------------
(* The unary instructions.                                                  *)
LEMMA ComplementWord ==
    ASSUME NEW v \in Reg
    PROVE  BitOr(v, 0) = v /\ W - 1 - v = Unsigned(-Signed(v) - 1)
<1> DEFINE w == W
           a == Signed(v)
           n == -a - 1
           m == w - 1 - v
<1>1. w \in Nat \ {0} /\ v \in 0 .. w - 1 /\ 0 \in Reg
  BY WordFact, SmallNumbers DEF Reg
<1>2. a \in Int /\ (a = v \/ a = v + (-1) * w)
  BY SignedWord
<1>3. BitAnd(v, 0) = 0
  <2> DEFINE z == BitAnd(v, 0)
  <2>1. z \in Reg /\ \A i \in 0 .. Bits - 1 : BitOf(z, i) = BitOf(v, i) * BitOf(0, i) /\ BitOf(v, i) \in {0, 1}
    BY <1>1, WordBits
  <2>2. Bits \in Nat /\ W = Pow2[Bits]
    BY WordPower
  <2> HIDE DEF z
  <2>3. \A i \in 0 .. Bits - 1 : BitOf(z, i) = 0
    <3> SUFFICES ASSUME NEW i \in 0 .. Bits - 1 PROVE BitOf(z, i) = 0
      OBVIOUS
    <3>1. BitOf(0, i) = 0
      BY <2>2, ZeroBits
    <3> DEFINE b == BitOf(v, i)
    <3>2. b \in {0, 1} /\ BitOf(z, i) = b * 0
      BY <2>1, <3>1
    <3> HIDE DEF b
    <3> QED
      BY <3>2
  <2>4. z \in 0 .. Pow2[Bits] - 1
    BY <2>1, <2>2 DEF Reg
  <2> QED
    BY <2>2, <2>3, <2>4, NoBits DEF z
<1>4. BitOr(v, 0) = v
  BY <1>1, <1>3 DEF BitOr
<1> HIDE DEF w, a
<1>5. m \in 0 .. w - 1 /\ n \in Int /\ (n = (-1) * w + m \/ n = 0 * w + m)
  BY <1>1, <1>2
<1> HIDE DEF n, m
<1>6. \E q \in Int : n = q * w + m
  BY <1>5
<1>7. n % w = m
  BY <1>1, <1>5, <1>6, ModUnique
<1> QED
  BY <1>4, <1>7 DEF n, m, a, w, Unsigned

LEMMA UnaryOperands ==
    ASSUME Started, pseudo.op \in UnaryOps
    PROVE  /\ X \in Reg /\ first[pseudo.s] = X /\ Signed(X) \in Int /\ InRange(Signed(X)) /\ X \in Int
           /\ Wraps = FALSE /\ pseudo.op \in (UnaryOps \cup BinaryOps) \ BitOps
           /\ Trapping <=> pseudo.op \in {"abs", "neg"} /\ ~InRange(Meant)
           /\ pseudo.d \in Dests /\ pseudo.d \in Registers /\ pseudo.d # 0 /\ pseudo.d # AT
           /\ pseudo.s \in Registers /\ pseudo.s # AT /\ Frame(first) /\ 0 \in Registers
           /\ first[0] = 0 /\ 0 \in Reg /\ first \in [Registers -> Reg]
           /\ Code = Unary(pseudo.op, pseudo.d, pseudo.s)
<1>1. pseudo.op \notin {"bgt", "ble", "add", "sub"} /\ pseudo.op \in (UnaryOps \cup BinaryOps) \ BitOps
  BY DEF UnaryOps, BitOps
<1>2. Wraps = FALSE /\ (Trapping <=> pseudo.op \in {"abs", "neg"} /\ ~InRange(Meant))
  BY <1>1 DEF Wraps, Trapping
<1>3. X \in Reg /\ first[pseudo.s] = X /\ Signed(X) \in Int /\ InRange(Signed(X)) /\ X \in Int
  BY FirstFrame, SignedWord DEF X
<1> QED
  BY <1>1, <1>2, <1>3, UnaryFacts, FirstFrame, NamedRegisters, SmallNumbers DEF Started

(* Subtracting from zero negates.                                           *)
LEMMA NegatedWord ==
    ASSUME NEW x \in Reg
    PROVE  /\ Computed("subu", 0, x) = Unsigned(-Signed(x)) /\ Computed("sub", 0, x) = Unsigned(-Signed(x))
           /\ Raises("sub", 0, x) <=> ~InRange(-Signed(x))
           /\ ~Raises("subu", 0, x)
<1> DEFINE a == Signed(x)
<1>1. 0 \in Reg /\ Signed(0) = 0 /\ a \in Int
  BY ZeroOperand, SignedWord
<1>2. Signed(0) - a = -a
  BY <1>1
<1>3. Unsigned(0 - x) = Unsigned(Signed(0) - a)
  BY <1>1, SignedSums
<1> HIDE DEF a
<1>4. Computed("subu", 0, x) = Unsigned(0 - x) /\ Computed("sub", 0, x) = Unsigned(0 - x)
  BY DEF Computed
<1>5. (Raises("sub", 0, x) <=> ~InRange(Signed(0) - a)) /\ ~Raises("subu", 0, x)
  BY DEF Raises, a
<1>6. Unsigned(0 - x) = Unsigned(-a)
  BY <1>2, <1>3
<1>7. Raises("sub", 0, x) <=> ~InRange(-a)
  BY <1>2, <1>5
<1> QED
  BY <1>4, <1>5, <1>6, <1>7 DEF a

(* One instruction that computes the result.                                *)
LEMMA OneUnaryGood ==
    ASSUME Started, pseudo.op \in UnaryOps, NEW f \in RegisterOps, NEW a \in Registers, NEW b \in Registers,
           Code = <<R3(f, pseudo.d, a, b)>>,
           Raises(f, first[a], first[b]) <=> Trapping, Computed(f, first[a], first[b]) = Unsigned(Meant)
    PROVE  Len(Code) \in 1 .. 5 /\ Good(Code, 1, first)
<1> DEFINE c == Code
           d == pseudo.d
           x == first[a]
           y == first[b]
           v == Computed(f, x, y)
           e == Raises(f, x, y)
           i == R3(f, d, a, b)
<1>1. x \in Reg /\ y \in Reg /\ Frame(first) /\ d \in Dests
  BY UnaryOperands
<1>2. Does(i, first, d, f, x, y)
  BY <1>1, RegisterForm
<1>3. e \in BOOLEAN
  BY DEF Raises
<1>4. e <=> (Trapping # Wraps)
  <2>1. Trapping # Wraps <=> Trapping
    BY UnaryOperands DEF Trapping
  <2> QED
    BY <1>3, <2>1
<1> HIDE DEF v, e, c, i
<1>5. Ends(v, e)
  BY <1>3, <1>4, UnaryOperands, EndsWord DEF v
<1>6. Len(c) = 1 /\ c[1] = i
  BY DEF c, i
<1>7. Good(c, 1, first)
  BY <1>1, <1>2, <1>5, <1>6, LastGood DEF v, e
<1> QED
  BY <1>6, <1>7 DEF c

(* abs negates unless the branch before it is taken.                        *)
LEMMA AbsTail ==
    ASSUME Started, pseudo.op = "abs",
           NEW c, NEW k \in 1 .. 4, Len(c) = k + 1,
           c[k] = Branch("bgez", pseudo.s, 0, 2), c[k + 1] = R3("sub", pseudo.d, 0, pseudo.s),
           NEW r, Frame(r), r[pseudo.s] = X, r[pseudo.d] = X
    PROVE  Good(c, k, r)
<1> DEFINE d == pseudo.d
           s == pseudo.s
           a == Signed(X)
           i == Branch("bgez", s, 0, 2)
           j == R3("sub", d, 0, s)
           n == k + 1
           v == Computed("sub", 0, X)
           e == Raises("sub", 0, X)
           m == IF a < 0 THEN -a ELSE a
           r2 == [r EXCEPT ![d] = v]
<1>1. /\ X \in Reg /\ a \in Int /\ InRange(a) /\ Wraps = FALSE /\ pseudo.op \in (UnaryOps \cup BinaryOps) \ BitOps
      /\ pseudo.op \in UnaryOps /\ d \in Dests /\ d \in Registers /\ d # 0 /\ (Trapping <=> ~InRange(Meant)) /\ Meant = m
      /\ "sub" \in RegisterOps
  <2>1. pseudo.op \in UnaryOps
    BY DEF UnaryOps
  <2> QED
    BY <2>1, UnaryOperands DEF Meant, RegisterOps
<1>2. v = Unsigned(-a) /\ (e <=> ~InRange(-a)) /\ v \in Reg /\ e \in BOOLEAN /\ 0 \in Reg
  BY <1>1, NegatedWord, ComputedType, SmallNumbers DEF Raises
<1>3. Does(j, r, d, "sub", 0, X)
  <2>1. r[0] = 0
    BY DEF Frame
  <2> QED
    BY <1>1, <1>2, <2>1, RegisterForm
<1>4. i.op = "bgez" /\ i.a = s /\ i.to = 2
  BY DEF Branch
<1>5. c[k] = i /\ c[n] = j /\ n \in 1 .. 5 /\ n = Len(c) /\ Len(c) \in 1 .. 5 /\ k \in 1 .. 5 /\ k < Len(c) /\ k + 2 > Len(c)
  OBVIOUS
<1> HIDE DEF i, j, v, e, n
<1>6. IsBranch(i) /\ (Taken(i, r) <=> a >= 0)
  BY <1>1, <1>4, SignedWord DEF IsBranch, Taken
<1>7. ~IsBranch(j) /\ j.d = d /\ Value(j, r) = v /\ (Overflows(j, r) <=> e)
  BY <1>3 DEF Does, v, e
<1>8. Frame(r2) /\ r2[d] = v
  BY <1>1, <1>2, FrameWrites
<1>9. ASSUME NEW r3, Frame(r3), NEW o, o = (IF InRange(m) THEN "done" ELSE "overflow"),
             o = "done" => r3[d] = Unsigned(m)
      PROVE  Meets(r3, o)
  <2>1. (Trapping # Wraps) <=> ~InRange(m)
    BY <1>1 DEF Trapping
  <2> DEFINE raised == ~InRange(m)
             u == Unsigned(m)
  <2>2. raised \in BOOLEAN /\ (raised <=> (Trapping # Wraps)) /\ u = Unsigned(Meant)
    BY <1>1, <2>1
  <2>3. o = (IF raised THEN "overflow" ELSE "done") /\ (~raised => r3[d] = u)
    BY <1>9
  <2> HIDE DEF raised, u
  <2>4. Ends(u, raised)
    BY <1>1, <2>2, EndsWord
  <2> QED
    BY <1>9, <2>3, <2>4 DEF Ends
<1>10. a < 0 => Meets(IF e THEN r ELSE r2, IF e THEN "overflow" ELSE "done")
  <2> SUFFICES ASSUME a < 0 PROVE Meets(IF e THEN r ELSE r2, IF e THEN "overflow" ELSE "done")
    OBVIOUS
  <2>1. m = -a
    OBVIOUS
  <2> HIDE DEF m, r2, a
  <2>2. CASE e
    BY <1>2, <1>9, <2>1, <2>2
  <2>3. CASE ~e
    BY <1>2, <1>8, <1>9, <2>1, <2>3
  <2> QED
    BY <1>2, <2>2, <2>3
<1>11. a >= 0 => Meets(r, "done")
  <2> SUFFICES ASSUME a >= 0 PROVE Meets(r, "done")
    OBVIOUS
  <2>1. m = a
    BY <1>1
  <2>2. Unsigned(a) = X
    BY <1>1, SignedSums
  <2> HIDE DEF m, a
  <2> QED
    BY <1>1, <1>9, <2>1, <2>2
<1>12. Exits(c, k, r)
  <2>1. Leaves(i) = "done"
    BY <1>4 DEF Leaves
  <2>2. Taken(i, r) => Meets(r, "done")
    BY <1>6, <1>11
  <2> QED
    BY <1>4, <1>5, <1>6, <2>1, <2>2 DEF Exits
<1>13. ~Taken(i, r) => Good(c, k + 1, r)
  <2> SUFFICES ASSUME ~Taken(i, r) PROVE Good(c, n, r)
    BY DEF n
  <2>1. a < 0
    BY <1>1, <1>6
  <2>2. Meets(IF e THEN r ELSE r2, IF e THEN "overflow" ELSE "done")
    BY <1>10, <2>1
  <2>3. Overflows(c[n], r) => Meets(r, "overflow")
    BY <1>5, <1>7, <2>2
  <2>4. ~Overflows(c[n], r) => Meets([r EXCEPT ![c[n].d] = Value(c[n], r)], "done")
    BY <1>5, <1>7, <2>2
  <2> QED
    BY <1>5, <1>7, <2>3, <2>4, GoodLast
<1>14. Passes(c[k], r) => ~Taken(i, r) /\ After(c[k], r) = r
  BY <1>5, <1>6 DEF Passes, After
<1> QED
  BY <1>5, <1>12, <1>13, <1>14, GoodUnfolds

LEMMA UnaryGood ==
    ASSUME Started, pseudo.op \in UnaryOps
    PROVE  Len(Code) \in 1 .. 5 /\ Good(Code, 1, first)
<1> DEFINE c == Code
           d == pseudo.d
           s == pseudo.s
           a == Signed(X)
<1>1. /\ X \in Reg /\ first[s] = X /\ a \in Int /\ InRange(a) /\ X \in Int
      /\ Trapping <=> pseudo.op \in {"abs", "neg"} /\ ~InRange(Meant)
      /\ d \in Dests /\ d \in Registers /\ d # 0 /\ d # AT /\ s \in Registers /\ s # AT /\ Frame(first) /\ 0 \in Registers
      /\ first[0] = 0 /\ 0 \in Reg /\ first \in [Registers -> Reg]
      /\ c = Unary(pseudo.op, d, s)
  BY UnaryOperands
<1>2. {"add", "addu", "sub", "subu", "nor"} \subseteq RegisterOps
  BY DEF RegisterOps
<1>3. Unsigned(a) = X /\ Unsigned(0 + X) = X
  BY <1>1, SignedSums, ZeroOperand
<1>4. CASE pseudo.op = "neg"
  <2>1. c = <<R3("sub", d, 0, s)>> /\ Meant = -a
    BY <1>1, <1>4 DEF Unary, Meant
  <2>2. (Raises("sub", 0, X) <=> Trapping) /\ Computed("sub", 0, X) = Unsigned(Meant)
    BY <1>1, <1>4, <2>1, NegatedWord DEF Trapping
  <2> HIDE DEF a
  <2> QED
    BY <1>1, <1>2, <2>1, <2>2, OneUnaryGood
<1>5. CASE pseudo.op = "negu"
  <2>1. c = <<R3("subu", d, 0, s)>> /\ Meant = -a
    BY <1>1, <1>5 DEF Unary, Meant
  <2>2. (Raises("subu", 0, X) <=> Trapping) /\ Computed("subu", 0, X) = Unsigned(Meant)
    BY <1>1, <1>5, <2>1, NegatedWord DEF Trapping
  <2> HIDE DEF a
  <2> QED
    BY <1>1, <1>2, <2>1, <2>2, OneUnaryGood
<1>6. CASE pseudo.op = "not"
  <2>1. c = <<R3("nor", d, s, 0)>> /\ Meant = -a - 1
    BY <1>1, <1>6 DEF Unary, Meant
  <2>2. ~Raises("nor", X, 0) /\ ~Trapping /\ Computed("nor", X, 0) = W - 1 - BitOr(X, 0)
    BY <1>1, <1>6 DEF Raises, Computed
  <2>3. Computed("nor", X, 0) = Unsigned(Meant)
    BY <1>1, <2>1, <2>2, ComplementWord
  <2> HIDE DEF a
  <2> QED
    BY <1>1, <1>2, <2>1, <2>2, <2>3, OneUnaryGood
<1>7. CASE pseudo.op = "move"
  <2>1. c = <<R3("addu", d, 0, s)>> /\ Meant = a
    BY <1>1, <1>7 DEF Unary, Meant
  <2>2. ~Raises("addu", 0, X) /\ ~Trapping /\ Computed("addu", 0, X) = Unsigned(0 + X)
    BY <1>1, <1>7 DEF Raises, Computed
  <2>3. Computed("addu", 0, X) = Unsigned(Meant)
    BY <1>3, <2>1, <2>2
  <2> HIDE DEF a
  <2> QED
    BY <1>1, <1>2, <2>1, <2>2, <2>3, OneUnaryGood
<1>8. CASE pseudo.op = "abs"
  <2> DEFINE i == R3("addu", d, 0, s)
             b == Branch("bgez", s, 0, 2)
             j == R3("sub", d, 0, s)
  <2>1. c = (IF d # s THEN <<i>> ELSE <<>>) \o <<b, j>>
    BY <1>1, <1>8 DEF Unary
  <2> HIDE DEF i, b, j, c
  <2>2. CASE d = s
    <3> DEFINE k == 1
    <3>1. Len(c) = k + 1 /\ c[k] = b /\ c[k + 1] = j /\ k \in 1 .. 4
      BY <2>1, <2>2
    <3> HIDE DEF k
    <3>2. Good(c, k, first)
      BY <1>1, <1>8, <2>2, <3>1, AbsTail DEF b, j
    <3> QED
      BY <3>1, <3>2 DEF k, c
  <2>3. CASE d # s
    <3> DEFINE k == 2
               r2 == [first EXCEPT ![d] = X]
    <3>1. Len(c) = 3 /\ c[1] = i /\ c[k] = b /\ c[k + 1] = j /\ k \in 1 .. 4 /\ Len(c) = k + 1
      BY <2>1, <2>3
    <3>2. Does(i, first, d, "addu", 0, X)
      BY <1>1, <1>2, RegisterForm DEF i
    <3>3. Computed("addu", 0, X) = X /\ ~Raises("addu", 0, X)
      BY <1>3 DEF Computed, Raises
    <3>4. Puts(c[1], first, d, X) /\ Len(c) \in 2 .. 5
      BY <3>1, <3>2, <3>3 DEF Does, Puts
    <3>5. Frame(r2) /\ r2[d] = X /\ r2[s] = X
      BY <1>1, <2>3, FrameWrites
    <3> HIDE DEF k, r2
    <3>6. Good(c, k, r2)
      BY <1>1, <1>8, <3>1, <3>5, AbsTail DEF b, j
    <3>7. Good(c, 2, r2)
      BY <3>6 DEF k
    <3>8. Good(c, 1, first)
      BY <3>4, <3>7, FirstGood DEF r2
    <3> QED
      BY <3>1, <3>8 DEF c
  <2> QED
    BY <2>2, <2>3
<1> QED
  BY <1>4, <1>5, <1>6, <1>7, <1>8 DEF UnaryOps

-----------------------------------------------------------------------------
(* The rotations.                                                           *)
LEMMA ShiftForms ==
    ASSUME NEW d, NEW a, NEW b, NEW n, NEW r
    PROVE  /\ Puts(R3("sllv", d, a, b), r, d, LeftShift(r[b], r[a] % Bits))
           /\ Puts(R3("srlv", d, a, b), r, d, RightShift(r[b], r[a] % Bits))
           /\ Puts(R2Imm("sll", d, a, n), r, d, LeftShift(r[a], n % Bits))
           /\ Puts(R2Imm("srl", d, a, n), r, d, RightShift(r[a], n % Bits))
<1>1. ASSUME NEW op \in {"sllv", "srlv"}
      PROVE  Puts(R3(op, d, a, b), r, d, IF op = "sllv" THEN LeftShift(r[b], r[a] % Bits) ELSE RightShift(r[b], r[a] % Bits))
  <2> DEFINE i == R3(op, d, a, b)
  <2>1. i.op = op /\ i.d = d /\ i.a = a /\ i.b = b
    BY DEF R3
  <2> HIDE DEF i
  <2>2. Operand(i, r) = r[b] /\ Operation(i) = op /\ ~IsBranch(i)
    BY <2>1 DEF Operand, Operation, IsBranch, RegForm
  <2>3. Value(i, r) = IF op = "sllv" THEN LeftShift(r[b], r[a] % Bits) ELSE RightShift(r[b], r[a] % Bits)
    BY <2>1, <2>2 DEF Value
  <2>4. ~Overflows(i, r)
    BY <2>2 DEF Overflows
  <2> QED
    BY <2>1, <2>2, <2>3, <2>4 DEF Puts, i
<1>2. ASSUME NEW op \in {"sll", "srl"}
      PROVE  Puts(R2Imm(op, d, a, n), r, d, IF op = "sll" THEN LeftShift(r[a], n % Bits) ELSE RightShift(r[a], n % Bits))
  <2> DEFINE i == R2Imm(op, d, a, n)
  <2>1. i.op = op /\ i.d = d /\ i.a = a /\ i.imm = n
    BY DEF R2Imm
  <2> HIDE DEF i
  <2>2. Operation(i) = op /\ ~IsBranch(i)
    BY <2>1 DEF Operation, IsBranch, RegForm
  <2>3. Value(i, r) = IF op = "sll" THEN LeftShift(r[a], n % Bits) ELSE RightShift(r[a], n % Bits)
    BY <2>1, <2>2 DEF Value
  <2>4. ~Overflows(i, r)
    BY <2>2 DEF Overflows
  <2> QED
    BY <2>1, <2>2, <2>3, <2>4 DEF Puts, i
<1> QED
  BY <1>1, <1>2

(* The number of bits divides the number of words: an amount that wrapped    *)
(* is the same amount.                                                     *)
LEMMA WrappedAmount ==
    ASSUME W % Bits = 0, NEW n \in Int
    PROVE  Unsigned(n) % Bits = n % Bits
<1> DEFINE w == W
           m == Bits
           z == n % w
<1>1. w \in Nat \ {0} /\ m \in Nat \ {0} /\ w \in Int
  BY WordFact, WordPower
<1>2. w % m = 0
  OBVIOUS
<1>3. Unsigned(n) = z
  BY DEF Unsigned
<1> HIDE DEF w, m
<1>4. PICK k \in Int : w = k * m + (w % m)
  BY <1>1, ModSplit
<1>5. PICK q \in Int : n = q * w + z
  BY <1>1, ModSplit
<1>6. z \in Int
  BY <1>1, ModSplit
<1> HIDE DEF z
<1> DEFINE j == -(q * k)
<1>7. z = n + j * m /\ j \in Int
  <2>1. w = k * m
    BY <1>1, <1>2, <1>4
  <2> QED
    BY <1>1, <1>5, <1>6, <2>1, Z3
<1> HIDE DEF j
<1>8. z % m = n % m
  BY <1>1, <1>7, ModShift
<1> QED
  BY <1>3, <1>8 DEF m

(* The second shift, into the destination, and what the first left in $at.  *)
LEMMA RotateTail ==
    ASSUME Started, pseudo.op \in RotateOps,
           NEW c, NEW k \in 1 .. 4, Len(c) = k + 1, NEW u \in Reg, NEW v \in Reg,
           NEW r, Frame(r), r[AT] = v, Puts(c[k], r, pseudo.d, u), c[k + 1] = R3("or", pseudo.d, pseudo.d, AT),
           \A i \in 0 .. Bits - 1 : BitOf(BitOr(u, v), i) = WantedBit(i)
    PROVE  Good(c, k, r)
<1> DEFINE d == pseudo.d
           j == R3("or", d, d, AT)
           n == k + 1
           r2 == [r EXCEPT ![d] = u]
           o == Computed("or", u, v)
<1>1. /\ d \in Dests /\ d \in Registers /\ d # 0 /\ d # AT /\ AT \in Registers
      /\ pseudo.op \in BitOps /\ "or" \in RegisterOps
  BY RotateFacts, NamedRegisters DEF RotateOps, BitOps, RegisterOps
<1>2. Frame(r2) /\ r2[d] = u /\ r2[AT] = v
  BY <1>1, FrameWrites
<1>3. o = BitOr(u, v) /\ Raises("or", u, v) = FALSE
  BY DEF Computed, Raises
<1>4. Ends(o, Raises("or", u, v))
  BY <1>1, <1>3, EndsBits
<1>5. c[n] = j /\ n \in 1 .. 5 /\ n = Len(c) /\ Len(c) \in 1 .. 5 /\ k < Len(c)
  OBVIOUS
<1> HIDE DEF n, j, r2
<1>6. Does(j, r2, d, "or", u, v)
  BY <1>1, <1>2, RegisterForm DEF j
<1>7. Good(c, n, r2)
  BY <1>1, <1>2, <1>4, <1>5, <1>6, LastGood
<1>8. Good(c, k + 1, r2)
  BY <1>7 DEF n
<1>9. ~IsBranch(c[k]) /\ ~Overflows(c[k], r) /\ c[k].d = d /\ Value(c[k], r) = u
  BY DEF Puts
<1>10. r2 = [r EXCEPT ![c[k].d] = Value(c[k], r)]
  BY <1>9 DEF r2
<1> QED
  BY <1>5, <1>8, <1>9, <1>10, GoodLink

LEMMA RotateGood ==
    ASSUME Started, pseudo.op \in RotateOps, W % Bits = 0
    PROVE  Len(Code) \in 1 .. 5 /\ Good(Code, 1, first)
<1> DEFINE c == Code
           d == pseudo.d
           s == pseudo.s
           t == pseudo.t
           m == Bits
           left == pseudo.op = "rol"
           amount == Y % m
           opposite == (-Y) % m
           u == IF left THEN LeftShift(X, amount) ELSE RightShift(X, amount)
           v == IF left THEN RightShift(X, opposite) ELSE LeftShift(X, opposite)
           last == R3("or", d, d, AT)
<1>1. /\ X \in Reg /\ first[s] = X /\ s \in Registers /\ s # AT /\ Frame(first) /\ AT \in Registers /\ AT # 0
      /\ d \in Dests /\ d \in Registers /\ d # 0 /\ d # AT /\ first \in [Registers -> Reg] /\ first[0] = 0 /\ 0 \in Registers /\ 0 \in Reg
  BY RotateFacts, FirstFrame, NamedRegisters, SmallNumbers DEF Started, X
<1>2. m \in Nat \ {0} /\ (left <=> pseudo.op # "ror") /\ (left \/ pseudo.op = "ror")
  BY WordPower DEF RotateOps
<1>3. Y \in Int => /\ u \in Reg /\ v \in Reg
                   /\ \A i \in 0 .. m - 1 : BitOf(BitOr(u, v), i) = WantedBit(i)
  <2> SUFFICES ASSUME Y \in Int PROVE u \in Reg /\ v \in Reg /\ \A i \in 0 .. m - 1 : BitOf(BitOr(u, v), i) = WantedBit(i)
    OBVIOUS
  <2> DEFINE y == Y
  <2>1. /\ {LeftShift(X, opposite), RightShift(X, amount), LeftShift(X, amount), RightShift(X, opposite)} \subseteq Reg
        /\ \A i \in 0 .. m - 1 :
              /\ BitOf(BitOr(RightShift(X, amount), LeftShift(X, opposite)), i) = BitOf(X, (i + Y) % m)
              /\ BitOf(BitOr(LeftShift(X, amount), RightShift(X, opposite)), i) = BitOf(X, (i - Y) % m)
    BY <1>1, RotatedWord
  <2>2. CASE pseudo.op = "ror"
    <3>1. \A i : WantedBit(i) = BitOf(X, (i + Y) % m)
      BY <2>2 DEF WantedBit
    <3> HIDE DEF amount, opposite
    <3> QED
      BY <2>1, <2>2, <3>1
  <2>3. CASE pseudo.op = "rol"
    <3>1. \A i : WantedBit(i) = BitOf(X, (i - Y) % m)
      BY <2>3 DEF WantedBit
    <3> HIDE DEF amount, opposite
    <3> QED
      BY <2>1, <2>3, <3>1
  <2> QED
    BY <1>2, <2>2, <2>3
<1>4. CASE pseudo.value = NoValue /\ t \in Sources2 /\ c = Rotation(pseudo.op, d, s, t)
  <2> DEFINE i1 == R3("subu", AT, 0, t)
             i2 == R3(IF left THEN "srlv" ELSE "sllv", AT, AT, s)
             i3 == R3(IF left THEN "sllv" ELSE "srlv", d, t, s)
             z == Unsigned(0 - Y)
             r2 == [first EXCEPT ![AT] = z]
             r3 == [r2 EXCEPT ![AT] = v]
  <2>1. Y = first[t] /\ t \in Registers /\ t # AT
    BY <1>4, NamedRegisters DEF Y
  <2>2. Y \in Reg /\ Y \in Int
    BY <1>1, <2>1, SignedWord
  <2>3. c = <<i1, i2, i3, last>>
    BY <1>2, <1>4 DEF Rotation
  <2>4. z \in Reg /\ z % m = opposite /\ Computed("subu", 0, Y) = z /\ ~Raises("subu", 0, Y)
    <3>1. 0 - Y \in Int /\ 0 - Y = -Y
      BY <2>2
    <3> QED
      BY <3>1, UnsignedType, WrappedAmount DEF Computed, Raises
  <2>5. Puts(i1, first, AT, z)
    <3>1. Does(i1, first, AT, "subu", first[0], first[t])
      BY <1>1, <2>1, <2>2, RegisterForm DEF RegisterOps
    <3> QED
      BY <1>1, <2>1, <2>4, <3>1 DEF Does, Puts
  <2> HIDE DEF z
  <2>6. Frame(r2) /\ r2[AT] = z /\ r2[s] = X /\ r2[t] = Y
    BY <1>1, <2>1, <2>4, FrameWrites
  <2> HIDE DEF r2
  <2>7. u \in Reg /\ v \in Reg /\ \A i \in 0 .. m - 1 : BitOf(BitOr(u, v), i) = WantedBit(i)
    BY <1>3, <2>2
  <2>8. Puts(i2, r2, AT, v)
    <3>1. CASE left
      <4>1. Puts(R3("srlv", AT, AT, s), r2, AT, RightShift(r2[s], r2[AT] % m))
        BY ShiftForms
      <4> QED
        BY <2>4, <2>6, <3>1, <4>1
    <3>2. CASE ~left
      <4>1. Puts(R3("sllv", AT, AT, s), r2, AT, LeftShift(r2[s], r2[AT] % m))
        BY ShiftForms
      <4> QED
        BY <2>4, <2>6, <3>2, <4>1
    <3> QED
      BY <3>1, <3>2
  <2> HIDE DEF v
  <2>9. Frame(r3) /\ r3[AT] = v /\ r3[s] = X /\ r3[t] = Y
    BY <1>1, <2>1, <2>6, <2>7, FrameWrites
  <2> HIDE DEF r3
  <2>10. Puts(i3, r3, d, u)
    <3>1. CASE left
      <4>1. Puts(R3("sllv", d, t, s), r3, d, LeftShift(r3[s], r3[t] % m))
        BY ShiftForms
      <4> QED
        BY <2>9, <3>1, <4>1
    <3>2. CASE ~left
      <4>1. Puts(R3("srlv", d, t, s), r3, d, RightShift(r3[s], r3[t] % m))
        BY ShiftForms
      <4> QED
        BY <2>9, <3>2, <4>1
    <3> QED
      BY <3>1, <3>2
  <2> HIDE DEF i1, i2, i3, u, c, last
  <2> DEFINE k == 3
  <2>11. Len(c) = 4 /\ c[1] = i1 /\ c[2] = i2 /\ c[k] = i3 /\ c[k + 1] = last /\ k \in 1 .. 4 /\ Len(c) = k + 1
    BY <2>3
  <2> HIDE DEF k
  <2>12. Good(c, k, r3)
    BY <2>7, <2>9, <2>10, <2>11, RotateTail DEF last
  <2>13. Good(c, 2 + 1, r3)
    BY <2>12 DEF k
  <2>14. Good(c, 2, r2)
    <3> DEFINE j == 2
    <3>1. ~IsBranch(c[j]) /\ ~Overflows(c[j], r2) /\ c[j].d = AT /\ Value(c[j], r2) = v
      BY <2>8, <2>11 DEF Puts
    <3>2. Good(c, j + 1, r3) /\ j \in 1 .. 4 /\ j < Len(c) /\ Len(c) \in 1 .. 5
      BY <2>11, <2>13
    <3> HIDE DEF j
    <3>3. r3 = [r2 EXCEPT ![c[j].d] = Value(c[j], r2)]
      BY <3>1 DEF r3
    <3>4. Good(c, j, r2)
      BY <3>1, <3>2, <3>3, GoodLink
    <3> QED
      BY <3>4 DEF j
  <2>15. Puts(c[1], first, AT, z) /\ Len(c) \in 2 .. 5
    BY <2>5, <2>11
  <2>16. Good(c, 1, first)
    BY <2>14, <2>15, FirstGood DEF r2
  <2> QED
    BY <2>11, <2>16 DEF c
<1>5. CASE pseudo.value \in 0 .. Bits - 1 /\ pseudo.value # NoValue /\ c = RotationImm(pseudo.op, d, s, pseudo.value)
  <2> DEFINE i1 == R2Imm(IF left THEN "srl" ELSE "sll", AT, s, Opposite(Y))
             i2 == R2Imm(IF left THEN "sll" ELSE "srl", d, s, Y)
             r2 == [first EXCEPT ![AT] = v]
  <2>1. Y = pseudo.value /\ Y \in 0 .. m - 1 /\ Y \in Int
    BY <1>2, <1>5 DEF Y
  <2>2. c = <<i1, i2, last>>
    BY <1>2, <1>5, <2>1 DEF RotationImm
  <2>3. Opposite(Y) % m = opposite
    <3> DEFINE n == -Y
               one == 1
    <3>1. Opposite(Y) = n + one * m /\ n \in Int /\ one \in Int
      BY <1>2, <2>1 DEF Opposite
    <3> HIDE DEF m, n, one
    <3>2. (n + one * m) % m = n % m
      BY <1>2, <3>1, ModShift
    <3> QED
      BY <3>1, <3>2 DEF n
  <2>4. u \in Reg /\ v \in Reg /\ \A i \in 0 .. m - 1 : BitOf(BitOr(u, v), i) = WantedBit(i)
    BY <1>3, <2>1
  <2>5. Puts(i1, first, AT, v)
    <3>1. CASE left
      <4>1. Puts(R2Imm("srl", AT, s, Opposite(Y)), first, AT, RightShift(first[s], Opposite(Y) % m))
        BY ShiftForms
      <4> QED
        BY <1>1, <2>3, <3>1, <4>1
    <3>2. CASE ~left
      <4>1. Puts(R2Imm("sll", AT, s, Opposite(Y)), first, AT, LeftShift(first[s], Opposite(Y) % m))
        BY ShiftForms
      <4> QED
        BY <1>1, <2>3, <3>2, <4>1
    <3> QED
      BY <3>1, <3>2
  <2> HIDE DEF v
  <2>6. Frame(r2) /\ r2[AT] = v /\ r2[s] = X
    BY <1>1, <2>4, FrameWrites
  <2> HIDE DEF r2
  <2>7. Puts(i2, r2, d, u)
    <3>1. CASE left
      <4>1. Puts(R2Imm("sll", d, s, Y), r2, d, LeftShift(r2[s], Y % m))
        BY ShiftForms
      <4> QED
        BY <2>6, <3>1, <4>1
    <3>2. CASE ~left
      <4>1. Puts(R2Imm("srl", d, s, Y), r2, d, RightShift(r2[s], Y % m))
        BY ShiftForms
      <4> QED
        BY <2>6, <3>2, <4>1
    <3> QED
      BY <3>1, <3>2
  <2> HIDE DEF i1, i2, u, c, last
  <2> DEFINE k == 2
  <2>8. Len(c) = 3 /\ c[1] = i1 /\ c[k] = i2 /\ c[k + 1] = last /\ k \in 1 .. 4 /\ Len(c) = k + 1
    BY <2>2
  <2> HIDE DEF k
  <2>9. Good(c, k, r2)
    BY <2>4, <2>6, <2>7, <2>8, RotateTail DEF last
  <2>10. Puts(c[1], first, AT, v) /\ Len(c) \in 2 .. 5
    BY <2>5, <2>8
  <2>11. Good(c, 1, first)
    <3>1. Good(c, 2, r2)
      BY <2>9 DEF k
    <3> QED
      BY <2>10, <3>1, FirstGood DEF r2
  <2> QED
    BY <2>8, <2>11 DEF c
<1> QED
  BY <1>4, <1>5, RotateFacts

-----------------------------------------------------------------------------
LEMMA StartGood ==
    ASSUME Started, W % Bits = 0
    PROVE  Len(Code) \in 1 .. 5 /\ Good(Code, 1, first)
<1>1. pseudo.op \in UnaryOps \cup RotateOps \cup BinaryOps \cup OrderOps \cup EqualOps
  BY DEF Started, Forms
<1> QED
  BY <1>1, UnaryGood, RotateGood, BinaryGood, OrderedGood, OrderedImmGood, EqualGood

LEMMA InitStarted == PseudoInit => Started /\ now = first /\ at = 1 /\ outcome = "running"
<1> SUFFICES ASSUME PseudoInit PROVE Started
  BY DEF PseudoInit
<1>1. PICK x \in Reg, y \in Reg : first = [n \in Registers |-> IF n = 0 THEN 0 ELSE IF n = pseudo.s THEN x
                                                               ELSE IF n = pseudo.t THEN y ELSE Stale]
  BY DEF PseudoInit
<1>2. Stale \in Reg /\ 0 \in Reg
  <2> HIDE DEF W
  <2> QED
    BY WordFact DEF Stale, Reg
<1> QED
  BY <1>1, <1>2, NamedRegisters DEF PseudoInit, Started

(* PseudoMeansItsName for every width of a word that the number of its bits  *)
(* divides, as 32 does, and whichever registers and immediates are named: the *)
(* instructions the assembler writes for a pseudo instruction do what its   *)
(* name says.                                                              *)
THEOREM PseudoTheorem ==
    ASSUME W % Bits = 0
    PROVE  PseudoSpec => []PseudoMeansItsName
<1>1. PseudoInit => Underway
  <2> SUFFICES ASSUME PseudoInit PROVE Underway
    OBVIOUS
  <2> QED
    BY InitStarted, StartGood DEF Underway
<1>2. Underway /\ [PseudoNext]_pvars => Underway'
  <2> SUFFICES ASSUME Underway, [PseudoNext]_pvars PROVE Underway'
    OBVIOUS
  <2>1. CASE Compute
    BY <2>1, ComputeStays
  <2>2. CASE Jump
    BY <2>2, JumpStays
  <2>3. CASE UNCHANGED pvars
    <3>1. Stays /\ now' = now /\ at' = at /\ outcome' = outcome
      BY <2>3 DEF pvars, Stays
    <3>2. Code' = Code /\ (\A c, k, r : Good(c, k, r) => Good(c, k, r)') /\ \A r, o : Meets(r, o) => Meets(r, o)'
      BY <3>1, GoodStays, MeetsStays
    <3> QED
      BY <3>1, <3>2 DEF Underway
  <2> QED
    BY <2>1, <2>2, <2>3 DEF PseudoNext
<1>3. Underway => PseudoMeansItsName
  <2> SUFFICES ASSUME Underway, outcome # "running" PROVE PseudoMeansItsName
    BY DEF PseudoMeansItsName
  <2>1. Meets(now, outcome)
    BY DEF Underway
  <2>2. pseudo.op \in OrderOps \cup EqualOps => Holds \in BOOLEAN
    <3>1. CASE pseudo.op = "bgt"
      BY <3>1 DEF Holds
    <3>2. CASE pseudo.op = "bge"
      BY <3>2 DEF Holds
    <3>3. CASE pseudo.op = "blt"
      BY <3>3 DEF Holds
    <3>4. CASE pseudo.op = "ble"
      BY <3>4 DEF Holds
    <3>5. CASE pseudo.op = "bgtu"
      BY <3>5 DEF Holds
    <3>6. CASE pseudo.op = "bgeu"
      BY <3>6 DEF Holds
    <3>7. CASE pseudo.op = "bltu"
      BY <3>7 DEF Holds
    <3>8. CASE pseudo.op = "bleu"
      BY <3>8 DEF Holds
    <3>9. CASE pseudo.op = "beq"
      BY <3>9 DEF Holds
    <3>10. CASE pseudo.op = "bne"
      BY <3>10 DEF Holds
    <3> QED
      BY <3>1, <3>2, <3>3, <3>4, <3>5, <3>6, <3>7, <3>8, <3>9, <3>10 DEF OrderOps, EqualOps
  <2>3. Trapping \in BOOLEAN /\ Wraps \in BOOLEAN
    BY DEF Trapping, Wraps
  <2>4. ~Wraps => /\ Trapping # Wraps <=> Trapping
                  /\ pseudo.op \in OrderOps \cup EqualOps => (Holds # Wraps <=> Holds)
    BY <2>2, <2>3, Zenon
  <2> QED
    BY <2>1, <2>4 DEF Meets, PseudoMeansItsName
<1> QED
  BY <1>1, <1>2, <1>3, PTL DEF PseudoSpec
=============================================================================
