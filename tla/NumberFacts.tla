----------------------------- MODULE NumberFacts -----------------------------
(***************************************************************************)
(* What the proofs need to know of numbers and the libraries do not state:  *)
(* induction over a set, which the provers can use where a predicate would  *)
(* have to be instantiated, division with remainder, powers of two, and     *)
(* the bits of a number.                                                   *)
(***************************************************************************)
EXTENDS Powers, WellFoundedInduction, TLAPS

(* Every set of natural numbers that is not empty has a least element.      *)
LEMMA LeastOf ==
    ASSUME NEW T, T \subseteq Nat, T # {}
    PROVE  \E x \in T : \A y \in T : x <= y
<1> DEFINE below == OpToRel(<, Nat)
<1>1. IsWellFoundedOn(below, Nat)
  BY NatLessThanWellFounded
<1>2. \A x, y \in Nat : x < y => <<x, y>> \in below
  BY DEF OpToRel
<1> HIDE DEF below
<1>3. PICK x \in T : \A y \in T : ~ (<<y, x>> \in below)
  BY <1>1, WFMin
<1>4. \A y \in T : ~ (y < x)
  BY <1>2, <1>3
<1> QED
  BY <1>3, <1>4

(* A set with 0 and the successor of each of its numbers has them all.      *)
LEMMA SetInduction ==
    ASSUME NEW S, 0 \in S, \A n \in Nat : n \in S => n + 1 \in S
    PROVE  Nat \subseteq S
<1> SUFFICES ASSUME Nat \ S # {} PROVE FALSE
  OBVIOUS
<1>1. PICK x \in Nat \ S : \A y \in Nat \ S : x <= y
  BY LeastOf
<1>2. x # 0 /\ x - 1 \in Nat
  BY <1>1
<1>3. x - 1 \in S
  BY <1>1, <1>2
<1> QED
  BY <1>1, <1>2, <1>3

(* A set of numbers below a bound that is not empty has a greatest one.     *)
LEMMA GreatestOf ==
    ASSUME NEW m \in Nat, NEW T, T \subseteq 0 .. m - 1, T # {}
    PROVE  \E x \in T : \A y \in T : y <= x
<1> DEFINE U == {k \in Nat : m - 1 - k \in T}
<1>1. U \subseteq Nat /\ U # {}
  <2>1. PICK x \in T : TRUE
    OBVIOUS
  <2>2. x \in 0 .. m - 1
    OBVIOUS
  <2>3. m - 1 - x \in Nat /\ m - 1 - (m - 1 - x) = x
    BY <2>2
  <2> QED
    BY <2>1, <2>3
<1>2. PICK k \in U : \A j \in U : k <= j
  BY <1>1, LeastOf
<1>3. \A y \in T : y <= m - 1 - k
  <2> SUFFICES ASSUME NEW y \in T PROVE y <= m - 1 - k
    OBVIOUS
  <2>1. y \in 0 .. m - 1
    OBVIOUS
  <2>2. m - 1 - y \in Nat /\ m - 1 - (m - 1 - y) = y
    BY <2>1
  <2>3. k <= m - 1 - y
    BY <1>2, <2>2
  <2> QED
    BY <1>2, <2>1, <2>3
<1> QED
  BY <1>2, <1>3

-----------------------------------------------------------------------------
(* Quotient and remainder of a division by a positive number.               *)
LEMMA SplitFact ==
    ASSUME NEW n \in Nat, NEW k \in Nat \ {0}
    PROVE  /\ n \div k \in Nat /\ n % k \in 0 .. k - 1
           /\ n = (n \div k) * k + (n % k)
  BY Z3

LEMMA IntSplit ==
    ASSUME NEW n \in Int, NEW k \in Nat \ {0}
    PROVE  n \div k \in Int /\ n % k \in 0 .. k - 1 /\ n = (n \div k) * k + (n % k)
  BY Z3

LEMMA QuotientBound ==
    ASSUME NEW k \in Nat \ {0}, NEW n \in Nat, n < k * k
    PROVE  n \div k \in 0 .. k - 1
<1>1. n \div k \in Nat /\ (n \div k) * k <= n
  BY SplitFact
<1>2. SUFFICES ASSUME n \div k >= k PROVE FALSE
  BY <1>1
<1>3. (n \div k) * k >= k * k
  BY <1>1, <1>2, Z3
<1> QED
  BY <1>1, <1>3

(* Remainders are unique, and a sum may be cut before it is added to.      *)
LEMMA ModUnique ==
    ASSUME NEW n \in Int, NEW m \in Nat \ {0}, NEW q \in Int, NEW r \in 0 .. m - 1,
           n = q * m + r
    PROVE  n % m = r
<1> DEFINE p == n \div m
           s == n % m
<1>1. p \in Int /\ s \in 0 .. m - 1 /\ n = p * m + s
  BY Z3
<1> HIDE DEF p, s
<1>2. (q - p) * m = s - r
  BY <1>1, Z3
<1>3. q - p = 0
  <2>1. CASE q - p >= 1
    <3>1. (q - p) * m >= m
      BY <1>1, <2>1, Z3
    <3> QED
      BY <1>1, <1>2, <3>1
  <2>2. CASE q - p <= -1
    <3>1. (q - p) * m <= -m
      BY <1>1, <2>2, Z3
    <3> QED
      BY <1>1, <1>2, <3>1
  <2> QED
    BY <1>1, <2>1, <2>2
<1> QED
  BY <1>1, <1>2, <1>3 DEF s

LEMMA ModSplit ==
    ASSUME NEW n \in Int, NEW m \in Nat \ {0}
    PROVE  n % m \in 0 .. m - 1 /\ \E q \in Int : n = q * m + (n % m)
<1>1. n \div m \in Int /\ n % m \in 0 .. m - 1 /\ n = (n \div m) * m + (n % m)
  BY Z3
<1> QED
  BY <1>1

(* Numbers that differ by a multiple have the same remainder.              *)
LEMMA ModShift ==
    ASSUME NEW n \in Int, NEW m \in Nat \ {0}, NEW k \in Int
    PROVE  (n + k * m) % m = n % m
<1>1. PICK q \in Int : n = q * m + (n % m)
  BY ModSplit
<1> DEFINE r == n % m
           j == n + k * m
<1>2. r \in 0 .. m - 1 /\ n = q * m + r /\ j = n + k * m /\ j \in Int
  BY <1>1, ModSplit, Z3
<1> HIDE DEF r, j
<1>3. j = (q + k) * m + r /\ q + k \in Int
  BY <1>2, Z3
<1>4. j % m = r
  BY <1>2, <1>3, ModUnique
<1> QED
  BY <1>4 DEF r, j

LEMMA ModAdd ==
    ASSUME NEW m \in Nat \ {0}, NEW a \in Int, NEW b \in Int
    PROVE  /\ (a + (b % m)) % m = (a + b) % m
           /\ (a - (b % m)) % m = (a - b) % m
<1>1. PICK q \in Int : b = q * m + (b % m)
  BY ModSplit
<1> DEFINE r == b % m
           x == a + r
           y == a - r
<1>2. r \in Int /\ b = q * m + r
  BY <1>1, ModSplit
<1> HIDE DEF r
<1>3. x \in Int /\ y \in Int /\ a + b = x + q * m /\ a - b = y + (-q) * m /\ -q \in Int
  BY <1>2, Z3
<1> HIDE DEF x, y
<1>4. (x + q * m) % m = x % m /\ (y + (-q) * m) % m = y % m
  BY <1>3, ModShift
<1> QED
  BY <1>3, <1>4 DEF r, x, y

LEMMA DivUnique ==
    ASSUME NEW n \in Int, NEW m \in Nat \ {0}, NEW q \in Int, NEW r \in 0 .. m - 1,
           n = q * m + r
    PROVE  n \div m = q
<1> DEFINE p == n \div m
<1>1. n % m = r
  BY ModUnique
<1>2. p \in Int /\ n = p * m + (n % m)
  BY Z3
<1> HIDE DEF p
<1>3. (p - q) * m = 0
  BY <1>1, <1>2, Z3
<1>4. p = q
  BY <1>2, <1>3, Z3
<1> QED
  BY <1>4 DEF p

LEMMA DivDiv ==
    ASSUME NEW n \in Int, NEW a \in Nat \ {0}, NEW b \in Nat \ {0}
    PROVE  (n \div a) \div b = n \div (a * b)
<1> DEFINE q == n \div a
           r == n % a
           q2 == q \div b
           r2 == q % b
<1>1. q \in Int /\ r \in 0 .. a - 1 /\ n = q * a + r
  BY IntSplit
<1> HIDE DEF q, r
<1>2. q2 \in Int /\ r2 \in 0 .. b - 1 /\ q = q2 * b + r2
  BY <1>1, IntSplit
<1> HIDE DEF q2, r2
<1> DEFINE ab == a * b
           s == r2 * a + r
<1>3. ab \in Nat \ {0} /\ s \in 0 .. ab - 1
  <2>1. r2 * a \in Nat /\ r2 * a <= (b - 1) * a /\ (b - 1) * a = ab - a /\ ab \in Nat /\ ab # 0
    BY <1>2, Z3
  <2> DEFINE t == r2 * a
             u == (b - 1) * a
  <2> HIDE DEF t, u, ab
  <2>2. t \in Nat /\ t <= u /\ u = ab - a /\ ab \in Nat /\ ab # 0
    BY <2>1 DEF t, u
  <2>3. t + r \in 0 .. ab - 1
    BY <1>1, <2>2
  <2> QED
    BY <2>2, <2>3 DEF t
<1>4. n = q2 * ab + s
  BY <1>1, <1>2, Z3
<1> HIDE DEF ab, s
<1>5. n \div ab = q2
  BY <1>2, <1>3, <1>4, DivUnique
<1> QED
  BY <1>5 DEF ab, q2, q

-----------------------------------------------------------------------------
LEMMA Pow2Steps ==
    /\ Pow2[0] = 1
    /\ \A n \in Nat : Pow2[n + 1] = 2 * Pow2[n]
<1> DEFINE Def(v, n) == 2 * v
<1>1. NatInductiveDefHypothesis(Pow2, 1, Def)
  BY DEF Pow2, NatInductiveDefHypothesis
<1> HIDE DEF Def
<1>2. NatInductiveDefConclusion(Pow2, 1, Def)
  BY <1>1, NatInductiveDef
<1>3. Pow2 = [n \in Nat |-> IF n = 0 THEN 1 ELSE 2 * Pow2[n - 1]]
  BY <1>2 DEF NatInductiveDefConclusion, Def
<1> HIDE DEF Pow2
<1>4. ASSUME NEW n \in Nat PROVE Pow2[n + 1] = 2 * Pow2[n]
  <2>1. n + 1 \in Nat /\ n + 1 # 0 /\ (n + 1) - 1 = n
    OBVIOUS
  <2> QED
    BY <1>3, <2>1
<1> QED
  BY <1>3, <1>4

LEMMA Pow2Type == \A n \in Nat : Pow2[n] \in Nat \ {0}
<1> DEFINE S == {n \in Nat : Pow2[n] \in Nat \ {0}}
<1>1. 0 \in S
  BY Pow2Steps
<1>2. ASSUME NEW n \in Nat, n \in S PROVE n + 1 \in S
  BY <1>2, Pow2Steps
<1> HIDE DEF S
<1>3. Nat \subseteq S
  BY <1>1, <1>2, SetInduction
<1> QED
  BY <1>3 DEF S

(* Powers of two and the bits of a number.                                  *)
LEMMA Pow2Sum == \A a, b \in Nat : Pow2[a + b] = Pow2[a] * Pow2[b]
<1> DEFINE S == {b \in Nat : \A a \in Nat : Pow2[a + b] = Pow2[a] * Pow2[b]}
<1>1. 0 \in S
  <2> SUFFICES ASSUME NEW a \in Nat PROVE Pow2[a + 0] = Pow2[a] * Pow2[0]
    OBVIOUS
  <2>1. a + 0 = a
    OBVIOUS
  <2> QED
    BY <2>1, Pow2Steps, Pow2Type
<1>2. ASSUME NEW b \in Nat, b \in S PROVE b + 1 \in S
  <2> SUFFICES ASSUME NEW a \in Nat PROVE Pow2[a + (b + 1)] = Pow2[a] * Pow2[b + 1]
    OBVIOUS
  <2> DEFINE p == Pow2[a]
             q == Pow2[b]
  <2>1. p \in Nat /\ q \in Nat
    BY Pow2Type
  <2>2. a + (b + 1) = (a + b) + 1 /\ a + b \in Nat
    OBVIOUS
  <2>3. Pow2[a + (b + 1)] = 2 * (p * q) /\ Pow2[b + 1] = 2 * q
    BY <1>2, <2>2, Pow2Steps
  <2> HIDE DEF p, q
  <2>4. 2 * (p * q) = p * (2 * q)
    BY <2>1, Z3
  <2> QED
    BY <2>3, <2>4 DEF p
<1> HIDE DEF S
<1>3. Nat \subseteq S
  BY <1>1, <1>2, SetInduction
<1> QED
  BY <1>3 DEF S

LEMMA Pow2Between ==
    ASSUME NEW i \in Nat, NEW m \in Nat, i <= m
    PROVE  m - i \in Nat /\ Pow2[m] = Pow2[i] * Pow2[m - i] /\ Pow2[i] <= Pow2[m]
<1>1. m - i \in Nat /\ i + (m - i) = m
  OBVIOUS
<1>2. Pow2[m] = Pow2[i] * Pow2[m - i]
  BY <1>1, Pow2Sum
<1> DEFINE p == Pow2[i]
           q == Pow2[m - i]
<1>3. p \in Nat \ {0} /\ q \in Nat \ {0}
  BY <1>1, Pow2Type
<1> HIDE DEF p, q
<1>4. p <= p * q
  BY <1>3, Z3
<1> QED
  BY <1>1, <1>2, <1>4 DEF p, q

-----------------------------------------------------------------------------
(* The bits of v from i up, as a number.                                    *)
Above(v, i) == v \div Pow2[i]

LEMMA AboveType ==
    ASSUME NEW v \in Int, NEW i \in Nat
    PROVE  Above(v, i) \in Int /\ (v \in Nat => Above(v, i) \in Nat) /\ BitOf(v, i) \in {0, 1}
<1> DEFINE p == Pow2[i]
           a == v \div p
<1>1. p \in Nat \ {0}
  BY Pow2Type
<1> HIDE DEF p
<1>2. a \in Int /\ (v \in Nat => a \in Nat)
  BY <1>1, IntSplit, SplitFact
<1> HIDE DEF a
<1>3. a % 2 \in {0, 1}
  BY <1>2
<1> QED
  BY <1>2, <1>3 DEF Above, BitOf, a, p

LEMMA AboveStep ==
    ASSUME NEW v \in Int, NEW i \in Nat
    PROVE  Above(v, i) = 2 * Above(v, i + 1) + BitOf(v, i)
<1> DEFINE p == Pow2[i]
           a == v \div p
<1>1. p \in Nat \ {0} /\ Pow2[i + 1] = p * 2
  BY Pow2Type, Pow2Steps
<1> HIDE DEF p
<1>2. a \in Int
  BY <1>1, IntSplit
<1>3. a \div 2 = v \div (p * 2)
  <2> DEFINE two == 2
  <2>1. two \in Nat \ {0}
    OBVIOUS
  <2> HIDE DEF two
  <2>2. (v \div p) \div two = v \div (p * two)
    BY <1>1, <2>1, DivDiv
  <2> QED
    BY <2>2 DEF two
<1> HIDE DEF a
<1>4. a = 2 * (a \div 2) + (a % 2)
  BY <1>2
<1> QED
  BY <1>1, <1>3, <1>4 DEF Above, BitOf, a, p

LEMMA AboveEnds ==
    ASSUME NEW m \in Nat, NEW v \in 0 .. Pow2[m] - 1
    PROVE  Above(v, m) = 0 /\ Above(v, 0) = v
<1> DEFINE p == Pow2[m]
           zero == 0
<1>1. p \in Nat \ {0} /\ v \in 0 .. p - 1 /\ v \in Int
  BY Pow2Type
<1>2. zero \in Int /\ v = zero * p + v
  BY <1>1, Z3
<1> HIDE DEF p, zero
<1>3. v \div p = zero
  BY <1>1, <1>2, DivUnique
<1>4. v \div 1 = v
  BY <1>1, Z3
<1> QED
  BY <1>3, <1>4, Pow2Steps DEF Above, p, zero

(* Numbers whose bits agree from k up agree above k.                        *)
LEMMA EqualAbove ==
    ASSUME NEW m \in Nat, NEW x \in 0 .. Pow2[m] - 1, NEW y \in 0 .. Pow2[m] - 1,
           NEW k \in 0 .. m, \A j \in k .. m - 1 : BitOf(x, j) = BitOf(y, j)
    PROVE  Above(x, k) = Above(y, k)
<1> DEFINE S == {d \in Nat : d <= m - k => Above(x, m - d) = Above(y, m - d)}
<1>0. x \in Int /\ y \in Int
  BY Pow2Type
<1>1. 0 \in S
  <2>1. m - 0 = m
    OBVIOUS
  <2> QED
    BY <2>1, AboveEnds
<1>2. ASSUME NEW d \in Nat, d \in S PROVE d + 1 \in S
  <2> SUFFICES ASSUME d + 1 <= m - k PROVE Above(x, m - (d + 1)) = Above(y, m - (d + 1))
    OBVIOUS
  <2> DEFINE j == m - (d + 1)
  <2>1. j \in Nat /\ j + 1 = m - d /\ j \in k .. m - 1
    OBVIOUS
  <2>2. Above(x, j + 1) = Above(y, j + 1)
    BY <1>2, <2>1
  <2> HIDE DEF j
  <2>3. BitOf(x, j) = BitOf(y, j)
    BY <2>1
  <2>4. Above(x, j) = 2 * Above(x, j + 1) + BitOf(x, j) /\ Above(y, j) = 2 * Above(y, j + 1) + BitOf(y, j)
    BY <1>0, <2>1, AboveStep
  <2> QED
    BY <2>2, <2>3, <2>4 DEF j
<1> HIDE DEF S
<1>3. Nat \subseteq S
  BY <1>1, <1>2, SetInduction
<1>4. m - k \in Nat /\ m - (m - k) = k
  OBVIOUS
<1>5. m - k \in S
  BY <1>3, <1>4
<1>6. Above(x, m - (m - k)) = Above(y, m - (m - k))
  BY <1>4, <1>5 DEF S
<1> QED
  BY <1>4, <1>6

LEMMA ZeroBits ==
    ASSUME NEW i \in Nat
    PROVE  BitOf(0, i) = 0 /\ Above(0, i) = 0
<1> DEFINE p == Pow2[i]
<1>1. p \in Nat \ {0}
  BY Pow2Type
<1> HIDE DEF p
<1>2. 0 \div p = 0
  BY <1>1, Z3
<1> QED
  BY <1>2 DEF BitOf, Above, p

(* The highest bit that is set bounds the number on both sides.             *)
LEMMA HighestBit ==
    ASSUME NEW m \in Nat, NEW v \in 0 .. Pow2[m] - 1, NEW i \in 0 .. m - 1,
           BitOf(v, i) = 1, \A j \in i + 1 .. m - 1 : BitOf(v, j) = 0
    PROVE  Pow2[i] <= v /\ v < Pow2[i + 1]
<1>1. i \in Nat /\ i + 1 \in 0 .. m /\ v \in Int /\ 0 \in 0 .. Pow2[m] - 1
  BY Pow2Type
<1>2. \A j \in i + 1 .. m - 1 : BitOf(v, j) = BitOf(0, j)
  BY <1>1, ZeroBits
<1>3. Above(v, i + 1) = 0
  <2>1. Above(v, i + 1) = Above(0, i + 1)
    BY <1>1, <1>2, EqualAbove
  <2> QED
    BY <1>1, <2>1, ZeroBits
<1>4. Above(v, i) = 1
  BY <1>1, <1>3, AboveStep
<1> DEFINE p == Pow2[i]
           q == Pow2[i + 1]
<1>5. p \in Nat \ {0} /\ q \in Nat \ {0} /\ v \div p = 1 /\ v \div q = 0
  BY <1>1, <1>3, <1>4, Pow2Type DEF Above
<1> DEFINE one == v \div p
           none == v \div q
           r == v % p
           s == v % q
<1> HIDE DEF p, q
<1>6. v = one * p + r /\ r \in 0 .. p - 1 /\ v = none * q + s /\ s \in 0 .. q - 1
  BY <1>1, <1>5, IntSplit
<1> HIDE DEF r, s
<1>7. v = p + r /\ v = s
  BY <1>5, <1>6, Z3
<1>8. p <= v /\ v < q
  BY <1>5, <1>6, <1>7
<1> QED
  BY <1>8 DEF p, q

LEMMA NoBits ==
    ASSUME NEW m \in Nat, NEW v \in 0 .. Pow2[m] - 1, \A j \in 0 .. m - 1 : BitOf(v, j) = 0
    PROVE  v = 0
<1>1. 0 \in 0 .. Pow2[m] - 1 /\ 0 \in 0 .. m
  BY Pow2Type
<1>2. \A j \in 0 .. m - 1 : BitOf(v, j) = BitOf(0, j)
  BY ZeroBits
<1>3. Above(v, 0) = Above(0, 0)
  BY <1>1, <1>2, EqualAbove
<1> QED
  BY <1>1, <1>3, AboveEnds

(* The complement of a number has the complements of its bits.              *)
LEMMA ComplementBits ==
    ASSUME NEW m \in Nat, NEW v \in 0 .. Pow2[m] - 1, NEW i \in 0 .. m - 1
    PROVE  /\ Pow2[m] - 1 - v \in 0 .. Pow2[m] - 1
           /\ BitOf(Pow2[m] - 1 - v, i) = 1 - BitOf(v, i)
<1> DEFINE p == Pow2[i]
           t == Pow2[m - i]
           half == Pow2[m - i - 1]
           w == Pow2[m]
           q == v \div p
           r == v % p
           c == w - 1 - v
           qc == t - 1 - q
<1>1. /\ i \in Nat /\ m - i \in Nat /\ m - i - 1 \in Nat /\ (m - i - 1) + 1 = m - i
      /\ p \in Nat \ {0} /\ w = p * t /\ t = 2 * half /\ half \in Nat /\ w \in Nat \ {0}
  <2>1. i \in Nat /\ m - i \in Nat /\ m - i - 1 \in Nat /\ (m - i - 1) + 1 = m - i
    OBVIOUS
  <2>2. Pow2[(m - i - 1) + 1] = 2 * Pow2[m - i - 1]
    BY <2>1, Pow2Steps
  <2> QED
    BY <2>1, <2>2, Pow2Type, Pow2Between
<1> HIDE DEF p, t, half, w
<1>2. v \in 0 .. w - 1 /\ v \in Int
  BY <1>1 DEF w
<1>3. q \in Int /\ r \in 0 .. p - 1 /\ v = q * p + r
  BY <1>1, <1>2, IntSplit
<1> HIDE DEF q, r
<1>4. c = qc * p + (p - 1 - r)
  <2>1. (t - 1 - q) * p = p * t - p - q * p
    BY <1>1, <1>3, Z3
  <2> DEFINE pt == p * t
             qp == q * p
             cp == (t - 1 - q) * p
  <2>2. pt \in Int /\ qp \in Int /\ cp \in Int /\ cp = pt - p - qp /\ w = pt /\ v = qp + r
    BY <1>1, <1>3, <2>1, Z3
  <2> HIDE DEF pt, qp, cp
  <2>3. w - 1 - v = cp + (p - 1 - r)
    BY <1>1, <1>3, <2>2
  <2> QED
    BY <2>3 DEF cp
<1>5. qc \in Int /\ p - 1 - r \in 0 .. p - 1 /\ c \in Int /\ c \in 0 .. w - 1
  BY <1>1, <1>2, <1>3
<1>6. c \div p = qc
  <2> HIDE DEF c, qc
  <2> QED
    BY <1>1, <1>4, <1>5, DivUnique
<1>7. qc % 2 = 1 - (q % 2)
  BY <1>1, <1>3
<1> QED
  BY <1>5, <1>6, <1>7 DEF BitOf, w, c, q, p

(* A multiple of a higher power changes no bit.                             *)
LEMMA ShiftedBit ==
    ASSUME NEW m \in Nat, NEW i \in 0 .. m - 1, NEW n \in Int, NEW k \in Int
    PROVE  BitOf(n + k * Pow2[m], i) = BitOf(n, i)
<1> DEFINE p == Pow2[i]
           half == Pow2[m - i - 1]
           w == Pow2[m]
           a == n \div p
           r == n % p
           s == n + k * w
           h == k * half
<1>1. /\ i \in Nat /\ m - i \in Nat /\ m - i - 1 \in Nat /\ (m - i - 1) + 1 = m - i
      /\ p \in Nat \ {0} /\ half \in Nat /\ w = p * (2 * half)
  <2>1. i \in Nat /\ m - i \in Nat /\ m - i - 1 \in Nat /\ (m - i - 1) + 1 = m - i
    OBVIOUS
  <2>2. Pow2[(m - i - 1) + 1] = 2 * Pow2[m - i - 1]
    BY <2>1, Pow2Steps
  <2> QED
    BY <2>1, <2>2, Pow2Type, Pow2Between
<1> HIDE DEF p, half, w
<1>2. a \in Int /\ r \in 0 .. p - 1 /\ n = a * p + r
  BY <1>1, IntSplit
<1> HIDE DEF a, r
<1>3. h \in Int /\ s \in Int /\ s = (a + h * 2) * p + r
  BY <1>1, <1>2, Z3
<1> HIDE DEF h, s
<1>4. s \div p = a + h * 2
  <2>1. a + h * 2 \in Int
    BY <1>2, <1>3
  <2> QED
    BY <1>1, <1>2, <1>3, <2>1, DivUnique
<1>5. (a + h * 2) % 2 = a % 2
  BY <1>2, <1>3
<1> QED
  BY <1>4, <1>5 DEF BitOf, s, a, p, w

LEMMA ModBit ==
    ASSUME NEW m \in Nat, NEW i \in 0 .. m - 1, NEW n \in Int
    PROVE  BitOf(n % Pow2[m], i) = BitOf(n, i)
<1> DEFINE w == Pow2[m]
           r == n % w
<1>1. w \in Nat \ {0}
  BY Pow2Type
<1> HIDE DEF w
<1>2. PICK q \in Int : n = q * w + r
  BY <1>1, ModSplit
<1>3. r \in Int
  BY <1>1, ModSplit
<1> HIDE DEF r
<1>4. n = r + q * w
  BY <1>1, <1>2, <1>3, Z3
<1>5. BitOf(r + q * w, i) = BitOf(r, i)
  BY <1>2, <1>3, ShiftedBit DEF w
<1> QED
  BY <1>4, <1>5 DEF r, w

(* The bits of a quotient by a power of two, and of a product with one.     *)
LEMMA QuotientBit ==
    ASSUME NEW n \in Int, NEW s \in Nat, NEW i \in Nat
    PROVE  n \div Pow2[s] \in Int /\ BitOf(n \div Pow2[s], i) = BitOf(n, i + s)
<1>1. Pow2[s] \in Nat \ {0} /\ Pow2[i] \in Nat \ {0} /\ Pow2[s + i] = Pow2[s] * Pow2[i] /\ s + i = i + s
  BY Pow2Type, Pow2Sum
<1>2. (n \div Pow2[s]) \div Pow2[i] = n \div (Pow2[s] * Pow2[i]) /\ n \div Pow2[s] \in Int
  BY <1>1, DivDiv, IntSplit
<1> QED
  BY <1>1, <1>2 DEF BitOf

LEMMA ProductBit ==
    ASSUME NEW n \in Int, NEW s \in Nat, NEW i \in Nat
    PROVE  /\ n * Pow2[s] \in Int
           /\ BitOf(n * Pow2[s], i) = IF i >= s THEN BitOf(n, i - s) ELSE 0
<1> DEFINE p == Pow2[s]
           np == n * p
           zero == 0
<1>1. p \in Nat \ {0} /\ np \in Int
  <2>1. p \in Nat \ {0}
    BY Pow2Type
  <2> HIDE DEF p
  <2> QED
    BY <2>1, Z3
<1>2. CASE i >= s
  <2>1. i - s \in Nat /\ (i - s) + s = i
    BY <1>2
  <2>2. BitOf(np \div p, i - s) = BitOf(np, (i - s) + s)
    BY <1>1, <2>1, QuotientBit
  <2>3. np \div p = n
    <3> HIDE DEF p
    <3>1. np = n * p + zero /\ zero \in 0 .. p - 1
      BY <1>1, Z3
    <3> HIDE DEF np, zero
    <3> QED
      BY <1>1, <3>1, DivUnique
  <2> QED
    BY <1>1, <1>2, <2>1, <2>2, <2>3
<1>3. CASE i < s
  <2> DEFINE q == Pow2[i]
             half == Pow2[s - i - 1]
             h == n * half
             e == h * 2
  <2>1. s - i \in Nat /\ s - i - 1 \in Nat /\ (s - i - 1) + 1 = s - i
    BY <1>3
  <2>2. q \in Nat \ {0} /\ half \in Nat /\ p = q * (2 * half)
    <3>1. Pow2[(s - i - 1) + 1] = 2 * Pow2[s - i - 1]
      BY <2>1, Pow2Steps
    <3>2. Pow2[s] = Pow2[i] * Pow2[s - i]
      BY <1>3, Pow2Between
    <3> QED
      BY <2>1, <3>1, <3>2, Pow2Type
  <2> HIDE DEF p, q, half
  <2>3. h \in Int /\ e \in Int /\ np = e * q + zero /\ zero \in 0 .. q - 1
    BY <1>1, <2>2, Z3
  <2>4. e % 2 = 0
    <3> HIDE DEF h
    <3> QED
      BY <2>3
  <2> HIDE DEF np, e, zero
  <2>5. np \div q = e
    BY <1>1, <2>2, <2>3, DivUnique
  <2> QED
    BY <1>1, <1>3, <2>4, <2>5 DEF BitOf, np, p, q
<1> QED
  BY <1>2, <1>3

(* Above its own bits a number has zeros, a negative one ones.              *)
LEMMA HighBits ==
    ASSUME NEW k \in Nat, NEW j \in Nat, k <= j, NEW n \in Int
    PROVE  /\ 0 <= n /\ n < Pow2[k] => BitOf(n, j) = 0
           /\ -Pow2[k] <= n /\ n < 0 => BitOf(n, j) = 1
<1> DEFINE p == Pow2[j]
           zero == 0
           minus == -1
           r == p + n
<1>1. p \in Nat \ {0} /\ Pow2[k] <= p /\ Pow2[k] \in Nat
  BY Pow2Between, Pow2Type
<1>2. ASSUME 0 <= n, n < Pow2[k] PROVE BitOf(n, j) = 0
  <2>1. n \in 0 .. p - 1
    BY <1>1, <1>2
  <2> HIDE DEF p
  <2>2. n = zero * p + n /\ zero \in Int
    BY <1>1, Z3
  <2> HIDE DEF zero
  <2>3. n \div p = zero
    BY <1>1, <2>1, <2>2, DivUnique
  <2> QED
    BY <2>3 DEF BitOf, p, zero
<1>3. ASSUME -Pow2[k] <= n, n < 0 PROVE BitOf(n, j) = 1
  <2>1. r \in 0 .. p - 1
    BY <1>1, <1>3
  <2> HIDE DEF p
  <2>2. n = minus * p + r /\ minus \in Int
    BY <1>1, Z3
  <2>3. minus % 2 = 1
    <3> DEFINE two == 2
               one == 1
    <3>1. minus \in Int /\ two \in Nat \ {0} /\ one \in 0 .. two - 1 /\ minus = minus * two + one
      OBVIOUS
    <3> HIDE DEF minus, two, one
    <3>2. minus % two = one
      BY <3>1, ModUnique
    <3> QED
      BY <3>2 DEF two, one
  <2> HIDE DEF minus, r
  <2>4. n \div p = minus
    BY <1>1, <2>1, <2>2, DivUnique
  <2> QED
    BY <2>3, <2>4 DEF BitOf, p
<1> QED
  BY <1>2, <1>3

LEMMA TopBit ==
    ASSUME NEW m \in Nat \ {0}, NEW v \in 0 .. Pow2[m] - 1
    PROVE  BitOf(v, m - 1) = IF v >= Pow2[m] \div 2 THEN 1 ELSE 0
<1> DEFINE h == Pow2[m - 1]
           k == m - 1
           one == 1
           r == v - h
<1>1. k \in Nat /\ k + 1 = m
  OBVIOUS
<1>2. h \in Nat \ {0} /\ Pow2[m] = 2 * h
  BY <1>1, Pow2Type, Pow2Steps
<1>3. CASE v >= h
  <2>1. r \in 0 .. h - 1 /\ v \in Int
    BY <1>2, <1>3
  <2> HIDE DEF h
  <2>2. v = one * h + r /\ one \in Int
    BY <1>2, Z3
  <2> HIDE DEF one, r
  <2>3. v \div h = one
    BY <1>2, <2>1, <2>2, DivUnique
  <2> QED
    BY <1>2, <1>3, <2>3 DEF BitOf, h, one
<1>4. CASE v < h
  <2>1. v \in Int /\ 0 <= v /\ v < Pow2[k]
    BY <1>2, <1>4
  <2>2. BitOf(v, k) = 0
    BY <1>1, <2>1, HighBits
  <2> QED
    BY <1>2, <1>4, <2>2
<1> QED
  BY <1>2, <1>3, <1>4

(* The highest bit in which two numbers differ decides their order.         *)
Differ(x, y, i, m) ==
    BitOf(x, i) # BitOf(y, i) /\ \A j \in i + 1 .. m - 1 : BitOf(x, j) = BitOf(y, j)

LEMMA LowerBitLess ==
    ASSUME NEW m \in Nat, NEW x \in 0 .. Pow2[m] - 1, NEW y \in 0 .. Pow2[m] - 1,
           NEW i \in 0 .. m - 1, Differ(x, y, i, m), BitOf(x, i) = 0
    PROVE  x < y
<1> DEFINE p == Pow2[i]
           a == x \div p
           b == y \div p
<1>1. i \in Nat /\ i + 1 \in 0 .. m /\ x \in Int /\ y \in Int
  BY Pow2Type
<1>2. Above(x, i + 1) = Above(y, i + 1)
  BY <1>1, EqualAbove DEF Differ
<1>3. BitOf(y, i) = 1
  BY <1>1, AboveType DEF Differ
<1>4. Above(x, i) = 2 * Above(x, i + 1) + 0 /\ Above(y, i) = 2 * Above(y, i + 1) + 1 /\ Above(x, i + 1) \in Int
  BY <1>1, <1>3, AboveStep, AboveType
<1>5. b = a + 1
  BY <1>2, <1>4 DEF Above
<1>6. p \in Nat \ {0}
  BY <1>1, Pow2Type
<1> HIDE DEF p
<1>7. a \in Int /\ x % p \in 0 .. p - 1 /\ x = a * p + (x % p) /\ y % p \in 0 .. p - 1 /\ y = b * p + (y % p)
  BY <1>1, <1>6, IntSplit
<1> DEFINE r == x % p
           s == y % p
           ap == a * p
<1> HIDE DEF a, b, r, s
<1>8. ap \in Int /\ b * p = ap + p
  BY <1>5, <1>6, <1>7, Z3
<1> HIDE DEF ap
<1>9. x = ap + r /\ y = ap + p + s
  BY <1>7, <1>8 DEF ap, r, s
<1> QED
  BY <1>6, <1>7, <1>8, <1>9 DEF r, s

LEMMA BitsOrder ==
    ASSUME NEW m \in Nat, NEW x \in 0 .. Pow2[m] - 1, NEW y \in 0 .. Pow2[m] - 1
    PROVE  /\ x = y <=> \A i \in 0 .. m - 1 : BitOf(x, i) = BitOf(y, i)
           /\ x < y <=> \E i \in 0 .. m - 1 : Differ(x, y, i, m) /\ BitOf(x, i) = 0
<1>1. ASSUME \A i \in 0 .. m - 1 : BitOf(x, i) = BitOf(y, i) PROVE x = y
  <2>1. Above(x, 0) = Above(y, 0)
    BY <1>1, EqualAbove
  <2> QED
    BY <2>1, AboveEnds
<1>2. ASSUME x < y PROVE \E i \in 0 .. m - 1 : Differ(x, y, i, m) /\ BitOf(x, i) = 0
  <2> DEFINE D == {i \in 0 .. m - 1 : BitOf(x, i) # BitOf(y, i)}
  <2>1. D \subseteq 0 .. m - 1 /\ D # {}
    BY <1>1, <1>2
  <2>2. PICK i \in D : \A j \in D : j <= i
    <3> HIDE DEF D
    <3> QED
      BY <2>1, GreatestOf
  <2>3. i \in 0 .. m - 1 /\ BitOf(x, i) # BitOf(y, i)
    BY <2>2
  <2>4. Differ(x, y, i, m)
    <3> SUFFICES ASSUME NEW j \in i + 1 .. m - 1 PROVE BitOf(x, j) = BitOf(y, j)
      BY <2>3 DEF Differ
    <3>1. j \in 0 .. m - 1 /\ ~ (j <= i)
      BY <2>3
    <3> QED
      BY <2>2, <3>1
  <2>5. BitOf(x, i) = 0
    <3> SUFFICES ASSUME BitOf(x, i) # 0 PROVE FALSE
      OBVIOUS
    <3>1. BitOf(y, i) = 0
      <4>1. x \in Int /\ y \in Int /\ i \in Nat
        BY <2>3, Pow2Type
      <4> QED
        BY <2>3, <4>1, AboveType
    <3>2. Differ(y, x, i, m)
      BY <2>4 DEF Differ
    <3>3. y < x
      BY <2>3, <3>1, <3>2, LowerBitLess
    <3> QED
      BY <1>2, <3>3, Pow2Type
  <2> QED
    BY <2>3, <2>4, <2>5
<1>3. ASSUME NEW i \in 0 .. m - 1, Differ(x, y, i, m), BitOf(x, i) = 0 PROVE x < y
  BY <1>3, LowerBitLess
<1> QED
  BY <1>1, <1>2, <1>3
=============================================================================
