----------------------------- MODULE SizeT_proofs -----------------------------
(***************************************************************************)
(* What the power-of-two helpers and the saturating doubling of SizeT      *)
(* return, for every width.                                                *)
(***************************************************************************)
EXTENDS SizeT, ListFacts

\* The largest size_t is a natural number, and its high bit a power of two.
LEMMA SizeMaxNat == HighBit \in Pow2s /\ HighBit \in Nat \ {0} /\ SizeMax \in Nat /\ 0 < SizeMax
  <1>1. (Width - 1) \in 0 .. (Width - 1)
    BY WidthAssumption
  <1> QED BY <1>1, PowersAssumption DEF HighBit, Pow2s, SizeMax

\* ceil_pow2 finds a power of two that is at least its argument, as long as
\* the high bit is (the guard of increase_next_buffer_at_least_to).
LEMMA CeilPow2Bounds ==
  ASSUME NEW n \in Nat, n <= HighBit
  PROVE  CeilPow2(n) \in Pow2s /\ n <= CeilPow2(n) /\ CeilPow2(n) <= HighBit
  <1> DEFINE T == {p \in Pow2s : n <= p}
  <1>1. T \subseteq Nat /\ HighBit \in T
    BY SizeMaxNat, PowersAssumption DEF Pow2s
  <1>2. PICK x \in T : \A y \in T : x <= y
    <2> HIDE DEF T
    <2> QED BY <1>1, LeastElement
  <1> QED BY <1>1, <1>2 DEF CeilPow2

\* Powers of two grow with their exponents.
LEMMA PowersMonotone ==
  ASSUME NEW j \in 0 .. (Width - 1), NEW k \in j .. (Width - 1)
  PROVE  2 ^ j <= 2 ^ k
  <1> DEFINE d == k - j
  <1>1. d \in 0 .. (Width - 1) /\ j + d = k /\ k \in 0 .. (Width - 1)
    BY WidthAssumption
  <1>2. 2 ^ j \in Nat \ {0} /\ 2 ^ d \in Nat \ {0}
    BY <1>1, PowersAssumption
  <1>3. 2 ^ k = 2 ^ j * 2 ^ d
    <2> HIDE DEF d
    <2> QED BY <1>1, ExponentsAdd
  <1> DEFINE a == 2 ^ j
             b == 2 ^ d
  <1>4. a \in Nat \ {0} /\ b \in Nat \ {0}
    BY <1>2
  <1>5. a <= a * b
    <2> HIDE DEF a, b
    <2> QED BY <1>4
  <1> QED BY <1>3, <1>5

\* ceil_log2 finds the least exponent, for every argument up to the high bit.
LEMMA CeilLog2Bounds ==
  ASSUME NEW n \in Nat, n <= HighBit
  PROVE  /\ CeilLog2(n) \in 0 .. (Width - 1)
         /\ n <= 2 ^ CeilLog2(n)
         /\ \A j \in 0 .. (Width - 1) : n <= 2 ^ j => CeilLog2(n) <= j
  <1> DEFINE T == {k \in 0 .. (Width - 1) : n <= 2 ^ k}
  <1>1. T \subseteq Nat /\ (Width - 1) \in T
    BY WidthAssumption DEF HighBit
  <1>2. PICK x \in T : \A y \in T : x <= y
    <2> HIDE DEF T
    <2> QED BY <1>1, LeastElement
  <1>3. \E k \in 0 .. (Width - 1) :
          n <= 2 ^ k /\ \A j \in 0 .. (Width - 1) : n <= 2 ^ j => k <= j
    BY <1>2
  <1>4. /\ CeilLog2(n) \in 0 .. (Width - 1)
        /\ n <= 2 ^ CeilLog2(n) /\ \A j \in 0 .. (Width - 1) : n <= 2 ^ j => CeilLog2(n) <= j
    BY <1>3, Zenon DEF CeilLog2
  <1> QED BY <1>4

\* ceil_log2 of a power of two is its exponent.
LEMMA CeilLog2OfPower ==
  ASSUME NEW p \in Pow2s
  PROVE  p \in Nat \ {0} /\ p <= HighBit /\ 2 ^ CeilLog2(p) = p
  <1>1. PICK k \in 0 .. (Width - 1) : p = 2 ^ k
    BY DEF Pow2s
  <1>2. p \in Nat \ {0} /\ (Width - 1) \in k .. (Width - 1)
    BY <1>1, PowersAssumption, WidthAssumption
  <1>3. p <= HighBit
    BY <1>1, <1>2, PowersMonotone DEF HighBit
  <1>4. CeilLog2(p) \in 0 .. k /\ p <= 2 ^ CeilLog2(p)
    BY <1>1, <1>2, <1>3, CeilLog2Bounds
  <1>5. 2 ^ CeilLog2(p) <= p
    <2> DEFINE j == CeilLog2(p)
    <2>0. j \in 0 .. k
      BY <1>4
    <2> HIDE DEF j
    <2>1. j \in 0 .. (Width - 1) /\ k \in j .. (Width - 1)
      BY <2>0, WidthAssumption
    <2>2. 2 ^ j <= 2 ^ k
      BY <2>1, PowersMonotone
    <2> QED BY <1>1, <2>2 DEF j
  <1>6. 2 ^ CeilLog2(p) \in Nat
    BY <1>1, <1>4, PowersAssumption
  <1> DEFINE c == 2 ^ CeilLog2(p)
  <1>7. c = p
    <2>1. p <= c /\ c <= p /\ c \in Nat
      BY <1>4, <1>5, <1>6
    <2> HIDE DEF c
    <2> QED BY <1>2, <2>1
  <1> QED BY <1>2, <1>3, <1>7

\* previous_or_equal_pow2 of a positive number is a power of two below it.
LEMMA FloorPow2Bounds ==
  ASSUME NEW n \in SizeType, 0 < n
  PROVE  FloorPow2(n) \in Pow2s /\ FloorPow2(n) <= n
  <1> DEFINE D == {n - p : p \in {q \in Pow2s : q <= n}}
  <1>0. n \in Nat
    BY SizeMaxNat DEF SizeType
  <1>1. 1 \in Pow2s
    <2>1. 0 \in 0 .. (Width - 1) /\ 2 ^ 0 = 1
      BY WidthAssumption
    <2> QED BY <2>1 DEF Pow2s
  <1>2. D \subseteq Nat /\ D # {}
    BY <1>0, <1>1, PowersAssumption DEF Pow2s
  <1>3. PICK d \in D : \A e \in D : d <= e
    <2> HIDE DEF D
    <2> QED BY <1>2, LeastElement
  <1>4. PICK p \in Pow2s : p <= n /\ d = n - p
    BY <1>3
  <1>5. \A q \in Pow2s : q <= n => q <= p
    <2> SUFFICES ASSUME NEW q \in Pow2s, q <= n PROVE q <= p
      OBVIOUS
    <2>1. n - q \in D
      OBVIOUS
    <2>2. n - p <= n - q
      BY <2>1, <1>3, <1>4
    <2>3. p \in Nat /\ q \in Nat
      BY PowersAssumption DEF Pow2s
    <2> QED BY <1>0, <2>2, <2>3
  <1> QED BY <1>4, <1>5 DEF FloorPow2

\* The saturating doubling stays a size_t and never shrinks.
LEMMA DoubleSaturatedBounds ==
  ASSUME NEW n \in SizeType
  PROVE  DoubleSaturated(n) \in SizeType /\ n <= DoubleSaturated(n)
  BY SizeMaxNat DEF SizeType, SizeMax, DoubleSaturated
\* A multiple of n is nothing modulo n.
LEMMA MultipleModulo ==
  ASSUME NEW n \in Nat \ {0}, NEW k \in Nat
  PROVE  (n * k) % n = 0
  <1> DEFINE m == n * k
             d == m \div n
             r == m % n
  <1>1. m \in Nat
    OBVIOUS
  <1>2. d \in Nat /\ r \in 0 .. n - 1 /\ m = n * d + r
    <2> HIDE DEF m
    <2> QED BY <1>1
  <1>3. r = n * (k - d)
    BY <1>2
  <1>4. CASE k - d <= 0 /\ k - d # 0
    <2>1. n * (k - d) < 0
      BY <1>2, <1>4
    <2> QED BY <1>2, <1>3, <2>1
  <1>5. CASE k - d >= 1
    <2>1. n * (k - d) >= n
      BY <1>2, <1>5
    <2> QED BY <1>2, <1>3, <2>1
  <1>6. CASE k - d = 0
    BY <1>3, <1>6
  <1> QED BY <1>2, <1>4, <1>5, <1>6

\* Adding what is missing to the next multiple of n gives a multiple of n.
LEMMA AlignUp ==
  ASSUME NEW n \in Nat \ {0}, NEW a \in Nat
  PROVE  (a + ((n - (a % n)) % n)) % n = 0
  <1> DEFINE r == a % n
             q == a \div n
  <1>1. q \in Nat /\ r \in 0 .. n - 1 /\ a = n * q + r
    OBVIOUS
  <1> HIDE DEF q, r
  <1>2. CASE r = 0
    <2>1. (n - r) % n = 0
      <3>1. (n * 1) % n = 0
        BY MultipleModulo
      <3> QED BY <1>2, <3>1
    <2>2. (n * q) % n = 0
      BY <1>1, MultipleModulo
    <2>3. a + 0 = n * q
      BY <1>1, <1>2
    <2> QED BY <2>1, <2>2, <2>3 DEF r
  <1>3. CASE r # 0
    <2>1. n - r \in 0 .. n - 1
      BY <1>1, <1>3
    <2>2. (n - r) % n = n - r
      <3> DEFINE s == n - r
      <3> HIDE DEF s
      <3>1. \A x \in 0 .. n - 1 : x % n = x
        OBVIOUS
      <3> QED BY <2>1, <3>1 DEF s
    <2>3. a + (n - r) = n * (q + 1)
      BY <1>1
    <2>4. (n * (q + 1)) % n = 0
      BY <1>1, MultipleModulo
    <2> QED BY <2>2, <2>3, <2>4 DEF r
  <1> QED BY <1>2, <1>3

\* Division with remainder, the other way round.
LEMMA QuotientRemainder ==
  ASSUME NEW n \in Nat \ {0}, NEW k \in Nat, NEW r \in 0 .. n - 1
  PROVE  (k * n + r) % n = r /\ (k * n + r) \div n = k
  <1> DEFINE m == k * n + r
             d == m \div n
             s == m % n
  <1>1. m \in Nat
    OBVIOUS
  <1>2. d \in Nat /\ s \in 0 .. n - 1 /\ m = n * d + s
    <2> HIDE DEF m
    <2> QED BY <1>1
  <1> HIDE DEF d, s
  <1>3. n * (d - k) = r - s
    BY <1>2
  <1>4. CASE d - k <= 0 - 1
    <2>1. n * (d - k) <= 0 - n
      BY <1>2, <1>4
    <2> QED BY <1>2, <1>3, <2>1
  <1>5. CASE d - k >= 1
    <2>1. n * (d - k) >= n
      BY <1>2, <1>5
    <2> QED BY <1>2, <1>3, <2>1
  <1>6. CASE d - k = 0
    <2>1. n * (d - k) = 0
      BY <1>6
    <2>2. d = k /\ s = r
      BY <1>2, <1>3, <1>6, <2>1
    <2> QED BY <2>2 DEF d, s
  <1> QED BY <1>2, <1>4, <1>5, <1>6

\* Dividing twice by n is dividing by its square.
LEMMA DivideTwice ==
  ASSUME NEW n \in Nat \ {0}, NEW a \in Nat
  PROVE  a \div (n * n) = (a \div n) \div n
  <1> DEFINE q == a \div n
             r == a % n
             q2 == q \div n
             r2 == q % n
             low == r2 * n + r
  <1>1. q \in Nat /\ r \in 0 .. n - 1 /\ a = n * q + r
    OBVIOUS
  <1>2. q2 \in Nat /\ r2 \in 0 .. n - 1 /\ q = n * q2 + r2
    <2> HIDE DEF q
    <2> QED BY <1>1
  <1> HIDE DEF q, r, q2, r2
  <1>3. low \in Nat /\ low <= n * n - 1
    <2>1. r2 * n <= (n - 1) * n
      BY <1>2
    <2> QED BY <1>1, <1>2, <2>1
  <1>4. a = q2 * (n * n) + low
    <2>1. n * (n * q2 + r2) = q2 * (n * n) + r2 * n
      BY <1>2
    <2> QED BY <1>1, <1>2, <2>1
  <1>5. n * n \in Nat \ {0}
    OBVIOUS
  <1> DEFINE m == n * n
  <1>6. (q2 * m + low) \div m = q2
    <2> HIDE DEF m, low
    <2>1. low \in 0 .. m - 1
      BY <1>3, <1>5 DEF m
    <2> QED BY <1>2, <1>5, <2>1, QuotientRemainder DEF m
  <1> QED BY <1>4, <1>6 DEF q, q2
=============================================================================
