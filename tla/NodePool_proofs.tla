--------------------------- MODULE NodePool_proofs ---------------------------
(***************************************************************************)
(* NodePool for every set of blocks, width, set of layouts and batches:    *)
(* no node is doubled, only sweeps lose any and only of one block, the     *)
(* packed alignment survives, a sweep leaves no block that is all in the   *)
(* free list, and the pool is a NodeSource.                                *)
(***************************************************************************)
EXTENDS NodePool, SizeT_proofs

-----------------------------------------------------------------------------
(* Sizes, alignments and the packed words *)

\* A segment and the values beside one are powers of two.
LEMMA SegmentPowers ==
  /\ Segment \in Nat \ {0} /\ Top \in Nat \ {0}
  /\ SegmentBits \in 0 .. (Width - 1) /\ SegmentBits \in Nat /\ Segment \in Pow2s
  <1>1. SegmentBits \in 0 .. (Width - 1) /\ Width - SegmentBits \in 0 .. (Width - 1) /\ SegmentBits \in Nat
    BY NodePoolAssumption, WidthAssumption
  <1> QED BY <1>1, PowersAssumption DEF Segment, Top, Pow2s

\* The rounding of the constructor gives a multiple that is large enough.
LEMMA RoundedSizeUp ==
  ASSUME NEW size \in Nat \ {0}, NEW to \in Nat \ {0}
  PROVE  \E m \in Nat \ {0} : RoundedSize(size, to) = m * to /\ size <= m * to
  <1> DEFINE q == (size - 1) \div to
             r == (size - 1) % to
  <1>1. q \in Nat /\ r \in 0 .. to - 1 /\ size - 1 = to * q + r
    <2> DEFINE a == size - 1
    <2>1. a \in Nat
      OBVIOUS
    <2> HIDE DEF a
    <2>2. a \div to \in Nat /\ a % to \in 0 .. to - 1 /\ a = to * (a \div to) + (a % to)
      BY <2>1
    <2> QED BY <2>2 DEF a
  <1> HIDE DEF q, r
  <1>2. size <= (q + 1) * to /\ q + 1 \in Nat \ {0}
    BY <1>1
  <1>3. RoundedSize(size, to) = (q + 1) * to
    BY DEF RoundedSize, q
  <1> QED BY <1>2, <1>3

\* The larger of a power of two and a segment is the segment times a power of
\* two, and a multiple of the former.
LEMMA SegmentsInAlignment ==
  ASSUME NEW align \in Pow2s
  PROVE  LET larger == Larger(align, Segment) IN
         \E d \in 0 .. (Width - 1) :
           /\ 2 ^ d \in Nat \ {0} /\ larger = Segment * 2 ^ d
           /\ \E c \in Nat \ {0} : larger = align * c
           /\ align > Segment => larger = align
           /\ ~(align > Segment) => larger = Segment
  <1>1. PICK a \in 0 .. (Width - 1) : align = 2 ^ a
    BY DEF Pow2s
  <1>2. align \in Nat \ {0}
    BY <1>1, PowersAssumption
  <1>3. CASE align > Segment
    <2>1. Larger(align, Segment) = align
      BY <1>2, <1>3, SegmentPowers DEF Larger
    <2>2. SegmentBits <= a
      <3> SUFFICES ASSUME a < SegmentBits PROVE FALSE
        BY SegmentPowers
      <3>1. SegmentBits \in a .. (Width - 1)
        BY SegmentPowers
      <3>2. 2 ^ a <= 2 ^ SegmentBits
        BY <3>1, PowersMonotone
      <3> QED BY <3>2, <1>1, <1>2, <1>3, SegmentPowers DEF Segment
    <2> DEFINE d == a - SegmentBits
    <2>3. d \in 0 .. (Width - 1) /\ SegmentBits + d = a
      BY <2>2, SegmentPowers, WidthAssumption
    <2> HIDE DEF d
    <2>4. 2 ^ d \in Nat \ {0} /\ align = Segment * 2 ^ d
      BY <2>3, <1>1, SegmentPowers, ExponentsAdd, PowersAssumption DEF Segment
    <2>5. align = align * 1
      BY <1>2
    <2> QED BY <2>1, <2>3, <2>4, <2>5, <1>3
  <1>4. CASE ~(align > Segment)
    <2>1. Larger(align, Segment) = Segment
      BY <1>2, <1>4, SegmentPowers DEF Larger
    <2>2. \E c \in Nat \ {0} : Segment = align * c
      <3>1. CASE a <= SegmentBits
        <4> DEFINE c == SegmentBits - a
        <4>1. c \in 0 .. (Width - 1) /\ a + c = SegmentBits
          BY <3>1, SegmentPowers, WidthAssumption
        <4> HIDE DEF c
        <4>2. 2 ^ c \in Nat \ {0} /\ Segment = align * 2 ^ c
          BY <4>1, <1>1, SegmentPowers, ExponentsAdd, PowersAssumption DEF Segment
        <4> QED BY <4>2
      <3>2. CASE SegmentBits < a
        <4>1. a \in SegmentBits .. (Width - 1)
          BY <3>2, SegmentPowers
        <4>2. 2 ^ SegmentBits <= 2 ^ a
          BY <4>1, SegmentPowers, PowersMonotone
        <4>3. Segment = align /\ align = align * 1
          BY <4>2, <1>1, <1>2, <1>4, SegmentPowers DEF Segment
        <4> QED BY <4>3
      <3> QED BY <3>1, <3>2, SegmentPowers
    <2>3. 0 \in 0 .. (Width - 1) /\ 2 ^ 0 \in Nat \ {0}
      BY WidthAssumption, PowersAssumption
    <2>4. 2 ^ 0 = 1
      <3>1. 0 + 0 \in 0 .. (Width - 1)
        BY <2>3
      <3>2. 2 ^ 0 = 2 ^ 0 * 2 ^ 0
        BY <2>3, <3>1, ExponentsAdd
      <3> DEFINE p == 2 ^ 0
      <3>3. p \in Nat \ {0} /\ p = p * p
        BY <2>3, <3>2
      <3> HIDE DEF p
      <3>4. p = 1
        BY <3>3
      <3> QED BY <3>4 DEF p
    <2>5. Segment = Segment * 2 ^ 0
      BY <2>4, SegmentPowers
    <2> QED BY <2>1, <2>2, <2>3, <2>5, <1>4
  <1> QED BY <1>3, <1>4

\* The constructor's node size has room for a node, in multiples of the
\* nodes' alignment and of a segment.
LEMMA FixedSizeFits ==
  ASSUME NEW l \in Layouts
  PROVE  /\ FixedSize(l) \in Nat \ {0} /\ l.size <= FixedSize(l)
         /\ FixedSize(l) % l.align = 0
         /\ \E m \in Nat : FixedSize(l) = m * Segment
  <1> DEFINE size == Larger(l.size, ListNodeSize)
             once == RoundedSize(size, Segment)
  <1>1. l.size \in Nat \ {0} /\ l.align \in Pow2s /\ l.align \in Nat \ {0}
    BY NodePoolAssumption, PowersAssumption DEF Pow2s
  <1>2. size \in Nat \ {0} /\ l.size <= size
    BY <1>1, NodePoolAssumption DEF Larger
  <1> HIDE DEF size
  <1>3. PICK m \in Nat \ {0} : once = m * Segment /\ size <= m * Segment
    BY <1>2, SegmentPowers, RoundedSizeUp
  <1>4. once \in Nat \ {0} /\ l.size <= once
    BY <1>1, <1>2, <1>3, SegmentPowers
  <1>5. FixedSize(l) = IF l.align > Segment THEN RoundedSize(once, l.align) ELSE once
    BY DEF FixedSize, size
  <1> HIDE DEF once
  <1>6. PICK d \in 0 .. (Width - 1) :
          /\ 2 ^ d \in Nat \ {0} /\ Larger(l.align, Segment) = Segment * 2 ^ d
          /\ \E c \in Nat \ {0} : Larger(l.align, Segment) = l.align * c
          /\ l.align > Segment => Larger(l.align, Segment) = l.align
          /\ ~(l.align > Segment) => Larger(l.align, Segment) = Segment
    BY <1>1, SegmentsInAlignment
  <1>7. CASE l.align > Segment
    <2>1. PICK k \in Nat \ {0} : FixedSize(l) = k * l.align /\ once <= k * l.align
      BY <1>1, <1>4, <1>5, <1>7, RoundedSizeUp
    <2>2. FixedSize(l) = l.align * k
      BY <1>1, <2>1
    <2>3. FixedSize(l) % l.align = 0
      BY <1>1, <2>2, MultipleModulo
    <2> DEFINE p == 2 ^ d
    <2>4. l.align = Segment * p /\ p \in Nat \ {0}
      BY <1>6, <1>7
    <2> HIDE DEF p
    <2>5. FixedSize(l) = (k * p) * Segment /\ k * p \in Nat
      BY <2>1, <2>4, SegmentPowers
    <2>6. FixedSize(l) \in Nat \ {0} /\ l.size <= FixedSize(l)
      BY <1>1, <1>4, <2>1
    <2> QED BY <2>3, <2>5, <2>6
  <1>8. CASE ~(l.align > Segment)
    <2>1. PICK c \in Nat \ {0} : Segment = l.align * c
      BY <1>6, <1>8
    <2>2. FixedSize(l) = m * Segment
      BY <1>3, <1>5, <1>8
    <2>3. FixedSize(l) = l.align * (m * c) /\ m * c \in Nat
      BY <1>1, <2>1, <2>2
    <2>4. FixedSize(l) % l.align = 0
      BY <1>1, <2>3, MultipleModulo
    <2> QED BY <1>4, <1>5, <1>8, <2>2, <2>4
  <1> QED BY <1>7, <1>8

\* The shift is what the alignment is of a segment.
LEMMA AlignedShiftOf ==
  ASSUME NEW l \in Layouts
  PROVE  /\ AlignedShift(l) \in Nat
         /\ Segment * 2 ^ AlignedShift(l) = Larger(l.align, Segment)
  <1>1. l.align \in Pow2s
    BY NodePoolAssumption
  <1>2. PICK d \in 0 .. (Width - 1) :
          2 ^ d \in Nat \ {0} /\ Larger(l.align, Segment) = Segment * 2 ^ d
    BY <1>1, SegmentsInAlignment
  <1> DEFINE p == 2 ^ d
  <1>3. p \in Pow2s /\ p \in Nat \ {0}
    BY <1>2 DEF Pow2s
  <1>4. (Segment * p) \div Segment = p
    <2> HIDE DEF p
    <2>1. 0 \in 0 .. Segment - 1
      BY SegmentPowers
    <2>2. (p * Segment + 0) \div Segment = p
      BY <1>3, <2>1, SegmentPowers, QuotientRemainder
    <2>3. p * Segment + 0 = Segment * p
      BY <1>3, SegmentPowers
    <2> QED BY <2>2, <2>3
  <1>5. 2 ^ CeilLog2(p) = p /\ p <= HighBit
    <2> HIDE DEF p
    <2> QED BY <1>3, CeilLog2OfPower
  <1>6. CeilLog2(p) \in 0 .. (Width - 1)
    <2> HIDE DEF p
    <2> QED BY <1>3, <1>5, CeilLog2Bounds
  <1>7. AlignedShift(l) = CeilLog2(p)
    BY <1>2, <1>4 DEF AlignedShift
  <1>8. CeilLog2(p) \in Nat
    BY <1>6, WidthAssumption
  <1> QED BY <1>2, <1>5, <1>7, <1>8

\* A value below Top and a segment beside it come back as they were.
LEMMA HighUnpacked ==
  ASSUME NEW v \in Nat, v < Top, NEW s \in Nat
  PROVE  PackHigh(v, s) % Top = v /\ PackHigh(v, s) \div Top = s
  <1>1. v \in 0 .. Top - 1
    BY SegmentPowers
  <1> QED BY <1>1, SegmentPowers, QuotientRemainder DEF PackHigh

\* What the constructor packs beside counts below Top, load() unpacks.
Packed(l, size, perBlock, allocated, count) ==
  LET shift == AlignedShift(l) IN
  /\ size = PackLow(FixedSize(l), shift % Segment)
  /\ perBlock = PackHigh(l.perBlock, (shift \div Segment) % Segment)
  /\ allocated = PackHigh(count, (shift \div (Segment * Segment)) % Segment)

LEMMA Unpacked ==
  ASSUME NEW l \in Layouts, NEW size, NEW perBlock, NEW allocated, NEW count \in Nat,
         count < Top, Packed(l, size, perBlock, allocated, count)
  PROVE  /\ size - (size % Segment) = FixedSize(l)
         /\ perBlock % Top = l.perBlock /\ allocated % Top = count
         /\ allocated \div Top = (AlignedShift(l) \div (Segment * Segment)) % Segment
         /\ Load(size, perBlock, allocated) = AlignedShift(l)
  <1> DEFINE a  == AlignedShift(l)
             r0 == a % Segment
             q  == a \div Segment
             r1 == q % Segment
             q2 == q \div Segment
             r2 == (a \div (Segment * Segment)) % Segment
  <1>1. a \in Nat /\ a < Segment * Segment * Segment
    BY AlignedShiftOf, AlignmentsSupported
  <1> HIDE DEF a
  <1>2. r0 \in 0 .. Segment - 1 /\ q \in Nat /\ a = Segment * q + r0
    BY <1>1, SegmentPowers
  <1> HIDE DEF q, r0
  <1>3. r1 \in 0 .. Segment - 1 /\ q2 \in Nat /\ q = Segment * q2 + r1
    BY <1>2, SegmentPowers
  <1>4. a \div (Segment * Segment) = q2
    BY <1>1, SegmentPowers, DivideTwice DEF q
  <1> HIDE DEF q2, r1
  <1>5. q2 < Segment
    <2> SUFFICES ASSUME Segment <= q2 PROVE FALSE
      BY <1>3, SegmentPowers
    <2>1. Segment * Segment <= Segment * q2
      BY <1>3, SegmentPowers
    <2>2. Segment * Segment <= q
      BY <1>3, <2>1, SegmentPowers
    <2>3. Segment * (Segment * Segment) <= Segment * q
      BY <1>2, <2>2, SegmentPowers
    <2>4. Segment * (Segment * Segment) = Segment * Segment * Segment
      BY SegmentPowers
    <2> QED BY <1>1, <1>2, <2>3, <2>4, SegmentPowers
  <1>6. r2 = q2
    <2>1. q2 \in 0 .. Segment - 1
      BY <1>3, <1>5, SegmentPowers
    <2>2. \A n \in Nat \ {0} : \A x \in 0 .. n - 1 : x % n = x
      OBVIOUS
    <2> QED BY <1>4, <2>1, <2>2, SegmentPowers
  <1>7. PICK m \in Nat : FixedSize(l) = m * Segment
    BY FixedSizeFits
  <1>8. size = m * Segment + r0
    BY <1>7 DEF Packed, PackLow, r0, a
  <1>9. size % Segment = r0
    BY <1>2, <1>8, SegmentPowers, QuotientRemainder
  <1>10. size - (size % Segment) = FixedSize(l)
    BY <1>2, <1>7, <1>8, <1>9, SegmentPowers
  <1>11. l.perBlock \in Nat /\ l.perBlock < Top
    BY NodePoolAssumption, SegmentPowers DEF Top
  <1>12. perBlock % Top = l.perBlock /\ perBlock \div Top = r1
    <2>1. perBlock = PackHigh(l.perBlock, r1)
      BY DEF Packed, r1, q, a
    <2>2. r1 \in Nat
      BY <1>3, SegmentPowers
    <2> QED BY <1>11, <2>1, <2>2, HighUnpacked
  <1>13. allocated % Top = count /\ allocated \div Top = r2
    <2>1. allocated = PackHigh(count, r2)
      BY DEF Packed, a
    <2>2. r2 \in Nat
      BY <1>3, <1>6
    <2> HIDE DEF r2
    <2> QED BY <2>1, <2>2, HighUnpacked
  <1>14. Load(size, perBlock, allocated) = r0 + r1 * Segment + q2 * Segment * Segment
    BY <1>6, <1>9, <1>12, <1>13 DEF Load
  <1>15. r0 + r1 * Segment + q2 * Segment * Segment = a
    <2>1. Segment * (Segment * q2 + r1) = r1 * Segment + q2 * Segment * Segment
      BY <1>3, SegmentPowers
    <2> HIDE DEF r2
    <2> QED BY <1>2, <1>3, <2>1, SegmentPowers
  <1> QED BY <1>10, <1>12, <1>13, <1>14, <1>15 DEF a

-----------------------------------------------------------------------------
(* The loops *)

\* The nodes of a block and the others, and the turns of
\* remove_and_dispose_if that part them.
Parts == [mine : Seq(Nodes), rest : Seq(Nodes)]

LEMMA PartTurns ==
  ASSUME NEW list \in Seq(Nodes), NEW b
  PROVE  \E f : /\ f \in [0 .. Len(list) -> Parts]
                /\ f[0] = [mine |-> <<>>, rest |-> <<>>] /\ f[Len(list)] = Parted(list, b)
                /\ \A i \in 1 .. Len(list) : f[i] = Part(f[i - 1], list[i], b)
  <1> DEFINE n == Len(list)
             S == Parts
             base == [mine |-> <<>>, rest |-> <<>>]
             step == [p \in (1 .. n) \X S |-> Part(p[2], list[p[1]], b)]
             body(it) == [t \in SUBSET DOMAIN list |->
                            IF t = {} THEN base
                            ELSE LET x == Max(t) IN Part(it[t \ {x}], list[x], b)]
             iter == CHOOSE it : it = body(it)
             f == [i \in 0 .. n |-> iter[1 .. i]]
  <1>1. n \in Nat /\ DOMAIN list = 1 .. n
    OBVIOUS
  <1>2. base \in S /\ IsTurn(step, n, S) /\ \A i \in 1 .. n, s \in S : step[<<i, s>>] = Part(s, list[i], b)
    <2>1. base \in S
      BY DEF Parts
    <2>2. \A i \in 1 .. n, s \in S : Part(s, list[i], b) \in S
      <3> TAKE i \in 1 .. n, s \in S
      <3> DEFINE x == list[i]
      <3>1. x \in Nodes /\ s.mine \in Seq(Nodes) /\ s.rest \in Seq(Nodes)
        BY DEF Parts
      <3> HIDE DEF x
      <3>2. <<x>> \o s.mine \in Seq(Nodes) /\ Append(s.rest, x) \in Seq(Nodes)
        BY <3>1
      <3>3. Part(s, x, b) \in Parts
        BY <3>2 DEF Parts, Part
      <3> QED BY <3>3 DEF x
    <2> HIDE DEF S, base
    <2> QED BY <2>1, <2>2 DEF IsTurn
  <1> HIDE DEF step, S, n, base
  <1>3. PICK it : Folds(it, step, base, n, S)
    BY <1>1, <1>2, FoldExists
  <1>4. it = body(it)
    <2>1. \A t \in SUBSET (1 .. n) : it[t] = body(it)[t]
      <3> TAKE t \in SUBSET (1 .. n)
      <3>1. CASE t = {}
        BY <1>1, <1>3, <3>1 DEF Folds
      <3>2. CASE t # {}
        <4> DEFINE x == Max(t)
        <4>1. x \in 1 .. n
          BY <1>1, <3>2, MaxOf
        <4> HIDE DEF x
        <4>2. t \ {x} \in SUBSET (1 .. n) /\ it[t \ {x}] \in S
          BY <1>3 DEF Folds
        <4>3. it[t] = step[<<x, it[t \ {x}]>>]
          BY <1>3, <3>2 DEF Folds, x
        <4>4. it[t] = Part(it[t \ {x}], list[x], b)
          BY <1>2, <4>1, <4>2, <4>3
        <4> QED BY <1>1, <3>2, <4>4 DEF x
      <3> QED BY <3>1, <3>2
    <2>2. it = [t \in SUBSET (1 .. n) |-> it[t]]
      BY <1>3 DEF Folds
    <2> HIDE DEF body
    <2>3. body(it) = [t \in SUBSET (1 .. n) |-> body(it)[t]]
      BY <1>1 DEF body
    <2> QED BY <2>1, <2>2, <2>3
  <1>5. iter = body(iter)
    <2> HIDE DEF body
    <2> QED BY <1>4
  <1>6. Parted(list, b) = iter[DOMAIN list]
    BY DEF Parted, FoldLeft, MapThenFoldSet, base
  <1>7. f[0] = base /\ f[n] = Parted(list, b) /\ f = [i \in 0 .. n |-> f[i]]
    <2>1. 0 \in 0 .. n /\ n \in 0 .. n /\ 1 .. 0 = {} /\ {} \in SUBSET DOMAIN list
      BY <1>1
    <2>2. body(iter)[{}] = base
      BY <2>1
    <2> HIDE DEF iter, body
    <2> QED BY <1>1, <1>5, <1>6, <2>1, <2>2
  <1>8. ASSUME NEW i \in 1 .. n PROVE f[i] = Part(f[i - 1], list[i], b)
    <2> DEFINE value(g) == Part(g, list[i], b)
    <2>1. /\ 1 .. i # {} /\ (1 .. i) \in SUBSET (1 .. n) /\ Max(1 .. i) = i
          /\ (1 .. i) \ {i} = 1 .. (i - 1) /\ i \in 0 .. n /\ i - 1 \in 0 .. n
      BY <1>1, UpTo
    <2> HIDE DEF iter
    <2>2. body(iter)[1 .. i] = value(iter[1 .. (i - 1)])
      BY <1>1, <2>1
    <2>3. iter[1 .. i] = value(iter[1 .. (i - 1)])
      <3> HIDE DEF body, value
      <3> QED BY <1>5, <2>2
    <2>4. f[i] = iter[1 .. i] /\ f[i - 1] = iter[1 .. (i - 1)]
      BY <2>1
    <2> HIDE DEF f
    <2> QED BY <2>3, <2>4
  <1> HIDE DEF f, iter, body
  <1>9. f \in [0 .. n -> S]
    <2> DEFINE T == {i \in 0 .. n : f[i] \in S}
    <2>1. 0 \in T
      BY <1>1, <1>2, <1>7
    <2>2. ASSUME NEW i \in 1 .. n, i - 1 \in T PROVE i \in T
      <3>1. f[i] = step[<<i, f[i - 1]>>]
        BY <1>2, <1>8, <2>2
      <3>2. f[i] \in S
        BY <1>2, <2>2, <3>1 DEF IsTurn
      <3> QED BY <3>2
    <2> HIDE DEF T
    <2>3. \A i \in 0 .. n : i \in T
      BY <1>1, <2>1, <2>2, Induction
    <2> QED BY <1>7, <2>3 DEF T
  <1> QED BY <1>7, <1>8, <1>9 DEF S, n, base

\* The two lists hold each node of the list once, by its block.
LEMMA PartedByBlock ==
  ASSUME NEW list \in Seq(Nodes), NEW b, Distinct(list)
  PROVE  LET p == Parted(list, b) IN
         /\ p \in Parts /\ Distinct(p.mine) /\ Distinct(p.rest)
         /\ \A x : x \in ToSet(p.mine) <=> x \in ToSet(list) /\ x.block = b
         /\ \A x : x \in ToSet(p.rest) <=> x \in ToSet(list) /\ x.block # b
  <1> DEFINE n == Len(list)
  <1>1. n \in Nat /\ DOMAIN list = 1 .. n /\ \A i \in 1 .. n : list[i] \in Nodes
    OBVIOUS
  <1>2. PICK f : /\ f \in [0 .. n -> Parts]
                 /\ f[0] = [mine |-> <<>>, rest |-> <<>>] /\ f[n] = Parted(list, b)
                 /\ \A i \in 1 .. n : f[i] = Part(f[i - 1], list[i], b)
    BY PartTurns
  <1> HIDE DEF n
  <1> DEFINE Right(i) ==
               /\ Distinct(f[i].mine) /\ Distinct(f[i].rest)
               /\ \A x : x \in ToSet(f[i].mine) <=> \E j \in 1 .. i : x = list[j] /\ x.block = b
               /\ \A x : x \in ToSet(f[i].rest) <=> \E j \in 1 .. i : x = list[j] /\ x.block # b
             T == {i \in 0 .. n : Right(i)}
  <1>3. 0 \in T
    <2>1. f[0].mine = <<>> /\ f[0].rest = <<>> /\ 0 \in 0 .. n
      BY <1>1, <1>2
    <2>2. Distinct(<<>>) /\ ToSet(<<>>) = {} /\ 1 .. 0 = {}
      BY DEF Distinct, ToSet
    <2> QED BY <2>1, <2>2
  <1>4. ASSUME NEW i \in 1 .. n, i - 1 \in T PROVE i \in T
    <2> DEFINE s == f[i - 1]
               x == list[i]
    <2>1. s \in Parts /\ f[i] = Part(s, x, b) /\ x \in Nodes /\ i \in 0 .. n
      BY <1>1, <1>2, <1>4
    <2>2. Right(i - 1)
      BY <1>4
    <2>3. \A j \in 1 .. (i - 1) : list[j] # x
      BY <1>1 DEF Distinct
    <2>4. \A j : j \in 1 .. i <=> j \in 1 .. (i - 1) \/ j = i
      BY <1>1
    <2>5. x \notin ToSet(s.mine) /\ x \notin ToSet(s.rest)
      BY <2>2, <2>3
    <2> HIDE DEF s, x
    <2>6. s.mine \in Seq(Nodes) /\ s.rest \in Seq(Nodes)
      BY <2>1 DEF Parts
    <2>7. CASE x.block = b
      <3>1. f[i].mine = <<x>> \o s.mine /\ f[i].rest = s.rest
        BY <2>1, <2>7 DEF Part, Parts
      <3>2. Distinct(<<x>> \o s.mine) /\ ToSet(<<x>> \o s.mine) = ToSet(s.mine) \cup {x}
        BY <2>1, <2>2, <2>5, <2>6, PrependDistinct DEF s
      <3>3. Distinct(f[i].mine) /\ Distinct(f[i].rest)
        BY <2>2, <3>1, <3>2 DEF s
      <3>4. \A y : y \in ToSet(f[i].mine) <=> \E j \in 1 .. i : y = list[j] /\ y.block = b
        BY <2>2, <2>4, <2>7, <3>1, <3>2 DEF s, x
      <3>5. \A y : y \in ToSet(f[i].rest) <=> \E j \in 1 .. i : y = list[j] /\ y.block # b
        BY <2>2, <2>4, <2>7, <3>1 DEF s, x
      <3> QED BY <2>1, <3>3, <3>4, <3>5
    <2>8. CASE x.block # b
      <3>1. f[i].rest = Append(s.rest, x) /\ f[i].mine = s.mine
        <4>1. f[i] = [s EXCEPT !.rest = Append(@, x)]
          BY <2>1, <2>8 DEF Part
        <4>2. s \in [mine : Seq(Nodes), rest : Seq(Nodes)]
          BY <2>1 DEF Parts
        <4> QED BY <4>1, <4>2
      <3>2. Distinct(Append(s.rest, x)) /\ ToSet(Append(s.rest, x)) = ToSet(s.rest) \cup {x}
        <4>1. Distinct(s.rest)
          BY <2>2 DEF s
        <4> DEFINE r == s.rest
        <4>2. r \in Seq(Nodes) /\ Distinct(r) /\ x \notin ToSet(r) /\ x \in Nodes
          BY <2>1, <2>5, <2>6, <4>1
        <4> HIDE DEF r
        <4>3. Distinct(Append(r, x)) /\ ToSet(Append(r, x)) = ToSet(r) \cup {x}
          BY <4>2, AppendDistinct
        <4> QED BY <4>3 DEF r
      <3>3. Distinct(f[i].mine) /\ Distinct(f[i].rest)
        BY <2>2, <3>1, <3>2 DEF s
      <3>4. \A y : y \in ToSet(f[i].mine) <=> \E j \in 1 .. i : y = list[j] /\ y.block = b
        BY <2>2, <2>4, <2>8, <3>1 DEF s, x
      <3>5. \A y : y \in ToSet(f[i].rest) <=> \E j \in 1 .. i : y = list[j] /\ y.block # b
        BY <2>2, <2>4, <2>8, <3>1, <3>2 DEF s, x
      <3> QED BY <2>1, <3>3, <3>4, <3>5
    <2> QED BY <2>7, <2>8
  <1>5. Right(n) /\ f[n] \in Parts
    <2> HIDE DEF T
    <2>1. \A i \in 0 .. n : i \in T
      BY <1>1, <1>3, <1>4, Induction
    <2>2. n \in 0 .. n
      BY <1>1
    <2> QED BY <1>2, <2>1, <2>2 DEF T
  <1>6. \A x : x \in ToSet(list) <=> \E j \in 1 .. n : x = list[j]
    BY <1>1 DEF ToSet
  <1> QED BY <1>2, <1>5, <1>6

\* A list of no nodes is empty.
LEMMA NoneInList ==
  ASSUME NEW list \in Seq(Nodes), ToSet(list) = {}
  PROVE  list = <<>>
  <1>1. Len(list) \in Nat /\ DOMAIN list = 1 .. Len(list)
    OBVIOUS
  <1>2. ~(1 \in DOMAIN list)
    BY DEF ToSet
  <1>3. Len(list) = 0
    BY <1>1, <1>2
  <1> QED BY <1>3

\* What a turn of the sweep works on.
Sweeps == [free : Seq(Nodes), kept : Seq(BlockIds), backup : Seq(Nodes), last : BOOLEAN]

LEMMA SweepTyped ==
  ASSUME NEW s \in Sweeps, NEW b \in BlockIds
  PROVE  Sweep(s, b) \in Sweeps
  <1> DEFINE p == Parted(s.free, b)
  <1>1. /\ s.free \in Seq(Nodes) /\ s.kept \in Seq(BlockIds) /\ s.backup \in Seq(Nodes)
        /\ s.last \in BOOLEAN
    BY DEF Sweeps
  <1>2. p \in Parts
    <2>1. PICK f : f \in [0 .. Len(s.free) -> Parts] /\ f[Len(s.free)] = p
      BY <1>1, PartTurns
    <2> HIDE DEF p
    <2>2. Len(s.free) \in 0 .. Len(s.free)
      BY <1>1
    <2> QED BY <2>1, <2>2
  <1> HIDE DEF p
  <1>3. p.mine \in Seq(Nodes) /\ p.rest \in Seq(Nodes)
    BY <1>2 DEF Parts
  <1>4. p.mine \o s.backup \in Seq(Nodes) /\ Append(s.kept, b) \in Seq(BlockIds)
    BY <1>1, <1>3
  <1>5. LastFound(s, p) \in BOOLEAN
    BY <1>1 DEF LastFound
  <1>6. Sweep(s, b) = IF BlockIsFree(p.mine) THEN [s EXCEPT !.free = p.rest]
                      ELSE [free |-> p.rest, kept |-> Append(s.kept, b), backup |-> p.mine \o s.backup,
                            last |-> LastFound(s, p)]
    BY DEF Sweep, p
  <1>7. CASE BlockIsFree(p.mine)
    BY <1>3, <1>6, <1>7 DEF Sweeps
  <1>8. CASE ~BlockIsFree(p.mine)
    <2> DEFINE u == p.rest
               v == Append(s.kept, b)
               w == p.mine \o s.backup
               l == LastFound(s, p)
    <2>1. Sweep(s, b) = [free |-> u, kept |-> v, backup |-> w, last |-> l]
      BY <1>6, <1>8
    <2>2. u \in Seq(Nodes) /\ v \in Seq(BlockIds) /\ w \in Seq(Nodes) /\ l \in BOOLEAN
      BY <1>3, <1>4, <1>5
    <2> HIDE DEF u, v, w, l
    <2> QED BY <2>1, <2>2 DEF Sweeps
  <1> QED BY <1>7, <1>8

\* The turns of deallocate_free_blocks.
LEMMA SweepTurns ==
  ASSUME blocks \in Seq(BlockIds), free \in Seq(Nodes)
  PROVE  \E f : /\ f \in [0 .. Len(blocks) -> Sweeps]
                /\ f[0] = [free |-> free, kept |-> <<>>, backup |-> <<>>, last |-> FALSE]
                /\ f[Len(blocks)] = Swept
                /\ \A i \in 1 .. Len(blocks) : f[i] = Sweep(f[i - 1], blocks[i])
  <1> DEFINE n == Len(blocks)
             S == Sweeps
             base == [free |-> free, kept |-> <<>>, backup |-> <<>>, last |-> FALSE]
             step == [p \in (1 .. n) \X S |-> Sweep(p[2], blocks[p[1]])]
             body(it) == [t \in SUBSET DOMAIN blocks |->
                            IF t = {} THEN base
                            ELSE LET x == Max(t) IN Sweep(it[t \ {x}], blocks[x])]
             iter == CHOOSE it : it = body(it)
             f == [i \in 0 .. n |-> iter[1 .. i]]
  <1>1. n \in Nat /\ DOMAIN blocks = 1 .. n
    OBVIOUS
  <1>2. base \in S /\ IsTurn(step, n, S) /\ \A i \in 1 .. n, s \in S : step[<<i, s>>] = Sweep(s, blocks[i])
    <2>1. base \in S
      BY DEF Sweeps
    <2>2. \A i \in 1 .. n, s \in S : Sweep(s, blocks[i]) \in S
      BY SweepTyped
    <2> HIDE DEF S, base
    <2> QED BY <2>1, <2>2 DEF IsTurn
  <1> HIDE DEF step, S, n, base
  <1>3. PICK it : Folds(it, step, base, n, S)
    BY <1>1, <1>2, FoldExists
  <1>4. it = body(it)
    <2>1. \A t \in SUBSET (1 .. n) : it[t] = body(it)[t]
      <3> TAKE t \in SUBSET (1 .. n)
      <3>1. CASE t = {}
        BY <1>1, <1>3, <3>1 DEF Folds
      <3>2. CASE t # {}
        <4> DEFINE x == Max(t)
        <4>1. x \in 1 .. n
          BY <1>1, <3>2, MaxOf
        <4> HIDE DEF x
        <4>2. t \ {x} \in SUBSET (1 .. n) /\ it[t \ {x}] \in S
          BY <1>3 DEF Folds
        <4>3. it[t] = step[<<x, it[t \ {x}]>>]
          BY <1>3, <3>2 DEF Folds, x
        <4>4. it[t] = Sweep(it[t \ {x}], blocks[x])
          BY <1>2, <4>1, <4>2, <4>3
        <4> QED BY <1>1, <3>2, <4>4 DEF x
      <3> QED BY <3>1, <3>2
    <2>2. it = [t \in SUBSET (1 .. n) |-> it[t]]
      BY <1>3 DEF Folds
    <2> HIDE DEF body
    <2>3. body(it) = [t \in SUBSET (1 .. n) |-> body(it)[t]]
      BY <1>1 DEF body
    <2> QED BY <2>1, <2>2, <2>3
  <1>5. iter = body(iter)
    <2> HIDE DEF body
    <2> QED BY <1>4
  <1>6. Swept = iter[DOMAIN blocks]
    BY DEF Swept, FoldLeft, MapThenFoldSet, base
  <1>7. f[0] = base /\ f[n] = Swept /\ f = [i \in 0 .. n |-> f[i]]
    <2>1. 0 \in 0 .. n /\ n \in 0 .. n /\ 1 .. 0 = {} /\ {} \in SUBSET DOMAIN blocks
      BY <1>1
    <2>2. body(iter)[{}] = base
      BY <2>1
    <2> HIDE DEF iter, body
    <2> QED BY <1>1, <1>5, <1>6, <2>1, <2>2
  <1>8. ASSUME NEW i \in 1 .. n PROVE f[i] = Sweep(f[i - 1], blocks[i])
    <2> DEFINE value(g) == Sweep(g, blocks[i])
    <2>1. /\ 1 .. i # {} /\ (1 .. i) \in SUBSET (1 .. n) /\ Max(1 .. i) = i
          /\ (1 .. i) \ {i} = 1 .. (i - 1) /\ i \in 0 .. n /\ i - 1 \in 0 .. n
      BY <1>1, UpTo
    <2> HIDE DEF iter
    <2>2. body(iter)[1 .. i] = value(iter[1 .. (i - 1)])
      BY <1>1, <2>1
    <2>3. iter[1 .. i] = value(iter[1 .. (i - 1)])
      <3> HIDE DEF body, value
      <3> QED BY <1>5, <2>2
    <2>4. f[i] = iter[1 .. i] /\ f[i - 1] = iter[1 .. (i - 1)]
      BY <2>1
    <2> HIDE DEF f
    <2> QED BY <2>3, <2>4
  <1> HIDE DEF f, iter, body
  <1>9. f \in [0 .. n -> S]
    <2> DEFINE T == {i \in 0 .. n : f[i] \in S}
    <2>1. 0 \in T
      BY <1>1, <1>2, <1>7
    <2>2. ASSUME NEW i \in 1 .. n, i - 1 \in T PROVE i \in T
      <3>1. f[i] = step[<<i, f[i - 1]>>]
        BY <1>2, <1>8, <2>2
      <3>2. f[i] \in S
        BY <1>2, <2>2, <3>1 DEF IsTurn
      <3> QED BY <3>2
    <2> HIDE DEF T
    <2>3. \A i \in 0 .. n : i \in T
      BY <1>1, <2>1, <2>2, Induction
    <2> QED BY <1>7, <2>3 DEF T
  <1> QED BY <1>7, <1>8, <1>9 DEF S, n, base

-----------------------------------------------------------------------------
(* The nodes of blocks *)

NodesIn(B, n) == {[block |-> b, index |-> k] : b \in B, k \in 0 .. n - 1}

\* Those that are neither in the free list nor with a caller.
Unlinked(n, B, list, out) == NodesIn(B, n) \ (ToSet(list) \cup out)

\* The free list and the callers have each a node of the blocks B once; the
\* list's count goes for the nodes that are in it and for those that are not.
Conserved(n, B, list, size, out) ==
  /\ list \in Seq(Nodes) /\ Distinct(list)
  /\ ToSet(list) \cap out = {} /\ ToSet(list) \cup out \subseteq NodesIn(B, n)
  /\ size = Len(list) + Cardinality(Unlinked(n, B, list, out))

\* What the pool has lost, by these names.
LEMMA LostIs ==
  /\ Lost = Unlinked(NodesPerBlock, ToSet(blocks), free, held)
  /\ Lost' = Unlinked(NodesPerBlock', ToSet(blocks'), free', held')
  BY DEF Lost, Unlinked, NodesIn

LEMMA InNodesIn ==
  ASSUME NEW n \in Nat, NEW B, NEW x, x \in NodesIn(B, n)
  PROVE  /\ x.block \in B /\ x.index \in 0 .. n - 1 /\ x = [block |-> x.block, index |-> x.index]
         /\ x \in NodesIn({x.block}, n)
  <1>1. PICK b \in B, k \in 0 .. n - 1 : x = [block |-> b, index |-> k]
    BY DEF NodesIn
  <1>2. x.block = b /\ x.index = k
    BY <1>1
  <1>3. x \in NodesIn({b}, n)
    BY <1>1 DEF NodesIn
  <1> QED BY <1>1, <1>2, <1>3

LEMMA NodesInMore ==
  ASSUME NEW n \in Nat, NEW B, NEW b
  PROVE  NodesIn(B \cup {b}, n) = NodesIn(B, n) \cup NodesIn({b}, n)
  <1>1. \A C, x : x \in NodesIn(C, n) <=> \E c \in C, k \in 0 .. n - 1 : x = [block |-> c, index |-> k]
    BY DEF NodesIn
  <1>2. \A x : x \in NodesIn(B \cup {b}, n) <=> x \in NodesIn(B, n) \/ x \in NodesIn({b}, n)
    BY <1>1
  <1> QED BY <1>2

\* The nodes of n blocks' worth are as many as the product says; a list of
\* one block's nodes is as long as the block only if it has them all.
LEMMA OneBlock ==
  ASSUME NEW n \in Nat, NEW b \in BlockIds
  PROVE  IsFiniteSet(NodesIn({b}, n)) /\ Cardinality(NodesIn({b}, n)) = n
  <1> DEFINE s == [k \in 1 .. n |-> [block |-> b, index |-> k - 1]]
             S == {[block |-> b, index |-> k] : k \in 0 .. n - 1}
  <1>1. \A k \in 1 .. n : k - 1 \in 0 .. n - 1
    OBVIOUS
  <1>2. s \in [1 .. n -> S]
    BY <1>1
  <1>3. s \in Seq(S) /\ Len(s) = n /\ DOMAIN s = 1 .. n
    <2> HIDE DEF s, S
    <2> QED BY <1>2
  <1>4. Distinct(s)
    <2> SUFFICES ASSUME NEW i \in 1 .. n, NEW j \in 1 .. n, s[i] = s[j] PROVE i = j
      BY <1>3 DEF Distinct
    <2>1. s[i].index = i - 1 /\ s[j].index = j - 1
      OBVIOUS
    <2>2. i - 1 = j - 1
      BY <2>1
    <2> QED BY <2>2
  <1>5. ToSet(s) = NodesIn({b}, n)
    <2>1. \A k \in 0 .. n - 1 : k + 1 \in 1 .. n /\ s[k + 1] = [block |-> b, index |-> k]
      OBVIOUS
    <2>2. \A k \in 1 .. n : k - 1 \in 0 .. n - 1 /\ s[k] = [block |-> b, index |-> k - 1]
      OBVIOUS
    <2>3. \A x : x \in NodesIn({b}, n) <=> \E k \in 0 .. n - 1 : x = [block |-> b, index |-> k]
      BY DEF NodesIn
    <2> HIDE DEF s
    <2>4. \A x : x \in ToSet(s) <=> \E k \in 1 .. n : x = s[k]
      BY <1>3 DEF ToSet
    <2>5. ASSUME NEW x \in ToSet(s) PROVE x \in NodesIn({b}, n)
      <3>1. PICK k \in 1 .. n : x = s[k]
        BY <2>4
      <3>2. k - 1 \in 0 .. n - 1 /\ x = [block |-> b, index |-> k - 1]
        BY <2>2, <3>1
      <3> QED BY <2>3, <3>2
    <2>6. \A x : x \in NodesIn({b}, n) => x \in ToSet(s)
      BY <2>1, <2>3, <2>4
    <2> QED BY <2>5, <2>6
  <1> HIDE DEF s, S
  <1> QED BY <1>3, <1>4, <1>5, DistinctCount

LEMMA WholeBlock ==
  ASSUME NEW n \in Nat, NEW b \in BlockIds, NEW mine \in Seq(Nodes), Distinct(mine),
         ToSet(mine) \subseteq NodesIn({b}, n)
  PROVE  Len(mine) = n <=> NodesIn({b}, n) \subseteq ToSet(mine)
  <1>1. IsFiniteSet(ToSet(mine)) /\ Cardinality(ToSet(mine)) = Len(mine)
    BY DistinctCount
  <1>2. IsFiniteSet(NodesIn({b}, n)) /\ Cardinality(NodesIn({b}, n)) = n
    BY OneBlock
  <1>3. ToSet(mine) \in SUBSET NodesIn({b}, n)
    OBVIOUS
  <1>4. n = Len(mine) => NodesIn({b}, n) = ToSet(mine)
    BY <1>1, <1>2, <1>3, FS_Subset
  <1>5. NodesIn({b}, n) \subseteq ToSet(mine) => NodesIn({b}, n) = ToSet(mine)
    BY <1>3
  <1> QED BY <1>1, <1>2, <1>4, <1>5

\* A sweep keeps the blocks that callers hold nodes of or that have lost some,
\* and collects their free nodes.  Where it ends without the last of these,
\* they are of one block.
LEMMA SweepCollects ==
  ASSUME NodesPerBlock \in Nat \ {0}, blocks \in Seq(BlockIds), Distinct(blocks),
         NEW size, Conserved(NodesPerBlock, ToSet(blocks), free, size, held)
  PROVE  /\ Swept.kept \in Seq(BlockIds) /\ Distinct(Swept.kept)
         /\ \A b : b \in ToSet(Swept.kept) <=> b \in ToSet(blocks) /\ \E x \in held \cup Lost : x.block = b
         /\ Swept.backup \in Seq(Nodes) /\ Distinct(Swept.backup)
         /\ \A x : x \in ToSet(Swept.backup) <=> x \in ToSet(free) /\ x.block \in ToSet(Swept.kept)
         /\ Swept.free = <<>>
         /\ ~Swept.last => \A x, y \in ToSet(Swept.backup) : x.block = y.block
  <1> DEFINE n == Len(blocks)
             npb == NodesPerBlock
             gone == held \cup Lost
             Used(b) == \E x \in gone : x.block = b
  <1>1. n \in Nat /\ DOMAIN blocks = 1 .. n /\ (\A i \in 1 .. n : blocks[i] \in BlockIds) /\ npb \in Nat \ {0}
    OBVIOUS
  <1>2. /\ free \in Seq(Nodes) /\ Distinct(free) /\ ToSet(free) \cap gone = {}
        /\ ToSet(free) \cup gone = NodesIn(ToSet(blocks), npb)
    BY LostIs DEF Conserved, Unlinked
  <1> HIDE DEF gone
  <1>3. PICK f : /\ f \in [0 .. n -> Sweeps]
                 /\ f[0] = [free |-> free, kept |-> <<>>, backup |-> <<>>, last |-> FALSE] /\ f[n] = Swept
                 /\ \A i \in 1 .. n : f[i] = Sweep(f[i - 1], blocks[i])
    BY <1>2, SweepTurns
  <1> HIDE DEF n, npb
  <1> DEFINE FreeRight(i) ==
               /\ Distinct(f[i].free)
               /\ \A x : x \in ToSet(f[i].free) <=> x \in ToSet(free) /\ \A j \in 1 .. i : x.block # blocks[j]
             KeptRight(i) ==
               /\ Distinct(f[i].kept)
               /\ \A b : b \in ToSet(f[i].kept) <=> \E j \in 1 .. i : b = blocks[j] /\ Used(b)
             BackupRight(i) ==
               /\ Distinct(f[i].backup)
               /\ \A x : x \in ToSet(f[i].backup) <=>
                           x \in ToSet(free) /\ \E j \in 1 .. i : x.block = blocks[j] /\ Used(blocks[j])
             LastRight(i) ==
               ~f[i].last /\ f[i].backup # <<>> =>
                 /\ \A x, y \in ToSet(f[i].backup) : x.block = y.block
                 /\ f[i].free = <<>>
             T == {i \in 0 .. n : FreeRight(i) /\ KeptRight(i) /\ BackupRight(i) /\ LastRight(i)}
  <1>4. 0 \in T
    <2>1. f[0].free = free /\ f[0].kept = <<>> /\ f[0].backup = <<>> /\ 0 \in 0 .. n
      BY <1>1, <1>3
    <2>2. Distinct(<<>>) /\ ToSet(<<>>) = {} /\ 1 .. 0 = {}
      BY DEF Distinct, ToSet
    <2>3. FreeRight(0) /\ KeptRight(0) /\ BackupRight(0) /\ LastRight(0)
      BY <1>2, <2>1, <2>2
    <2> QED BY <2>1, <2>3
  <1>5. ASSUME NEW i \in 1 .. n, i - 1 \in T PROVE i \in T
    <2> DEFINE s == f[i - 1]
               b == blocks[i]
               p == Parted(s.free, b)
    <2>1. /\ s \in Sweeps /\ b \in BlockIds /\ f[i] = Sweep(s, b) /\ i \in 0 .. n
          /\ FreeRight(i - 1) /\ KeptRight(i - 1) /\ BackupRight(i - 1) /\ LastRight(i - 1)
      BY <1>1, <1>3, <1>5
    <2>2. s.free \in Seq(Nodes) /\ s.kept \in Seq(BlockIds) /\ s.backup \in Seq(Nodes)
      BY <2>1 DEF Sweeps
    <2>3. \A j \in 1 .. (i - 1) : blocks[j] # b
      BY <1>1 DEF Distinct
    <2>4. \A j : j \in 1 .. i <=> j \in 1 .. (i - 1) \/ j = i
      BY <1>1
    <2>5. /\ p \in Parts /\ Distinct(p.mine) /\ Distinct(p.rest)
          /\ \A x : x \in ToSet(p.mine) <=> x \in ToSet(s.free) /\ x.block = b
          /\ \A x : x \in ToSet(p.rest) <=> x \in ToSet(s.free) /\ x.block # b
      BY <2>1, <2>2, PartedByBlock
    <2>6. p.mine \in Seq(Nodes) /\ p.rest \in Seq(Nodes)
      BY <2>5 DEF Parts
    <2> HIDE DEF p
    <2>7. \A x : x \in ToSet(p.mine) <=> x \in ToSet(free) /\ x.block = b
      BY <2>1, <2>3, <2>5
    <2>8. \A x : x \in ToSet(p.rest) <=> x \in ToSet(free) /\ \A j \in 1 .. i : x.block # blocks[j]
      BY <2>1, <2>4, <2>5
    <2>9. Len(p.mine) = npb <=> ~Used(b)
      <3>1. ToSet(p.mine) \subseteq NodesIn({b}, npb)
        BY <1>1, <1>2, <2>7, InNodesIn
      <3>2. Len(p.mine) = npb <=> NodesIn({b}, npb) \subseteq ToSet(p.mine)
        BY <1>1, <2>1, <2>5, <2>6, <3>1, WholeBlock
      <3>3. NodesIn({b}, npb) \subseteq NodesIn(ToSet(blocks), npb)
        <4>1. b \in ToSet(blocks)
          BY <1>1 DEF ToSet
        <4> HIDE DEF b
        <4> QED BY <4>1 DEF NodesIn
      <3>4. ASSUME NEW x \in NodesIn({b}, npb) PROVE x.block = b
        <4> HIDE DEF b
        <4>1. x.block \in {b}
          BY <1>1, InNodesIn
        <4> QED BY <4>1
      <3>5. ASSUME ~Used(b) PROVE NodesIn({b}, npb) \subseteq ToSet(p.mine)
        BY <1>2, <2>7, <3>3, <3>4, <3>5
      <3>6. ASSUME Used(b) PROVE ~(NodesIn({b}, npb) \subseteq ToSet(p.mine))
        <4>1. PICK x \in gone : x.block = b
          BY <3>6
        <4>2. x \in NodesIn({b}, npb)
          BY <1>1, <1>2, <4>1, InNodesIn
        <4>3. x \notin ToSet(p.mine)
          BY <1>2, <2>7, <4>1
        <4> QED BY <4>2, <4>3
      <3> QED BY <3>2, <3>5, <3>6
    <2>10. f[i] = IF Len(p.mine) = npb THEN [s EXCEPT !.free = p.rest]
                  ELSE [free |-> p.rest, kept |-> Append(s.kept, b), backup |-> p.mine \o s.backup,
                        last |-> LastFound(s, p)]
      BY <2>1 DEF Sweep, BlockIsFree, p, npb
    <2>11. FreeRight(i)
      <3>1. f[i].free = p.rest
        BY <2>2, <2>10, <2>1 DEF Sweeps
      <3> QED BY <2>5, <2>8, <3>1
    <2>12. LastRight(i)
      <3> DEFINE t == f[i]
      <3>1. t.free = p.rest
        BY <2>2, <2>10, <2>1 DEF Sweeps
      <3>2. s.free = <<>> => p.mine = <<>> /\ p.rest = <<>>
        <4> SUFFICES ASSUME s.free = <<>> PROVE p.mine = <<>> /\ p.rest = <<>>
          OBVIOUS
        <4>1. ToSet(s.free) = {}
          BY DEF ToSet
        <4>2. ToSet(p.mine) = {} /\ ToSet(p.rest) = {}
          BY <2>5, <4>1
        <4> DEFINE u == p.mine
                   v == p.rest
        <4>3. u \in Seq(Nodes) /\ v \in Seq(Nodes) /\ ToSet(u) = {} /\ ToSet(v) = {}
          BY <2>6, <4>2
        <4> HIDE DEF u, v
        <4>4. u = <<>> /\ v = <<>>
          BY <4>3, NoneInList
        <4> QED BY <4>4 DEF u, v
      <3>3. CASE Len(p.mine) = npb
        <4>1. t.backup = s.backup /\ t.last = s.last
          BY <2>10, <3>3, <2>1 DEF Sweeps
        <4> HIDE DEF s, t
        <4>2. LastRight(i - 1)
          BY <2>1
        <4> QED BY <3>1, <3>2, <4>1, <4>2 DEF s, t
      <3>4. CASE Len(p.mine) # npb
        <4> DEFINE w == p.mine \o s.backup
                   l == LastFound(s, p)
        <4>1. t.backup = w /\ t.last = l
          <5> DEFINE u == p.rest
                     v == Append(s.kept, b)
          <5>1. t = [free |-> u, kept |-> v, backup |-> w, last |-> l]
            BY <2>10, <3>4
          <5> HIDE DEF t, u, v, w, l
          <5> QED BY <5>1
        <4>2. LastRight(i - 1)
          BY <2>1
        <4>3. CASE s.backup = <<>>
          <5>1. w = p.mine
            BY <2>6, <4>3
          <5>2. l = IF p.rest # <<>> THEN p.mine # <<>> ELSE s.last
            BY <4>3 DEF LastFound
          <5>3. \A x, y \in ToSet(p.mine) : x.block = y.block
            BY <2>7
          <5> HIDE DEF s, t, w, l
          <5> QED BY <3>1, <4>1, <5>1, <5>2, <5>3 DEF t
        <4>4. CASE s.backup # <<>>
          <5>1. l = s.last
            BY <4>4 DEF LastFound
          <5>2. p.mine = <<>> => w = s.backup
            BY <2>2
          <5> HIDE DEF s, t, w, l
          <5>3. ~s.last => s.free = <<>> /\ \A x, y \in ToSet(s.backup) : x.block = y.block
            BY <4>2, <4>4 DEF s
          <5> QED BY <3>1, <3>2, <4>1, <5>1, <5>2, <5>3 DEF t
        <4> QED BY <4>3, <4>4
      <3> QED BY <3>3, <3>4
    <2>13. CASE ~Used(b)
      <3>1. f[i].kept = s.kept /\ f[i].backup = s.backup
        BY <2>9, <2>10, <2>13, <2>1 DEF Sweeps
      <3> HIDE DEF Used, s
      <3>2. KeptRight(i)
        BY <2>1, <2>4, <2>13, <3>1 DEF s
      <3>3. BackupRight(i)
        BY <2>1, <2>4, <2>13, <3>1 DEF s
      <3> HIDE DEF FreeRight, KeptRight, BackupRight, LastRight
      <3> QED BY <2>1, <2>11, <2>12, <3>2, <3>3
    <2>14. CASE Used(b)
      <3>1. f[i].kept = Append(s.kept, b) /\ f[i].backup = p.mine \o s.backup
        <4>1. ~(Len(p.mine) = npb)
          BY <2>9, <2>14
        <4>2. f[i] = [free |-> p.rest, kept |-> Append(s.kept, b), backup |-> p.mine \o s.backup,
                      last |-> LastFound(s, p)]
          BY <2>10, <4>1
        <4> DEFINE u == p.rest
                   v == Append(s.kept, b)
                   w == p.mine \o s.backup
                   l == LastFound(s, p)
                   t == f[i]
        <4>3. t = [free |-> u, kept |-> v, backup |-> w, last |-> l]
          BY <4>2
        <4> HIDE DEF u, v, w, l, t
        <4>4. t.kept = v /\ t.backup = w
          BY <4>3
        <4> QED BY <4>4 DEF t, v, w
      <3>2. b \notin ToSet(s.kept) /\ Distinct(s.kept) /\ Distinct(s.backup)
        BY <2>1, <2>3
      <3>3. ToSet(p.mine) \cap ToSet(s.backup) = {}
        BY <2>1, <2>3, <2>7
      <3> HIDE DEF Used
      <3>4. KeptRight(i)
        <4> DEFINE k == s.kept
        <4>1. k \in Seq(BlockIds) /\ Distinct(k) /\ b \notin ToSet(k) /\ b \in BlockIds
          BY <2>1, <2>2, <3>2
        <4>2. Distinct(Append(k, b)) /\ ToSet(Append(k, b)) = ToSet(k) \cup {b}
          <5> HIDE DEF k, b
          <5> QED BY <4>1, AppendDistinct
        <4>3. \A c : c \in ToSet(k) <=> \E j \in 1 .. (i - 1) : c = blocks[j] /\ Used(c)
          BY <2>1
        <4>4. f[i].kept = Append(k, b)
          BY <3>1
        <4> HIDE DEF k
        <4>5. \A c : c \in ToSet(f[i].kept) <=> \E j \in 1 .. i : c = blocks[j] /\ Used(c)
          BY <2>4, <2>14, <4>2, <4>3, <4>4
        <4> QED BY <4>2, <4>4, <4>5
      <3>5. BackupRight(i)
        <4> DEFINE k == s.backup
        <4>1. k \in Seq(Nodes) /\ Distinct(k) /\ ToSet(p.mine) \cap ToSet(k) = {}
          BY <2>2, <3>2, <3>3
        <4>2. Distinct(p.mine \o k) /\ ToSet(p.mine \o k) = ToSet(p.mine) \cup ToSet(k)
          <5> HIDE DEF k, b
          <5> QED BY <2>5, <2>6, <4>1, JoinDistinct
        <4>3. \A x : x \in ToSet(k) <=>
                x \in ToSet(free) /\ \E j \in 1 .. (i - 1) : x.block = blocks[j] /\ Used(blocks[j])
          BY <2>1
        <4>4. f[i].backup = p.mine \o k
          BY <3>1
        <4> HIDE DEF k
        <4>5. \A x : x \in ToSet(f[i].backup) <=>
                x \in ToSet(free) /\ \E j \in 1 .. i : x.block = blocks[j] /\ Used(blocks[j])
          BY <2>4, <2>7, <2>14, <4>2, <4>3, <4>4
        <4> QED BY <4>2, <4>4, <4>5
      <3> HIDE DEF FreeRight, KeptRight, BackupRight, LastRight
      <3> QED BY <2>1, <2>11, <2>12, <3>4, <3>5
    <2> QED BY <2>13, <2>14
  <1>6. FreeRight(n) /\ KeptRight(n) /\ BackupRight(n) /\ LastRight(n) /\ f[n] \in Sweeps
    <2> HIDE DEF T
    <2>1. \A i \in 0 .. n : i \in T
      BY <1>1, <1>4, <1>5, Induction
    <2>2. n \in 0 .. n
      BY <1>1
    <2> QED BY <1>3, <2>1, <2>2 DEF T
  <1>7. Swept.kept \in Seq(BlockIds) /\ Swept.backup \in Seq(Nodes)
    BY <1>3, <1>6 DEF Sweeps
  <1>8. \A b : b \in ToSet(Swept.kept) <=> b \in ToSet(blocks) /\ Used(b)
    <2>1. \A b : b \in ToSet(blocks) <=> \E j \in 1 .. n : b = blocks[j]
      BY <1>1 DEF ToSet
    <2>2. \A b : b \in ToSet(Swept.kept) <=> \E j \in 1 .. n : b = blocks[j] /\ Used(b)
      BY <1>3, <1>6
    <2> HIDE DEF Used
    <2> QED BY <2>1, <2>2
  <1>9. \A x : x \in ToSet(Swept.backup) <=> x \in ToSet(free) /\ x.block \in ToSet(Swept.kept)
    <2>1. \A b : b \in ToSet(Swept.kept) <=> \E j \in 1 .. n : b = blocks[j] /\ Used(b)
      BY <1>3, <1>6
    <2> QED BY <1>3, <1>6, <2>1
  <1>10. Swept.free = <<>>
    <2>1. Swept.free \in Seq(Nodes)
      BY <1>3, <1>6 DEF Sweeps
    <2>2. ASSUME NEW x \in ToSet(Swept.free) PROVE FALSE
      <3>1. x \in ToSet(free) /\ \A j \in 1 .. n : x.block # blocks[j]
        BY <1>3, <1>6, <2>2
      <3>2. x.block \in ToSet(blocks)
        BY <1>1, <1>2, <3>1, InNodesIn
      <3> QED BY <1>1, <3>1, <3>2 DEF ToSet
    <2> DEFINE u == Swept.free
    <2>3. u \in Seq(Nodes) /\ ToSet(u) = {}
      BY <2>1, <2>2
    <2> HIDE DEF u
    <2>4. u = <<>>
      BY <2>3, NoneInList
    <2> QED BY <2>4 DEF u
  <1>11. ~Swept.last => \A x, y \in ToSet(Swept.backup) : x.block = y.block
    <2>1. LastRight(n) /\ f[n] = Swept
      BY <1>3, <1>6
    <2>2. ToSet(<<>>) = {}
      BY DEF ToSet
    <2> QED BY <2>1, <2>2
  <1> QED BY <1>3, <1>6, <1>7, <1>8, <1>9, <1>10, <1>11 DEF gone

-----------------------------------------------------------------------------
(* The inductive invariant *)

Loan  == [bytes : Nat, align : Nat]
Loans == UNION {[D -> Loan] : D \in SUBSET BlockIds}

\* The manager was asked for every block with the layout's size and alignment.
LentAs(l, lt) ==
  \A b \in DOMAIN lt : lt[b] = [bytes |-> l.perBlock * FixedSize(l) + ListNodeSize,
                                align |-> Larger(l.align, Segment)]

\* The block list is the manager's record, and the nodes of its blocks are in
\* the free list or held.
MemorySound(l, bl, list, size, lt, out) ==
  /\ bl \in Seq(BlockIds) /\ Distinct(bl) /\ ToSet(bl) = DOMAIN lt
  /\ lt \in Loans /\ LentAs(l, lt)
  /\ Conserved(l.perBlock, ToSet(bl), list, size, out)

Vacant ==
  /\ nodeSizeWord = 0 /\ perBlockWord = 0 /\ allocatedWord = 0
  /\ blocks = <<>> /\ free = <<>> /\ freeSize = 0 /\ lent = NothingLent /\ held = {}

IInv ==
  /\ layout \in Layouts \cup {NoLayout}
  /\ layout = NoLayout => Vacant
  /\ layout # NoLayout =>
       /\ Packed(layout, nodeSizeWord, perBlockWord, allocatedWord, Cardinality(held))
       /\ MemorySound(layout, blocks, free, freeSize, lent, held)
  /\ pastEnd => Lost # {}

\* No layout is the absent one.
LEMMA LayoutTyped ==
  ASSUME NEW l \in Layouts
  PROVE  l # NoLayout /\ l.perBlock \in Nat \ {0} /\ l.perBlock < Top /\ l.align \in Nat \ {0}
  <1>1. l.size # 0 /\ l.perBlock \in Nat \ {0} /\ l.perBlock < Top /\ l.align \in Pow2s
    BY NodePoolAssumption, SegmentPowers DEF Top
  <1>2. l.align \in Nat \ {0}
    BY <1>1, PowersAssumption DEF Pow2s
  <1> QED BY <1>1, <1>2 DEF NoLayout

\* Nodes of blocks are no more than all blocks have, which a count can say.
LEMMA NodesFew ==
  ASSUME NEW l \in Layouts, NEW B, B \subseteq BlockIds, NEW out, out \subseteq NodesIn(B, l.perBlock)
  PROVE  IsFiniteSet(out) /\ Cardinality(out) \in Nat /\ Cardinality(out) < Top
  <1> DEFINE n == l.perBlock
             P == BlockIds \X (0 .. n - 1)
             all == NodesIn(BlockIds, n)
             f == [p \in P |-> [block |-> p[1], index |-> p[2]]]
  <1>1. n \in Nat \ {0}
    BY LayoutTyped
  <1>2. IsFiniteSet(BlockIds) /\ Cardinality(BlockIds) \in Nat
    BY CountsFit, FS_CardinalityType
  <1>3. IsFiniteSet(0 .. n - 1) /\ Cardinality(0 .. n - 1) = n
    <2>1. 0 \in Int /\ n - 1 \in Int /\ ~(0 > n - 1) /\ (n - 1) - 0 + 1 = n
      BY <1>1
    <2> HIDE DEF n
    <2> QED BY <2>1, FS_Interval
  <1>4. IsFiniteSet(P) /\ Cardinality(P) = Cardinality(BlockIds) * n
    <2> HIDE DEF n
    <2> QED BY <1>2, <1>3, FS_Product
  <1>5. f \in Surjection(P, all)
    <2> HIDE DEF n
    <2>1. f \in [P -> all]
      BY DEF NodesIn
    <2>2. \A x \in all : \E p \in P : f[p] = x
      <3> TAKE x \in all
      <3>1. PICK b \in BlockIds, k \in 0 .. n - 1 : x = [block |-> b, index |-> k]
        BY DEF NodesIn
      <3>2. <<b, k>> \in P /\ f[<<b, k>>] = x
        BY <3>1
      <3> QED BY <3>2
    <2> HIDE DEF f, P, all
    <2> QED BY <2>1, <2>2 DEF Surjection
  <1>6. IsFiniteSet(all) /\ Cardinality(all) <= Cardinality(P)
    <2> HIDE DEF f, P, all
    <2> QED BY <1>4, <1>5, FS_Surjection
  <1>7. out \in SUBSET all
    <2>1. out \subseteq NodesIn(B, n)
      OBVIOUS
    <2> HIDE DEF n
    <2> QED BY <2>1 DEF NodesIn
  <1>8. IsFiniteSet(out) /\ Cardinality(out) <= Cardinality(all)
    <2> HIDE DEF all
    <2> QED BY <1>6, <1>7, FS_Subset
  <1>9. Cardinality(out) \in Nat /\ Cardinality(all) \in Nat
    <2> HIDE DEF all
    <2> QED BY <1>6, <1>8, FS_CardinalityType
  <1>10. Cardinality(BlockIds) * n < Top
    BY CountsFit DEF Top
  <1>11. Top \in Nat /\ Cardinality(BlockIds) * n \in Nat
    BY SegmentPowers, <1>1, <1>2
  <1> HIDE DEF n, P, all
  <1> QED BY <1>4, <1>6, <1>8, <1>9, <1>10, <1>11

\* So are those held, and those lost.
LEMMA HeldCounted ==
  ASSUME NEW l \in Layouts, NEW B, B \subseteq BlockIds, NEW list, NEW size, NEW out,
         Conserved(l.perBlock, B, list, size, out)
  PROVE  /\ IsFiniteSet(out) /\ Cardinality(out) \in Nat /\ Cardinality(out) < Top
         /\ LET lost == Unlinked(l.perBlock, B, list, out) IN
            IsFiniteSet(lost) /\ Cardinality(lost) \in Nat
         /\ Len(list) \in Nat /\ size \in Nat
  <1> DEFINE lost == Unlinked(l.perBlock, B, list, out)
  <1>1. out \subseteq NodesIn(B, l.perBlock)
    BY DEF Conserved
  <1>2. lost \subseteq NodesIn(B, l.perBlock)
    BY DEF Unlinked
  <1>3. Len(list) \in Nat /\ size = Len(list) + Cardinality(lost)
    BY DEF Conserved
  <1> HIDE DEF lost
  <1>4. IsFiniteSet(lost) /\ Cardinality(lost) \in Nat
    BY <1>2, NodesFew
  <1>5. IsFiniteSet(out) /\ Cardinality(out) \in Nat /\ Cardinality(out) < Top
    BY <1>1, NodesFew
  <1>6. size \in Nat
    BY <1>3, <1>4
  <1> QED BY <1>3, <1>4, <1>5, <1>6 DEF lost

\* What a constructed pool reads from its words.
LEMMA PoolReads ==
  ASSUME IInv, layout # NoLayout
  PROVE  /\ layout \in Layouts /\ NodesPerBlock = layout.perBlock /\ RealNodeSize = FixedSize(layout)
         /\ Allocated = Cardinality(held) /\ IsFiniteSet(held) /\ Cardinality(held) \in Nat
         /\ allocatedWord \div Top = (AlignedShift(layout) \div (Segment * Segment)) % Segment
         /\ Segment * 2 ^ Load(nodeSizeWord, perBlockWord, allocatedWord) = Larger(layout.align, Segment)
  <1>1. /\ layout \in Layouts
        /\ Packed(layout, nodeSizeWord, perBlockWord, allocatedWord, Cardinality(held))
        /\ MemorySound(layout, blocks, free, freeSize, lent, held)
    BY DEF IInv
  <1>2. ToSet(blocks) \subseteq BlockIds
    BY <1>1 DEF MemorySound, ToSet
  <1>3. IsFiniteSet(held) /\ Cardinality(held) \in Nat /\ Cardinality(held) < Top
    BY <1>1, <1>2, HeldCounted DEF MemorySound
  <1>4. /\ nodeSizeWord - (nodeSizeWord % Segment) = FixedSize(layout)
        /\ perBlockWord % Top = layout.perBlock /\ allocatedWord % Top = Cardinality(held)
        /\ allocatedWord \div Top = (AlignedShift(layout) \div (Segment * Segment)) % Segment
        /\ Load(nodeSizeWord, perBlockWord, allocatedWord) = AlignedShift(layout)
    BY <1>1, <1>3, Unpacked
  <1>5. Segment * 2 ^ AlignedShift(layout) = Larger(layout.align, Segment)
    BY <1>1, AlignedShiftOf
  <1> QED BY <1>1, <1>3, <1>4, <1>5 DEF NodesPerBlock, RealNodeSize, Allocated

\* The list's count is a number, as what it counts are.
LEMMA FreeSizeTyped ==
  ASSUME IInv, layout # NoLayout
  PROVE  /\ freeSize \in Nat /\ Len(free) \in Nat
         /\ IsFiniteSet(Lost) /\ Cardinality(Lost) \in Nat /\ freeSize = Len(free) + Cardinality(Lost)
  <1>1. MemorySound(layout, blocks, free, freeSize, lent, held) /\ layout \in Layouts
    BY DEF IInv
  <1>2. Conserved(layout.perBlock, ToSet(blocks), free, freeSize, held) /\ ToSet(blocks) \subseteq BlockIds
    BY <1>1 DEF MemorySound, ToSet
  <1>3. Lost = Unlinked(layout.perBlock, ToSet(blocks), free, held)
    BY PoolReads, LostIs
  <1>4. freeSize = Len(free) + Cardinality(Lost)
    BY <1>2, <1>3 DEF Conserved
  <1> QED BY <1>1, <1>2, <1>3, <1>4, HeldCounted

-----------------------------------------------------------------------------
(* New blocks *)

\* A new block's nodes, each once.
LEMMA NodesOfBlock ==
  ASSUME NEW b \in BlockIds, NodesPerBlock \in Nat, NodesPerBlock < Top
  PROVE  /\ NodesOf(b) \in Seq(Nodes) /\ Len(NodesOf(b)) = NodesPerBlock /\ Distinct(NodesOf(b))
         /\ ToSet(NodesOf(b)) = NodesIn({b}, NodesPerBlock)
  <1> DEFINE n == NodesPerBlock
             s == NodesOf(b)
  <1>1. s = [k \in 1 .. n |-> [block |-> b, index |-> n - k]]
    BY DEF NodesOf
  <1> HIDE DEF s
  <1>2. n \in Nat /\ n < Top
    OBVIOUS
  <1> HIDE DEF n
  <1>3. \A k \in 1 .. n : n - k \in 0 .. n - 1 /\ n - k \in 0 .. Top
    BY <1>2, SegmentPowers
  <1>4. s \in [1 .. n -> Nodes]
    BY <1>1, <1>3 DEF Nodes
  <1>5. s \in Seq(Nodes) /\ Len(s) = n /\ DOMAIN s = 1 .. n
    BY <1>2, <1>4
  <1>6. \A k \in 1 .. n : s[k] = [block |-> b, index |-> n - k]
    BY <1>1
  <1>7. Distinct(s)
    <2> SUFFICES ASSUME NEW i \in 1 .. n, NEW j \in 1 .. n, s[i] = s[j] PROVE i = j
      BY <1>5 DEF Distinct
    <2>1. [block |-> b, index |-> n - i] = [block |-> b, index |-> n - j]
      BY <1>6
    <2> DEFINE x == n - i
               y == n - j
    <2>2. x = y
      <3>1. [block |-> b, index |-> x] = [block |-> b, index |-> y]
        BY <2>1
      <3> HIDE DEF x, y
      <3> QED BY <3>1
    <2> QED BY <2>2, <1>2
  <1>8. ToSet(s) = NodesIn({b}, n)
    <2>1. \A x : x \in NodesIn({b}, n) <=> \E k \in 0 .. n - 1 : x = [block |-> b, index |-> k]
      BY DEF NodesIn
    <2>2. \A x : x \in ToSet(s) <=> \E k \in 1 .. n : x = s[k]
      BY <1>5 DEF ToSet
    <2>3. ASSUME NEW x \in ToSet(s) PROVE x \in NodesIn({b}, n)
      <3>1. PICK k \in 1 .. n : x = s[k]
        BY <2>2
      <3> QED BY <1>3, <1>6, <2>1, <3>1
    <2>4. ASSUME NEW x \in NodesIn({b}, n) PROVE x \in ToSet(s)
      <3>1. PICK k \in 0 .. n - 1 : x = [block |-> b, index |-> k]
        BY <2>1
      <3>2. n - k \in 1 .. n /\ n - (n - k) = k
        BY <1>2
      <3>3. s[n - k] = x
        BY <1>6, <3>1, <3>2
      <3> QED BY <2>2, <3>2, <3>3
    <2> QED BY <2>3, <2>4
  <1> QED BY <1>5, <1>7, <1>8 DEF s, n

\* What a turn of the loop that makes blocks works on.
Memory == [blocks : Seq(BlockIds), free : Seq(Nodes), size : Nat, lent : Loans]

\* The loan of a new block.
LoanFor(l) == [bytes |-> l.perBlock * FixedSize(l) + ListNodeSize, align |-> Larger(l.align, Segment)]
AlsoLent(lt, b, loan) == [x \in DOMAIN lt \cup {b} |-> IF x # b THEN lt[x] ELSE loan]

LEMMA LoanOf ==
  ASSUME IInv, layout # NoLayout, NEW s, NEW b
  PROVE  WithBlock(s, b).lent = AlsoLent(s.lent, b, LoanFor(layout))
  <1>1. /\ layout \in Layouts /\ NodesPerBlock = layout.perBlock /\ RealNodeSize = FixedSize(layout)
        /\ Segment * 2 ^ Load(nodeSizeWord, perBlockWord, allocatedWord) = Larger(layout.align, Segment)
    BY PoolReads
  <1>2. FixedSize(layout) \in Nat /\ layout.perBlock \in Nat
    BY <1>1, FixedSizeFits, LayoutTyped
  <1>3. BlockSize = layout.perBlock * FixedSize(layout)
    BY <1>1, <1>2 DEF BlockSize
  <1> QED BY <1>1, <1>3 DEF WithBlock, AlsoLent, LoanFor

LEMMA WithBlockTyped ==
  ASSUME IInv, layout # NoLayout, NEW s \in Memory, NEW b \in BlockIds
  PROVE  WithBlock(s, b) \in Memory
  <1> DEFINE loan == LoanFor(layout)
             lt == AlsoLent(s.lent, b, loan)
  <1>1. layout \in Layouts /\ NodesPerBlock = layout.perBlock
    BY PoolReads
  <1>2. s.blocks \in Seq(BlockIds) /\ s.free \in Seq(Nodes) /\ s.size \in Nat /\ s.lent \in Loans
    BY DEF Memory
  <1>3. loan \in Loan
    <2>1. layout.perBlock * FixedSize(layout) + ListNodeSize \in Nat
      BY <1>1, FixedSizeFits, LayoutTyped, NodePoolAssumption
    <2>2. Larger(layout.align, Segment) \in Nat
      BY <1>1, LayoutTyped, SegmentPowers DEF Larger
    <2> QED BY <2>1, <2>2 DEF Loan, LoanFor
  <1> HIDE DEF loan
  <1>4. PICK D \in SUBSET BlockIds : s.lent \in [D -> Loan]
    BY <1>2 DEF Loans
  <1>5. lt \in [D \cup {b} -> Loan] /\ D \cup {b} \in SUBSET BlockIds
    BY <1>3, <1>4 DEF AlsoLent
  <1>6. lt \in Loans
    <2> HIDE DEF lt
    <2> QED BY <1>5 DEF Loans
  <1>7. NodesOf(b) \o s.free \in Seq(Nodes) /\ <<b>> \o s.blocks \in Seq(BlockIds)
    <2>1. NodesOf(b) \in Seq(Nodes)
      BY <1>1, LayoutTyped, NodesOfBlock
    <2> QED BY <1>2, <2>1
  <1>8. WithBlock(s, b).lent = lt
    BY LoanOf DEF loan
  <1> HIDE DEF lt
  <1>9. WithBlock(s, b) = [blocks |-> <<b>> \o s.blocks, free |-> NodesOf(b) \o s.free,
                           size |-> s.size + NodesPerBlock, lent |-> WithBlock(s, b).lent]
    BY DEF WithBlock
  <1> DEFINE bl == <<b>> \o s.blocks
             fr == NodesOf(b) \o s.free
             sz == s.size + NodesPerBlock
  <1>10. WithBlock(s, b) = [blocks |-> bl, free |-> fr, size |-> sz, lent |-> lt]
    BY <1>8, <1>9
  <1>11. bl \in Seq(BlockIds) /\ fr \in Seq(Nodes) /\ sz \in Nat
    BY <1>1, <1>2, <1>7, LayoutTyped
  <1> HIDE DEF bl, fr, sz
  <1> QED BY <1>6, <1>10, <1>11 DEF Memory

\* priv_alloc_block: one block more, with all its nodes free.
LEMMA WithBlockSound ==
  ASSUME IInv, layout # NoLayout, NEW s \in Memory, NEW b \in BlockIds, b \notin DOMAIN s.lent,
         MemorySound(layout, s.blocks, s.free, s.size, s.lent, held)
  PROVE  LET t == WithBlock(s, b)
             m == layout.perBlock
         IN  /\ MemorySound(layout, t.blocks, t.free, t.size, t.lent, held)
             /\ t.size = s.size + m /\ DOMAIN t.lent = DOMAIN s.lent \cup {b}
             /\ Unlinked(m, ToSet(t.blocks), t.free, held) = Unlinked(m, ToSet(s.blocks), s.free, held)
  <1> DEFINE t == WithBlock(s, b)
             n == layout.perBlock
             loan == LoanFor(layout)
             new == NodesOf(b)
  <1>1. layout \in Layouts /\ NodesPerBlock = n /\ n \in Nat \ {0} /\ n < Top
    BY PoolReads, LayoutTyped
  <1>2. /\ t \in Memory /\ t.blocks = <<b>> \o s.blocks /\ t.free = new \o s.free
        /\ t.size = s.size + n
    <2>1. t \in Memory
      BY WithBlockTyped
    <2> DEFINE bl == <<b>> \o s.blocks
               fr == new \o s.free
               sz == s.size + n
               lt == t.lent
    <2>2. t = [blocks |-> bl, free |-> fr, size |-> sz, lent |-> lt]
      BY <1>1 DEF WithBlock
    <2> HIDE DEF bl, fr, sz, lt, t
    <2>3. t.blocks = bl /\ t.free = fr /\ t.size = sz
      BY <2>2
    <2> QED BY <2>1, <2>3 DEF bl, fr, sz, t
  <1>3. t.lent = AlsoLent(s.lent, b, loan)
    BY LoanOf
  <1>4. /\ s.blocks \in Seq(BlockIds) /\ Distinct(s.blocks) /\ ToSet(s.blocks) = DOMAIN s.lent
        /\ LentAs(layout, s.lent) /\ Conserved(n, ToSet(s.blocks), s.free, s.size, held)
    BY DEF MemorySound
  <1>5. t.lent \in Loans
    BY <1>2 DEF Memory
  <1>6. DOMAIN t.lent = DOMAIN s.lent \cup {b} /\ LentAs(layout, t.lent)
    <2> HIDE DEF t
    <2> QED BY <1>3, <1>4 DEF LentAs, AlsoLent, LoanFor
  <1> HIDE DEF t, loan
  <1>7. /\ t.blocks \in Seq(BlockIds) /\ Distinct(t.blocks)
        /\ ToSet(t.blocks) = ToSet(s.blocks) \cup {b}
    <2> DEFINE bl == s.blocks
    <2>1. bl \in Seq(BlockIds) /\ Distinct(bl) /\ b \notin ToSet(bl)
      BY <1>4
    <2>2. t.blocks = <<b>> \o bl
      BY <1>2
    <2> HIDE DEF bl
    <2>3. <<b>> \o bl \in Seq(BlockIds) /\ Distinct(<<b>> \o bl) /\ ToSet(<<b>> \o bl) = ToSet(bl) \cup {b}
      BY <2>1, PrependDistinct
    <2> QED BY <2>2, <2>3 DEF bl
  <1>8. /\ new \in Seq(Nodes) /\ Len(new) = n /\ Distinct(new) /\ ToSet(new) = NodesIn({b}, n)
    BY <1>1, NodesOfBlock
  <1> HIDE DEF new
  <1>9. /\ s.free \in Seq(Nodes) /\ Distinct(s.free) /\ ToSet(s.free) \cap held = {}
        /\ ToSet(s.free) \cup held \subseteq NodesIn(ToSet(s.blocks), n)
        /\ s.size = Len(s.free) + Cardinality(Unlinked(n, ToSet(s.blocks), s.free, held))
    BY <1>4 DEF Conserved
  <1>10. NodesIn({b}, n) \cap NodesIn(ToSet(s.blocks), n) = {}
    <2> SUFFICES ASSUME NEW x \in NodesIn({b}, n), x \in NodesIn(ToSet(s.blocks), n) PROVE FALSE
      OBVIOUS
    <2>1. x.block \in {b} /\ x.block \in ToSet(s.blocks)
      BY <1>1, InNodesIn
    <2> QED BY <2>1, <1>4
  <1>11. NodesIn(ToSet(t.blocks), n) = NodesIn(ToSet(s.blocks), n) \cup NodesIn({b}, n)
    BY <1>1, <1>7, NodesInMore
  <1>12. /\ t.free \in Seq(Nodes) /\ Distinct(t.free) /\ ToSet(t.free) = ToSet(new) \cup ToSet(s.free)
         /\ Len(t.free) = Len(new) + Len(s.free)
    <2> DEFINE fr == s.free
    <2>1. fr \in Seq(Nodes) /\ Distinct(fr) /\ ToSet(new) \cap ToSet(fr) = {}
      BY <1>8, <1>9, <1>10
    <2>2. t.free = new \o fr
      BY <1>2
    <2> HIDE DEF fr
    <2>3. /\ new \o fr \in Seq(Nodes) /\ Distinct(new \o fr) /\ ToSet(new \o fr) = ToSet(new) \cup ToSet(fr)
          /\ Len(new \o fr) = Len(new) + Len(fr)
      BY <1>8, <2>1, JoinDistinct
    <2> QED BY <2>2, <2>3 DEF fr
  <1> DEFINE lost == Unlinked(n, ToSet(s.blocks), s.free, held)
  <1>13. Unlinked(n, ToSet(t.blocks), t.free, held) = lost
    BY <1>8, <1>9, <1>10, <1>11, <1>12 DEF Unlinked
  <1>14. Conserved(n, ToSet(t.blocks), t.free, t.size, held)
    <2>1. ToSet(t.free) \cap held = {}
      BY <1>8, <1>9, <1>10, <1>12
    <2>2. ToSet(t.free) \cup held \subseteq NodesIn(ToSet(t.blocks), n)
      BY <1>8, <1>9, <1>11, <1>12
    <2>3. Len(s.free) \in Nat /\ Cardinality(lost) \in Nat
      <3>1. ToSet(s.blocks) \subseteq BlockIds
        BY <1>4 DEF ToSet
      <3> QED BY <1>1, <1>4, <3>1, HeldCounted
    <2> HIDE DEF lost
    <2>4. t.size = Len(t.free) + Cardinality(lost)
      <3> DEFINE a == Len(s.free)
                 c == Cardinality(lost)
      <3>1. a \in Nat /\ c \in Nat /\ s.size = a + c /\ Len(t.free) = n + a
        BY <1>8, <1>9, <1>12, <2>3 DEF lost
      <3> HIDE DEF a, c, n
      <3> QED BY <1>1, <1>2, <3>1 DEF c
    <2> QED BY <1>12, <1>13, <2>1, <2>2, <2>4 DEF Conserved
  <1>15. MemorySound(layout, t.blocks, t.free, t.size, t.lent, held)
    BY <1>4, <1>5, <1>6, <1>7, <1>14 DEF MemorySound
  <1> QED BY <1>2, <1>6, <1>13, <1>15 DEF t

\* The turns of priv_alloc_block.
LEMMA AddTurns ==
  ASSUME NEW k \in Nat, NEW seq \in [1 .. k -> BlockIds],
         Now \in Memory, \A s \in Memory, b \in BlockIds : WithBlock(s, b) \in Memory
  PROVE  \E f : /\ f \in [0 .. k -> Memory]
                /\ f[0] = Now /\ f[k] = WithBlocks(seq)
                /\ \A i \in 1 .. k : f[i] = WithBlock(f[i - 1], seq[i])
  <1> DEFINE n == k
             S == Memory
             base == Now
             step == [p \in (1 .. n) \X S |-> WithBlock(p[2], seq[p[1]])]
             body(it) == [t \in SUBSET DOMAIN seq |->
                            IF t = {} THEN base
                            ELSE LET x == Max(t) IN WithBlock(it[t \ {x}], seq[x])]
             iter == CHOOSE it : it = body(it)
             f == [i \in 0 .. n |-> iter[1 .. i]]
  <1>1. n \in Nat /\ DOMAIN seq = 1 .. n
    OBVIOUS
  <1>2. base \in S /\ IsTurn(step, n, S) /\ \A i \in 1 .. n, s \in S : step[<<i, s>>] = WithBlock(s, seq[i])
    <2> HIDE DEF S, base
    <2>1. base \in S /\ \A i \in 1 .. n, s \in S : WithBlock(s, seq[i]) \in S
      BY DEF S, base
    <2> QED BY <2>1 DEF IsTurn
  <1> HIDE DEF step, S, n, base
  <1>3. PICK it : Folds(it, step, base, n, S)
    BY <1>1, <1>2, FoldExists
  <1>4. it = body(it)
    <2>1. \A t \in SUBSET (1 .. n) : it[t] = body(it)[t]
      <3> TAKE t \in SUBSET (1 .. n)
      <3>1. CASE t = {}
        BY <1>1, <1>3, <3>1 DEF Folds
      <3>2. CASE t # {}
        <4> DEFINE x == Max(t)
        <4>1. x \in 1 .. n
          BY <1>1, <3>2, MaxOf
        <4> HIDE DEF x
        <4>2. t \ {x} \in SUBSET (1 .. n) /\ it[t \ {x}] \in S
          BY <1>3 DEF Folds
        <4>3. it[t] = step[<<x, it[t \ {x}]>>]
          BY <1>3, <3>2 DEF Folds, x
        <4>4. it[t] = WithBlock(it[t \ {x}], seq[x])
          BY <1>2, <4>1, <4>2, <4>3
        <4> QED BY <1>1, <3>2, <4>4 DEF x
      <3> QED BY <3>1, <3>2
    <2>2. it = [t \in SUBSET (1 .. n) |-> it[t]]
      BY <1>3 DEF Folds
    <2> HIDE DEF body
    <2>3. body(it) = [t \in SUBSET (1 .. n) |-> body(it)[t]]
      BY <1>1 DEF body
    <2> QED BY <2>1, <2>2, <2>3
  <1>5. iter = body(iter)
    <2> HIDE DEF body
    <2> QED BY <1>4
  <1>6. WithBlocks(seq) = iter[DOMAIN seq]
    BY DEF WithBlocks, FoldLeft, MapThenFoldSet, base
  <1>7. f[0] = base /\ f[n] = WithBlocks(seq) /\ f = [i \in 0 .. n |-> f[i]]
    <2>1. 0 \in 0 .. n /\ n \in 0 .. n /\ 1 .. 0 = {} /\ {} \in SUBSET DOMAIN seq
      BY <1>1
    <2>2. body(iter)[{}] = base
      BY <2>1
    <2> HIDE DEF iter, body
    <2> QED BY <1>1, <1>5, <1>6, <2>1, <2>2
  <1>8. ASSUME NEW i \in 1 .. n PROVE f[i] = WithBlock(f[i - 1], seq[i])
    <2> DEFINE value(g) == WithBlock(g, seq[i])
    <2>1. /\ 1 .. i # {} /\ (1 .. i) \in SUBSET (1 .. n) /\ Max(1 .. i) = i
          /\ (1 .. i) \ {i} = 1 .. (i - 1) /\ i \in 0 .. n /\ i - 1 \in 0 .. n
      BY <1>1, UpTo
    <2> HIDE DEF iter
    <2>2. body(iter)[1 .. i] = value(iter[1 .. (i - 1)])
      BY <1>1, <2>1
    <2>3. iter[1 .. i] = value(iter[1 .. (i - 1)])
      <3> HIDE DEF body, value
      <3> QED BY <1>5, <2>2
    <2>4. f[i] = iter[1 .. i] /\ f[i - 1] = iter[1 .. (i - 1)]
      BY <2>1
    <2> HIDE DEF f
    <2> QED BY <2>3, <2>4
  <1> HIDE DEF f, iter, body
  <1>9. f \in [0 .. n -> S]
    <2> DEFINE T == {i \in 0 .. n : f[i] \in S}
    <2>1. 0 \in T
      BY <1>1, <1>2, <1>7
    <2>2. ASSUME NEW i \in 1 .. n, i - 1 \in T PROVE i \in T
      <3>1. f[i] = step[<<i, f[i - 1]>>]
        BY <1>2, <1>8, <2>2
      <3>2. f[i] \in S
        BY <1>2, <2>2, <3>1 DEF IsTurn
      <3> QED BY <3>2
    <2> HIDE DEF T
    <2>3. \A i \in 0 .. n : i \in T
      BY <1>1, <2>1, <2>2, Induction
    <2> QED BY <1>7, <2>3 DEF T
  <1> QED BY <1>7, <1>8, <1>9 DEF S, n, base

\* The loop: k blocks more.
LEMMA WithBlocksSound ==
  ASSUME IInv, layout # NoLayout, NEW k \in Nat, NEW seq \in BlockSequences(k)
  PROVE  LET s == WithBlocks(seq) IN
         /\ MemorySound(layout, s.blocks, s.free, s.size, s.lent, held)
         /\ s.size = freeSize + k * layout.perBlock
         /\ Unlinked(layout.perBlock, ToSet(s.blocks), s.free, held) = Lost
  <1> DEFINE n == layout.perBlock
  <1>1. /\ seq \in [1 .. k -> BlockIds \ DOMAIN lent]
        /\ \A i, j \in 1 .. k : seq[i] = seq[j] => i = j
    BY DEF BlockSequences
  <1>2. MemorySound(layout, blocks, free, freeSize, lent, held) /\ n \in Nat \ {0}
    BY PoolReads, LayoutTyped DEF IInv
  <1>3. freeSize \in Nat
    BY FreeSizeTyped
  <1>4. Now \in Memory
    BY <1>2, <1>3 DEF MemorySound, Conserved, Memory, Now
  <1>5. \A s \in Memory, b \in BlockIds : WithBlock(s, b) \in Memory
    BY WithBlockTyped
  <1>6. PICK f : /\ f \in [0 .. k -> Memory]
                 /\ f[0] = Now /\ f[k] = WithBlocks(seq)
                 /\ \A i \in 1 .. k : f[i] = WithBlock(f[i - 1], seq[i])
    <2>1. seq \in [1 .. k -> BlockIds]
      BY <1>1
    <2> QED BY <1>4, <1>5, <2>1, AddTurns
  <1> DEFINE Right(i) ==
               /\ MemorySound(layout, f[i].blocks, f[i].free, f[i].size, f[i].lent, held)
               /\ f[i].size = freeSize + i * n
               /\ Unlinked(n, ToSet(f[i].blocks), f[i].free, held) = Lost
               /\ \A b \in DOMAIN f[i].lent : b \in DOMAIN lent \/ \E j \in 1 .. i : b = seq[j]
             T == {i \in 0 .. k : Right(i)}
  <1>7. NodesPerBlock = n
    BY PoolReads
  <1> HIDE DEF n
  <1>8. 0 \in T
    <2>1. f[0].blocks = blocks /\ f[0].free = free /\ f[0].size = freeSize /\ f[0].lent = lent
      BY <1>6 DEF Now
    <2>2. freeSize = freeSize + 0 * n /\ 0 \in 0 .. k
      BY <1>2, <1>3
    <2> QED BY <1>2, <1>7, <2>1, <2>2, LostIs
  <1>9. ASSUME NEW i \in 1 .. k, i - 1 \in T PROVE i \in T
    <2> DEFINE s == f[i - 1]
               b == seq[i]
               t == WithBlock(s, b)
    <2>1. s \in Memory /\ f[i] = t /\ i \in 0 .. k
      BY <1>6, <1>9
    <2>2. /\ MemorySound(layout, s.blocks, s.free, s.size, s.lent, held)
          /\ s.size = freeSize + (i - 1) * n
          /\ Unlinked(n, ToSet(s.blocks), s.free, held) = Lost
          /\ \A x \in DOMAIN s.lent : x \in DOMAIN lent \/ \E j \in 1 .. (i - 1) : x = seq[j]
      BY <1>9
    <2>3. b \in BlockIds /\ b \notin DOMAIN lent /\ \A j \in 1 .. (i - 1) : b # seq[j]
      BY <1>1
    <2>4. b \notin DOMAIN s.lent
      BY <2>2, <2>3
    <2> HIDE DEF s, b, t
    <2>5. /\ MemorySound(layout, t.blocks, t.free, t.size, t.lent, held)
          /\ t.size = s.size + n /\ DOMAIN t.lent = DOMAIN s.lent \cup {b}
          /\ Unlinked(n, ToSet(t.blocks), t.free, held) = Unlinked(n, ToSet(s.blocks), s.free, held)
      BY <2>1, <2>2, <2>3, <2>4, WithBlockSound DEF t, n
    <2>6. f[i].size = freeSize + i * n
      BY <1>2, <1>3, <2>1, <2>2, <2>5 DEF n
    <2>7. \A x \in DOMAIN f[i].lent : x \in DOMAIN lent \/ \E j \in 1 .. i : x = seq[j]
      <3>1. \A j \in 1 .. (i - 1) : j \in 1 .. i
        OBVIOUS
      <3>2. i \in 1 .. i /\ b = seq[i]
        BY DEF b
      <3> QED BY <2>1, <2>2, <2>5, <3>1, <3>2
    <2> QED BY <2>1, <2>2, <2>5, <2>6, <2>7
  <1>10. Right(k)
    <2> HIDE DEF T
    <2>1. \A i \in 0 .. k : i \in T
      BY <1>8, <1>9, Induction
    <2>2. k \in 0 .. k
      OBVIOUS
    <2> QED BY <2>1, <2>2 DEF T
  <1> QED BY <1>6, <1>10 DEF n

-----------------------------------------------------------------------------
(* Every step keeps the invariant *)

\* The first nodes of the free list are handed out with their number, blocks
\* being added first where the list is too short.
LEMMA EnoughBlocks ==
  ASSUME IInv, layout # NoLayout, NEW n \in Batches
  PROVE  BlocksNeeded(n) \in Nat /\ n <= freeSize + BlocksNeeded(n) * layout.perBlock
  <1> DEFINE m == layout.perBlock
             k == BlocksNeeded(n)
             short == n - freeSize
  <1>1. m \in Nat \ {0} /\ NodesPerBlock = m /\ n \in Nat \ {0} /\ freeSize \in Nat
    BY PoolReads, LayoutTyped, NodePoolAssumption, FreeSizeTyped
  <1>2. CASE freeSize < n
    <2>1. short \in Nat \ {0} /\ k = (short - 1) \div m + 1
      BY <1>1, <1>2 DEF BlocksNeeded
    <2> HIDE DEF m, k, short
    <2>2. RoundedSize(short, m) = k * m
      BY <2>1 DEF RoundedSize
    <2>3. short <= k * m
      BY <1>1, <2>1, <2>2, RoundedSizeUp
    <2>4. k \in Nat
      <3> DEFINE a == short - 1
      <3>1. a \in Nat
        BY <2>1
      <3> HIDE DEF a
      <3>2. a \div m \in Nat
        BY <1>1, <3>1
      <3> QED BY <2>1, <3>2 DEF a
    <2>5. n = freeSize + short
      BY <1>1, <2>1 DEF short
    <2>6. k * m \in Nat
      BY <1>1, <2>4
    <2> DEFINE all == k * m
    <2>7. n <= freeSize + all
      <3> HIDE DEF all
      <3> QED BY <1>1, <2>1, <2>3, <2>5, <2>6 DEF all
    <2> QED BY <2>4, <2>7 DEF m, k
  <1>3. CASE ~(freeSize < n)
    BY <1>1, <1>3 DEF BlocksNeeded
  <1> QED BY <1>2, <1>3

LEMMA CountStored ==
  ASSUME IInv, layout # NoLayout, NEW n, SetAllocated(n),
         nodeSizeWord' = nodeSizeWord, perBlockWord' = perBlockWord
  PROVE  Packed(layout, nodeSizeWord', perBlockWord', allocatedWord', n)
  <1>1. allocatedWord' = PackHigh(n, (AlignedShift(layout) \div (Segment * Segment)) % Segment)
    BY PoolReads DEF SetAllocated
  <1>2. Packed(layout, nodeSizeWord, perBlockWord, allocatedWord, Cardinality(held))
    BY DEF IInv
  <1> QED BY <1>1, <1>2 DEF Packed

\* A batch is out of the free list, and more are held.
LEMMA Given ==
  ASSUME NEW l \in Layouts, NEW n \in Nat, NEW bl, NEW list, NEW size, NEW lt,
         MemorySound(l, bl, list, size, lt, held), n <= Len(list)
  PROVE  LET rest == RestAfter(list, n)
             more == FirstOf(list, n)
             m    == l.perBlock
         IN  /\ MemorySound(l, bl, rest, size - n, lt, held \cup more)
             /\ Unlinked(m, ToSet(bl), rest, held \cup more) = Unlinked(m, ToSet(bl), list, held)
             /\ more \subseteq Nodes /\ more \cap held = {} /\ Cardinality(more) = n
             /\ Cardinality(held \cup more) = Cardinality(held) + n
  <1> DEFINE rest == RestAfter(list, n)
             more == FirstOf(list, n)
             m == l.perBlock
             lost == Unlinked(m, ToSet(bl), list, held)
  <1>1. Conserved(m, ToSet(bl), list, size, held) /\ ToSet(bl) \subseteq BlockIds
    BY DEF MemorySound, ToSet
  <1>2. /\ list \in Seq(Nodes) /\ Distinct(list) /\ ToSet(list) \cap held = {}
        /\ ToSet(list) \cup held \subseteq NodesIn(ToSet(bl), m)
        /\ size = Len(list) + Cardinality(lost)
    BY <1>1 DEF Conserved
  <1>3. /\ IsFiniteSet(held) /\ Cardinality(held) \in Nat /\ Cardinality(lost) \in Nat
        /\ Len(list) \in Nat /\ size \in Nat
    BY <1>1, HeldCounted
  <1>4. /\ rest \in Seq(Nodes) /\ Distinct(rest) /\ more \subseteq Nodes
        /\ IsFiniteSet(more) /\ Cardinality(more) = n
        /\ ToSet(list) = ToSet(rest) \cup more /\ ToSet(rest) \cap more = {}
        /\ Len(rest) = Len(list) - n
    <2> DEFINE u == FirstOf(list, n)
               t == SubSeq(list, n + 1, Len(list))
    <2>1. /\ t \in Seq(Nodes) /\ Distinct(t) /\ u \subseteq Nodes /\ IsFiniteSet(u) /\ Cardinality(u) = n
          /\ ToSet(list) = ToSet(t) \cup u /\ ToSet(t) \cap u = {}
      <3> HIDE DEF more, rest
      <3>1. list \in Seq(Nodes) /\ Distinct(list) /\ n \in Nat /\ n <= Len(list)
        BY <1>2
      <3> QED BY <3>1, RestDistinct
    <2>2. Len(t) = Len(list) - n
      BY <1>2
    <2>3. rest = t /\ more = u
      BY DEF RestAfter
    <2> QED BY <2>1, <2>2, <2>3
  <1> HIDE DEF rest, more, lost
  <1>5. more \cap held = {}
    BY <1>2, <1>4
  <1>6. Unlinked(m, ToSet(bl), rest, held \cup more) = lost
    BY <1>4 DEF Unlinked, lost
  <1>7. Conserved(m, ToSet(bl), rest, size - n, held \cup more)
    <2>1. size - n = Len(rest) + Cardinality(lost)
      BY <1>2, <1>3, <1>4
    <2> QED BY <1>2, <1>4, <1>6, <2>1 DEF Conserved
  <1>8. MemorySound(l, bl, rest, size - n, lt, held \cup more)
    BY <1>7 DEF MemorySound
  <1>9. Cardinality(held \cup more) = Cardinality(held) + Cardinality(more) - Cardinality(held \cap more)
    BY <1>3, <1>4, FS_Union
  <1>10. held \cap more = {} /\ Cardinality({}) = 0
    BY <1>5, FS_EmptySet
  <1>11. Cardinality(held \cup more) = Cardinality(held) + n
    <2> DEFINE all == Cardinality(held \cup more)
               c == Cardinality(held)
    <2>1. all = c + n - 0 /\ c \in Nat
      BY <1>3, <1>4, <1>9, <1>10
    <2> HIDE DEF all, c
    <2>2. all = c + n
      BY <2>1
    <2> QED BY <2>2 DEF all, c
  <1> QED BY <1>4, <1>5, <1>6, <1>8, <1>11 DEF rest, more, lost

\* What giving n nodes of the list leaves, k blocks having been added to it.
Gives(n) ==
  /\ IInv' /\ layout' = layout /\ layout # NoLayout /\ Lost' = Lost
  /\ held \subseteq held' /\ held' \ held \subseteq Nodes /\ Cardinality(held' \ held) = n

LEMMA StepGive ==
  ASSUME IInv, ~pastEnd, layout # NoLayout, NEW k \in Nat, NEW seq \in BlockSequences(k), NEW n \in Nat,
         n <= Len(WithBlocks(seq).free), Give(WithBlocks(seq), n),
         UNCHANGED <<layout, nodeSizeWord, perBlockWord, pastEnd>>
  PROVE  Gives(n)
  <1>1. /\ layout \in Layouts /\ Allocated = Cardinality(held) /\ SetAllocated(Allocated + n)
        /\ NodesPerBlock = layout.perBlock /\ NodesPerBlock' = NodesPerBlock
    BY PoolReads DEF Give, NodesPerBlock
  <1> DEFINE s == WithBlocks(seq)
             more == FirstOf(s.free, n)
             m == layout.perBlock
  <1>2. /\ MemorySound(layout, s.blocks, s.free, s.size, s.lent, held)
        /\ Unlinked(m, ToSet(s.blocks), s.free, held) = Lost
    BY WithBlocksSound
  <1>3. /\ blocks' = s.blocks /\ lent' = s.lent /\ free' = RestAfter(s.free, n) /\ freeSize' = s.size - n
        /\ held' = held \cup more
    BY DEF Give, FirstOf
  <1>4. n <= Len(s.free)
    OBVIOUS
  <1> HIDE DEF s
  <1>5. /\ MemorySound(layout, blocks', free', freeSize', lent', held')
        /\ Unlinked(m, ToSet(blocks'), free', held') = Lost
        /\ more \subseteq Nodes /\ more \cap held = {} /\ Cardinality(more) = n
        /\ Cardinality(held') = Cardinality(held) + n
    <2> DEFINE list == s.free
               bl == s.blocks
               lt == s.lent
               sz == s.size
    <2>1. /\ MemorySound(layout, bl, list, sz, lt, held) /\ n <= Len(list)
          /\ Unlinked(m, ToSet(bl), list, held) = Lost
      BY <1>2, <1>4
    <2>2. more = FirstOf(list, n)
      OBVIOUS
    <2>3. /\ blocks' = bl /\ lent' = lt /\ free' = RestAfter(list, n) /\ freeSize' = sz - n
          /\ held' = held \cup more
      BY <1>3
    <2> HIDE DEF list, bl, lt, sz, more
    <2>4. /\ MemorySound(layout, bl, RestAfter(list, n), sz - n, lt, held \cup more)
          /\ Unlinked(m, ToSet(bl), RestAfter(list, n), held \cup more) = Unlinked(m, ToSet(bl), list, held)
          /\ more \subseteq Nodes /\ more \cap held = {} /\ Cardinality(more) = n
          /\ Cardinality(held \cup more) = Cardinality(held) + n
      <3> DEFINE rest == RestAfter(list, n)
                 more2 == FirstOf(list, n)
      <3>1. /\ MemorySound(layout, bl, rest, sz - n, lt, held \cup more2)
            /\ Unlinked(m, ToSet(bl), rest, held \cup more2) = Unlinked(m, ToSet(bl), list, held)
            /\ more2 \subseteq Nodes /\ more2 \cap held = {} /\ Cardinality(more2) = n
            /\ Cardinality(held \cup more2) = Cardinality(held) + n
        <4>1. layout \in Layouts /\ n \in Nat
          BY <1>1
        <4> QED BY <2>1, <4>1, Given
      <3>2. more2 = more
        BY <2>2
      <3> QED BY <3>1, <3>2
    <2> QED BY <2>1, <2>3, <2>4
  <1> HIDE DEF more
  <1>6. Packed(layout, nodeSizeWord', perBlockWord', allocatedWord', Cardinality(held'))
    BY <1>1, <1>5, CountStored
  <1>7. IInv'
    BY <1>1, <1>5, <1>6 DEF IInv
  <1>8. held' \ held = more
    BY <1>3, <1>5
  <1>9. Lost' = Lost
    BY <1>1, <1>5, LostIs
  <1> QED BY <1>1, <1>3, <1>5, <1>7, <1>8, <1>9 DEF Gives

LEMMA StepAllocate ==
  ASSUME IInv, ~pastEnd, NEW n \in Batches, AllocateNodes(n)
  PROVE  n \in Nat /\ Gives(n)
  <1>1. layout # NoLayout /\ n \in Nat /\ UNCHANGED <<layout, nodeSizeWord, perBlockWord, pastEnd>>
    BY NodePoolAssumption DEF AllocateNodes
  <1>2. PICK seq \in BlockSequences(BlocksNeeded(n)) :
          n <= Len(WithBlocks(seq).free) /\ Give(WithBlocks(seq), n)
    BY DEF AllocateNodes
  <1>3. BlocksNeeded(n) \in Nat
    BY <1>1, EnoughBlocks
  <1> QED BY <1>1, <1>2, <1>3, StepGive

\* One block is enough for one node.
LEMMA StepAllocateNode ==
  ASSUME IInv, ~pastEnd, AllocateNode
  PROVE  Gives(1)
  <1> DEFINE k == IF free = <<>> THEN 1 ELSE 0
             m == layout.perBlock
  <1>1. layout # NoLayout /\ UNCHANGED <<layout, nodeSizeWord, perBlockWord, pastEnd>>
    BY DEF AllocateNode
  <1>2. PICK seq \in BlockSequences(k) : Give(WithBlocks(seq), 1)
    BY DEF AllocateNode
  <1>3. k \in Nat /\ layout \in Layouts /\ m \in Nat \ {0} /\ NodesPerBlock = m
    BY <1>1, PoolReads, LayoutTyped
  <1> DEFINE s == WithBlocks(seq)
  <1>4. /\ MemorySound(layout, s.blocks, s.free, s.size, s.lent, held)
        /\ s.size = freeSize + k * m
        /\ Unlinked(m, ToSet(s.blocks), s.free, held) = Lost
    BY <1>1, <1>3, WithBlocksSound
  <1>5. free \in Seq(Nodes) /\ s.free \in Seq(Nodes) /\ s.size = Len(s.free) + Cardinality(Lost)
    BY <1>1, <1>4 DEF IInv, MemorySound, Conserved
  <1>6. /\ Len(free) \in Nat /\ Cardinality(Lost) \in Nat /\ freeSize = Len(free) + Cardinality(Lost)
    BY <1>1, FreeSizeTyped
  <1>7. 1 <= Len(s.free)
    <2> DEFINE a == Len(s.free)
               c == Cardinality(Lost)
               x == Len(free)
    <2>1. a \in Nat /\ c \in Nat /\ x \in Nat /\ a + c = x + c + k * m
      BY <1>4, <1>5, <1>6
    <2>2. CASE free = <<>>
      <3>1. k * m = m
        BY <1>3, <2>2
      <3> HIDE DEF a, c, x, m, s, k
      <3>2. a + c = x + c + m /\ m >= 1
        BY <1>3, <2>1, <3>1
      <3> QED BY <1>3, <2>1, <3>2 DEF a
    <2>3. CASE free # <<>>
      <3>1. k * m = 0 /\ x >= 1
        BY <1>3, <1>5, <2>3
      <3> HIDE DEF a, c, x, m, s, k
      <3>2. a + c = x + c + 0
        BY <2>1, <3>1
      <3> QED BY <2>1, <3>1, <3>2 DEF a
    <2> QED BY <2>2, <2>3
  <1> QED BY <1>1, <1>2, <1>3, <1>7, StepGive

\* A step that at most adds k blocks to the pool.
LEMMA StepAdds ==
  ASSUME IInv, layout # NoLayout, NEW k \in Nat, NEW seq \in BlockSequences(k),
         LET s == WithBlocks(seq) IN
         blocks' = s.blocks /\ lent' = s.lent /\ free' = s.free /\ freeSize' = s.size,
         UNCHANGED <<layout, nodeSizeWord, perBlockWord, allocatedWord, held>>,
         pastEnd' => Lost # {}
  PROVE  IInv' /\ Lost' = Lost
  <1> DEFINE s == WithBlocks(seq)
  <1>1. /\ layout \in Layouts /\ NodesPerBlock = layout.perBlock /\ NodesPerBlock' = NodesPerBlock
    BY PoolReads DEF NodesPerBlock
  <1>2. /\ MemorySound(layout, s.blocks, s.free, s.size, s.lent, held)
        /\ Unlinked(layout.perBlock, ToSet(s.blocks), s.free, held) = Lost
    BY WithBlocksSound
  <1>3. blocks' = s.blocks /\ lent' = s.lent /\ free' = s.free /\ freeSize' = s.size
    OBVIOUS
  <1> HIDE DEF s
  <1>4. MemorySound(layout, blocks', free', freeSize', lent', held')
    BY <1>2, <1>3
  <1>5. Lost' = Lost
    BY <1>1, <1>2, <1>3, LostIs
  <1>6. Packed(layout, nodeSizeWord, perBlockWord, allocatedWord, Cardinality(held))
    BY DEF IInv
  <1>7. layout' = layout /\ layout' # NoLayout /\ layout' \in Layouts \cup {NoLayout}
    BY <1>1
  <1> QED BY <1>4, <1>5, <1>6, <1>7 DEF IInv

LEMMA StepAllocateThrows ==
  ASSUME IInv, ~pastEnd, NEW n \in Batches, AllocateThrows(n)
  PROVE  IInv' /\ UNCHANGED <<layout, allocatedWord, held>> /\ Lost' = Lost
  <1>1. layout # NoLayout /\ UNCHANGED <<layout, nodeSizeWord, perBlockWord, allocatedWord, pastEnd, held>>
    BY DEF AllocateThrows
  <1>2. BlocksNeeded(n) \in Nat
    BY <1>1, EnoughBlocks
  <1>3. PICK k \in 0 .. BlocksNeeded(n) - 1 : \E seq \in BlockSequences(k) :
          LET s == WithBlocks(seq) IN
          blocks' = s.blocks /\ lent' = s.lent /\ free' = s.free /\ freeSize' = s.size
    BY DEF AllocateThrows
  <1>4. PICK seq \in BlockSequences(k) :
          LET s == WithBlocks(seq) IN
          blocks' = s.blocks /\ lent' = s.lent /\ free' = s.free /\ freeSize' = s.size
    BY <1>3
  <1>5. k \in Nat
    BY <1>2
  <1>6. IInv' /\ Lost' = Lost
    BY <1>1, <1>4, <1>5, StepAdds
  <1> QED BY <1>1, <1>6

\* Enough nodes are counted: that fewer are linked is because some are lost.
LEMMA StepWalks ==
  ASSUME IInv, ~pastEnd, NEW n \in Batches, WalksPastEnd(n)
  PROVE  IInv' /\ UNCHANGED <<layout, allocatedWord, held>> /\ Lost' = Lost
  <1>1. layout # NoLayout /\ n \in Nat /\ UNCHANGED <<layout, nodeSizeWord, perBlockWord, allocatedWord, held>>
    BY NodePoolAssumption DEF WalksPastEnd
  <1> DEFINE k == BlocksNeeded(n)
             m == layout.perBlock
  <1>2. k \in Nat /\ n <= freeSize + k * m /\ layout \in Layouts /\ NodesPerBlock = m
    BY <1>1, EnoughBlocks, PoolReads
  <1>3. PICK seq \in BlockSequences(k) :
          LET s == WithBlocks(seq) IN
          /\ n > Len(s.free)
          /\ blocks' = s.blocks /\ lent' = s.lent /\ free' = s.free /\ freeSize' = s.size
    BY DEF WalksPastEnd
  <1> DEFINE s == WithBlocks(seq)
  <1>4. /\ MemorySound(layout, s.blocks, s.free, s.size, s.lent, held)
        /\ s.size = freeSize + k * m
        /\ Unlinked(m, ToSet(s.blocks), s.free, held) = Lost
    BY <1>1, <1>2, WithBlocksSound
  <1>5. s.size = Len(s.free) + Cardinality(Lost) /\ Len(s.free) \in Nat
    BY <1>4 DEF MemorySound, Conserved
  <1>6. Lost # {}
    <2> SUFFICES ASSUME Lost = {} PROVE FALSE
      OBVIOUS
    <2>1. Cardinality(Lost) = 0
      BY FS_EmptySet
    <2> DEFINE a == Len(s.free)
               z == s.size
    <2>2. z = a + 0 /\ n <= z /\ n > a /\ a \in Nat
      BY <1>2, <1>3, <1>4, <1>5, <2>1
    <2> HIDE DEF a, z
    <2> QED BY <1>1, <2>2
  <1>7. /\ blocks' = s.blocks /\ lent' = s.lent /\ free' = s.free /\ freeSize' = s.size
    BY <1>3
  <1> HIDE DEF k
  <1>8. IInv' /\ Lost' = Lost
    BY <1>1, <1>2, <1>6, <1>7, StepAdds
  <1> QED BY <1>1, <1>8

LEMMA AllAreNodes ==
  ASSUME NEW l \in Layouts, NEW bl, NEW list, NEW size, NEW lt, NEW out,
         MemorySound(l, bl, list, size, lt, out)
  PROVE  out \subseteq Nodes /\ IsFiniteSet(out) /\ Cardinality(out) \in Nat
  <1>1. l.perBlock \in Nat /\ l.perBlock < Top
    BY LayoutTyped
  <1>2. Conserved(l.perBlock, ToSet(bl), list, size, out) /\ ToSet(bl) \subseteq BlockIds
    BY DEF MemorySound, ToSet
  <1>3. ASSUME NEW x \in out PROVE x \in Nodes
    <2>1. x \in NodesIn(ToSet(bl), l.perBlock)
      BY <1>2 DEF Conserved
    <2>2. /\ x.block \in ToSet(bl) /\ x.index \in 0 .. l.perBlock - 1
          /\ x = [block |-> x.block, index |-> x.index]
      BY <1>1, <2>1, InNodesIn
    <2>3. x.index \in 0 .. Top
      BY <1>1, <2>2, SegmentPowers
    <2> QED BY <1>2, <2>2, <2>3 DEF Nodes
  <1> QED BY <1>2, <1>3, HeldCounted

\* A chain is back in front of the free list.
LEMMA TakenBack ==
  ASSUME NEW l \in Layouts, MemorySound(l, blocks, free, freeSize, lent, held), NEW c \in Seq(held), Distinct(c)
  PROVE  /\ MemorySound(l, blocks, Reverse(c) \o free, freeSize + Len(c), lent, held \ ToSet(c))
         /\ Unlinked(l.perBlock, ToSet(blocks), Reverse(c) \o free, held \ ToSet(c)) =
              Unlinked(l.perBlock, ToSet(blocks), free, held)
         /\ ToSet(c) \subseteq held /\ Cardinality(ToSet(c)) = Len(c)
         /\ Cardinality(held \ ToSet(c)) = Cardinality(held) - Len(c)
  <1> DEFINE m == l.perBlock
             r == Reverse(c)
             lost == Unlinked(m, ToSet(blocks), free, held)
  <1>1. Conserved(m, ToSet(blocks), free, freeSize, held) /\ ToSet(blocks) \subseteq BlockIds
    BY DEF MemorySound, ToSet
  <1>2. /\ free \in Seq(Nodes) /\ Distinct(free) /\ ToSet(free) \cap held = {}
        /\ ToSet(free) \cup held \subseteq NodesIn(ToSet(blocks), m)
        /\ freeSize = Len(free) + Cardinality(lost)
    BY <1>1 DEF Conserved
  <1>3. Cardinality(lost) \in Nat /\ Len(free) \in Nat
    BY <1>1, HeldCounted
  <1>4. held \subseteq Nodes /\ IsFiniteSet(held) /\ Cardinality(held) \in Nat
    BY AllAreNodes
  <1>5. c \in Seq(Nodes) /\ ToSet(c) \subseteq held
    BY <1>4 DEF ToSet
  <1>6. r \in Seq(Nodes) /\ Distinct(r) /\ ToSet(r) = ToSet(c) /\ Len(r) = Len(c) /\ Len(c) \in Nat
    <2>1. Len(Reverse(c)) = Len(c)
      BY <1>5 DEF Reverse
    <2> QED BY <1>5, <2>1, ReverseDistinct
  <1> HIDE DEF r, lost
  <1>7. /\ r \o free \in Seq(Nodes) /\ Distinct(r \o free) /\ ToSet(r \o free) = ToSet(r) \cup ToSet(free)
        /\ Len(r \o free) = Len(r) + Len(free)
    <2>1. ToSet(r) \cap ToSet(free) = {}
      BY <1>2, <1>5, <1>6
    <2> QED BY <1>2, <1>6, <2>1, JoinDistinct
  <1> DEFINE list == r \o free
             out == held \ ToSet(c)
  <1>8. Unlinked(m, ToSet(blocks), list, out) = lost
    <2>1. ToSet(list) = ToSet(c) \cup ToSet(free)
      BY <1>6, <1>7
    <2> HIDE DEF list
    <2> QED BY <1>5, <2>1 DEF Unlinked, lost
  <1>9. Conserved(m, ToSet(blocks), list, freeSize + Len(c), out)
    <2>1. list \in Seq(Nodes) /\ Distinct(list) /\ ToSet(list) = ToSet(c) \cup ToSet(free)
      BY <1>6, <1>7
    <2>2. freeSize + Len(c) = Len(list) + Cardinality(lost)
      BY <1>2, <1>6, <1>7, <1>3
    <2> HIDE DEF list
    <2>3. ToSet(list) \cap out = {} /\ ToSet(list) \cup out \subseteq NodesIn(ToSet(blocks), m)
      BY <1>2, <1>5, <2>1
    <2> QED BY <2>1, <2>3, <2>2, <1>8 DEF Conserved
  <1>10. MemorySound(l, blocks, list, freeSize + Len(c), lent, out)
    <2> HIDE DEF list, out
    <2> QED BY <1>9 DEF MemorySound
  <1>11. IsFiniteSet(ToSet(c)) /\ Cardinality(ToSet(c)) = Len(c)
    BY <1>5, DistinctCount
  <1>12. Cardinality(held \ ToSet(c)) = Cardinality(held) - Cardinality(held \cap ToSet(c))
    BY <1>4, FS_Difference
  <1>13. held \cap ToSet(c) = ToSet(c)
    BY <1>5
  <1>14. Cardinality(out) = Cardinality(held) - Len(c)
    BY <1>11, <1>12, <1>13
  <1> QED BY <1>5, <1>10, <1>11, <1>14, <1>8 DEF r, lost

LEMMA StepDeallocate ==
  ASSUME IInv, ~pastEnd, NEW c \in Chains, DeallocateNodes(c)
  PROVE  /\ IInv' /\ layout' = layout /\ layout # NoLayout /\ Lost' = Lost
         /\ held' \subseteq held /\ Cardinality(held') = Cardinality(held) - Cardinality(held \ held')
  <1>1. /\ layout # NoLayout /\ layout \in Layouts
        /\ UNCHANGED <<layout, nodeSizeWord, perBlockWord, blocks, lent, pastEnd>>
        /\ NodesPerBlock = layout.perBlock /\ NodesPerBlock' = NodesPerBlock
        /\ Allocated = Cardinality(held) /\ SetAllocated(Allocated - Len(c))
        /\ free' = Reverse(c) \o free /\ freeSize' = freeSize + Len(c) /\ held' = held \ ToSet(c)
        /\ MemorySound(layout, blocks, free, freeSize, lent, held)
    BY PoolReads DEF DeallocateNodes, IInv, NodesPerBlock
  <1>2. PICK n \in Batches : c \in [1 .. n -> held] /\ \A i, j \in DOMAIN c : c[i] = c[j] => i = j
    BY DEF Chains
  <1>3. c \in Seq(held) /\ Distinct(c)
    <2>1. n \in Nat
      BY NodePoolAssumption
    <2>2. c \in Seq(held)
      BY <1>2, <2>1
    <2> QED BY <1>2, <2>2 DEF Distinct
  <1>4. /\ MemorySound(layout, blocks, free', freeSize', lent, held')
        /\ Unlinked(layout.perBlock, ToSet(blocks), free', held') = Unlinked(layout.perBlock, ToSet(blocks), free, held)
        /\ ToSet(c) \subseteq held /\ Cardinality(ToSet(c)) = Len(c)
        /\ Cardinality(held') = Cardinality(held) - Len(c)
    BY <1>1, <1>3, TakenBack
  <1>5. Packed(layout, nodeSizeWord', perBlockWord', allocatedWord', Cardinality(held'))
    BY <1>1, <1>4, CountStored
  <1>6. IInv'
    BY <1>1, <1>4, <1>5 DEF IInv
  <1>7. held \ held' = ToSet(c)
    BY <1>1, <1>4
  <1>8. Lost' = Lost
    BY <1>1, <1>4, LostIs
  <1> QED BY <1>1, <1>4, <1>6, <1>7, <1>8

\* The manager's record of some of the blocks is one of loans too.
LEMMA LoansOfSome ==
  ASSUME NEW l, NEW lt \in Loans, LentAs(l, lt), NEW B, B \subseteq DOMAIN lt
  PROVE  LET some == [b \in B |-> lt[b]] IN some \in Loans /\ LentAs(l, some) /\ DOMAIN some = B
  <1> DEFINE some == [b \in B |-> lt[b]]
  <1>1. PICK D \in SUBSET BlockIds : lt \in [D -> Loan]
    BY DEF Loans
  <1>2. some \in [B -> Loan] /\ B \in SUBSET BlockIds
    BY <1>1
  <1>3. some \in Loans
    <2> HIDE DEF some
    <2> QED BY <1>2 DEF Loans
  <1>4. LentAs(l, some)
    BY DEF LentAs
  <1> QED BY <1>3, <1>4

\* What the last splice moves, where the collected nodes are the free ones of
\* the blocks kept: nothing is lost, or all it does not move.
LEMMA SpliceCounts ==
  ASSUME NEW m \in Nat, NEW B, NEW K, NEW size, Conserved(m, B, free, size, held),
         NEW backup \in Seq(Nodes), Distinct(backup), NEW lost, IsFiniteSet(lost),
         lost = Unlinked(m, B, free, held),
         \A b : b \in K <=> b \in B /\ \E x \in held \cup lost : x.block = b,
         \A x : x \in ToSet(backup) <=> x \in ToSet(free) /\ x.block \in K
  PROVE  LET count == size - Len(free) + Len(backup) IN
         /\ Conserved(m, K, backup, count, held) /\ Unlinked(m, K, backup, held) = lost
         /\ Conserved(m, K, <<>>, count, held)
         /\ Unlinked(m, K, <<>>, held) = lost \cup ToSet(backup)
  <1> DEFINE F == ToSet(free)
             X == ToSet(backup)
             count == size - Len(free) + Len(backup)
  <1>1. /\ F \cap held = {} /\ F \cup held \subseteq NodesIn(B, m) /\ Len(free) \in Nat
        /\ size = Len(free) + Cardinality(lost)
    BY DEF Conserved
  <1>2. lost = NodesIn(B, m) \ (F \cup held)
    BY DEF Unlinked
  <1>3. \A x : x \in NodesIn(K, m) <=> x \in NodesIn(B, m) /\ x.block \in K
    <2>1. K \subseteq B
      OBVIOUS
    <2>2. NodesIn(K, m) \subseteq NodesIn(B, m)
      BY <2>1 DEF NodesIn
    <2>3. \A x \in NodesIn(K, m) : x.block \in K
      BY InNodesIn
    <2>4. ASSUME NEW x \in NodesIn(B, m), x.block \in K PROVE x \in NodesIn(K, m)
      <3>1. x.index \in 0 .. m - 1 /\ x = [block |-> x.block, index |-> x.index]
        BY InNodesIn
      <3> QED BY <2>4, <3>1 DEF NodesIn
    <2> QED BY <2>2, <2>3, <2>4
  <1>4. \A x \in held \cup lost : x.block \in K
    <2>1. \A x \in held \cup lost : x \in NodesIn(B, m)
      BY <1>1, <1>2
    <2>2. \A x \in NodesIn(B, m) : x.block \in B
      BY InNodesIn
    <2> QED BY <2>1, <2>2
  <1> HIDE DEF F
  <1>5. /\ X \cap held = {} /\ X \cup held \subseteq NodesIn(K, m)
        /\ NodesIn(K, m) \ (X \cup held) = lost
    BY <1>1, <1>2, <1>3, <1>4 DEF F
  <1>6. NodesIn(K, m) \ ({} \cup held) = lost \cup X /\ lost \cap X = {} /\ held \subseteq NodesIn(K, m)
    BY <1>2, <1>5 DEF F
  <1>7. IsFiniteSet(X) /\ Cardinality(X) = Len(backup) /\ Len(backup) \in Nat /\ Cardinality(lost) \in Nat
    BY DistinctCount, FS_CardinalityType
  <1>8. Cardinality(lost \cup X) = Cardinality(lost) + Len(backup)
    <2>1. Cardinality(lost \cup X) = Cardinality(lost) + Cardinality(X) - Cardinality(lost \cap X)
      <3> HIDE DEF X
      <3> QED BY <1>7, FS_Union
    <2>2. Cardinality(lost \cap X) = 0
      BY <1>6, FS_EmptySet
    <2> DEFINE z == Cardinality(lost \cup X)
               c == Cardinality(lost)
    <2>3. z = c + Len(backup) - 0
      BY <1>7, <2>1, <2>2
    <2> HIDE DEF z, c
    <2>4. z = c + Len(backup)
      BY <1>7, <2>3 DEF c
    <2> QED BY <2>4 DEF z, c
  <1>9. count = Len(backup) + Cardinality(lost) /\ count = 0 + Cardinality(lost \cup X)
    BY <1>1, <1>7, <1>8
  <1> HIDE DEF count
  <1>10. Unlinked(m, K, backup, held) = lost
    BY <1>5 DEF Unlinked
  <1>11. Conserved(m, K, backup, count, held)
    BY <1>5, <1>9, <1>10 DEF Conserved
  <1>12. <<>> \in Seq(Nodes) /\ Distinct(<<>>) /\ ToSet(<<>>) = {} /\ Len(<<>>) = 0
    BY DEF Distinct, ToSet
  <1>13. Unlinked(m, K, <<>>, held) = lost \cup X
    BY <1>6, <1>12 DEF Unlinked
  <1>14. Conserved(m, K, <<>>, count, held)
    BY <1>6, <1>9, <1>12, <1>13 DEF Conserved
  <1> QED BY <1>10, <1>11, <1>13, <1>14 DEF count

LEMMA StepSweep ==
  ASSUME IInv, ~pastEnd, DeallocateFreeBlocks
  PROVE  /\ IInv' /\ UNCHANGED <<layout, allocatedWord, held>> /\ layout # NoLayout
         /\ \A b \in ToSet(blocks') : \E x \in held \cup Lost : x.block = b
         /\ Lost' \subseteq Lost \/ (free' = <<>> /\ \A x, y \in Lost' \ Lost : x.block = y.block)
  <1> DEFINE backup == Swept.backup
             B == ToSet(blocks)
             K == ToSet(Swept.kept)
             m == NodesPerBlock
             count == freeSize - Len(free) + Len(backup)
  <1>1. /\ layout # NoLayout /\ layout \in Layouts
        /\ UNCHANGED <<layout, nodeSizeWord, perBlockWord, allocatedWord, pastEnd, held>>
        /\ blocks' = Swept.kept
        /\ m = layout.perBlock /\ m \in Nat \ {0} /\ NodesPerBlock' = m
    BY PoolReads, LayoutTyped DEF DeallocateFreeBlocks, NodesPerBlock
  <1>2. /\ blocks \in Seq(BlockIds) /\ Distinct(blocks) /\ B = DOMAIN lent
        /\ lent \in Loans /\ LentAs(layout, lent)
        /\ Conserved(m, B, free, freeSize, held)
        /\ Packed(layout, nodeSizeWord, perBlockWord, allocatedWord, Cardinality(held))
    BY <1>1 DEF IInv, MemorySound
  <1>3. /\ Swept.kept \in Seq(BlockIds) /\ Distinct(Swept.kept)
        /\ \A b : b \in K <=> b \in B /\ \E x \in held \cup Lost : x.block = b
        /\ backup \in Seq(Nodes) /\ Distinct(backup)
        /\ \A x : x \in ToSet(backup) <=> x \in ToSet(free) /\ x.block \in K
        /\ Swept.free = <<>>
        /\ ~Swept.last => \A x, y \in ToSet(backup) : x.block = y.block
    BY <1>1, <1>2, SweepCollects
  <1>4. IsFiniteSet(Lost) /\ freeSize \in Nat /\ Len(free) \in Nat /\ Lost = Unlinked(m, B, free, held)
    BY <1>1, FreeSizeTyped, LostIs
  <1>5. /\ Conserved(m, K, backup, count, held) /\ Unlinked(m, K, backup, held) = Lost
        /\ Conserved(m, K, <<>>, count, held) /\ Unlinked(m, K, <<>>, held) = Lost \cup ToSet(backup)
    <2> DEFINE lost == Lost
    <2> HIDE DEF lost, backup, B, K, m
    <2>1. /\ m \in Nat /\ Conserved(m, B, free, freeSize, held)
          /\ backup \in Seq(Nodes) /\ Distinct(backup) /\ IsFiniteSet(lost)
          /\ lost = Unlinked(m, B, free, held)
          /\ \A b : b \in K <=> b \in B /\ \E x \in held \cup lost : x.block = b
          /\ \A x : x \in ToSet(backup) <=> x \in ToSet(free) /\ x.block \in K
      BY <1>1, <1>2, <1>3, <1>4 DEF lost
    <2> QED BY <2>1, SpliceCounts DEF lost
  <1>6. (free' = backup \/ (free' = <<>> /\ ~Swept.last)) /\ freeSize' = count
    <2>1. PICK moved \in Spliced : free' = moved \o Swept.free
      BY DEF DeallocateFreeBlocks
    <2>2. moved = backup \/ (moved = <<>> /\ ~Swept.last)
      BY <2>1 DEF Spliced
    <2>3. moved \o <<>> = moved
      BY <1>3, <2>2
    <2>4. freeSize' = freeSize - (Len(free) - Len(Swept.free)) + Len(Swept.backup) /\ Len(<<>>) = 0
      BY DEF DeallocateFreeBlocks
    <2>5. freeSize' = freeSize - (Len(free) - 0) + Len(backup)
      BY <1>3, <2>4
    <2> HIDE DEF backup
    <2>6. Len(backup) \in Nat
      BY <1>3
    <2>7. freeSize' = count
      BY <1>4, <2>5, <2>6
    <2> QED BY <1>3, <2>1, <2>2, <2>3, <2>7
  <1>7. lent' = [b \in K |-> lent[b]]
    BY DEF DeallocateFreeBlocks
  <1>8. K \subseteq DOMAIN lent
    BY <1>2, <1>3
  <1>9. lent' \in Loans /\ LentAs(layout, lent') /\ DOMAIN lent' = K
    <2> HIDE DEF K
    <2> QED BY <1>2, <1>7, <1>8, LoansOfSome
  <1> HIDE DEF backup, m, count
  <1>10. Conserved(layout.perBlock, K, free', freeSize', held')
    BY <1>1, <1>5, <1>6
  <1>11. MemorySound(layout, blocks', free', freeSize', lent', held')
    BY <1>1, <1>3, <1>9, <1>10 DEF MemorySound
  <1>12. IInv'
    BY <1>1, <1>2, <1>11 DEF IInv
  <1>13. Lost' = Unlinked(m, K, free', held)
    BY <1>1, LostIs
  <1>14. Lost' = Lost \/ (free' = <<>> /\ Lost' = Lost \cup ToSet(backup) /\ ~Swept.last)
    BY <1>5, <1>6, <1>13
  <1> QED BY <1>1, <1>3, <1>12, <1>14

\* A pool without blocks.
LEMMA NoBlocks ==
  ASSUME NEW l \in Layouts, NEW lt, lt = NothingLent
  PROVE  MemorySound(l, <<>>, <<>>, 0, lt, {})
  <1>1. Distinct(<<>>) /\ ToSet(<<>>) = {} /\ <<>> \in Seq(BlockIds) /\ <<>> \in Seq(Nodes)
    BY DEF Distinct, ToSet
  <1>2. lt \in [{} -> Loan] /\ {} \in SUBSET BlockIds /\ DOMAIN lt = {}
    BY DEF NothingLent
  <1>3. lt \in Loans /\ LentAs(l, lt)
    BY <1>2 DEF Loans, LentAs
  <1>4. NodesIn({}, l.perBlock) = {}
    BY DEF NodesIn
  <1>5. Unlinked(l.perBlock, {}, <<>>, {}) = {} /\ Cardinality({}) = 0 /\ Len(<<>>) = 0
    BY <1>4, FS_EmptySet DEF Unlinked
  <1>6. Conserved(l.perBlock, {}, <<>>, 0, {})
    BY <1>1, <1>4, <1>5 DEF Conserved
  <1> QED BY <1>1, <1>2, <1>3, <1>6 DEF MemorySound

\* Without blocks no node is lost.
LEMMA NothingLost ==
  /\ blocks = <<>> => Lost = {}
  /\ blocks' = <<>> => Lost' = {}
  <1>1. ToSet(<<>>) = {}
    BY DEF ToSet
  <1>2. \A n : NodesIn({}, n) = {}
    BY DEF NodesIn
  <1> QED BY <1>1, <1>2, LostIs DEF Unlinked

LEMMA StepPurge ==
  ASSUME IInv, ~pastEnd, PurgeBlocks
  PROVE  IInv' /\ UNCHANGED <<layout, allocatedWord, held>> /\ Lost' = {}
  <1>1. /\ layout # NoLayout /\ layout \in Layouts
        /\ held' = {} /\ blocks' = <<>> /\ free' = <<>> /\ freeSize' = 0
        /\ UNCHANGED <<layout, nodeSizeWord, perBlockWord, allocatedWord, pastEnd, held>>
        /\ ToSet(blocks) = DOMAIN lent
        /\ Packed(layout, nodeSizeWord, perBlockWord, allocatedWord, Cardinality(held))
    BY PoolReads DEF PurgeBlocks, PurgedFree, IInv, MemorySound
  <1>2. lent' = NothingLent
    BY <1>1 DEF PurgeBlocks, NothingLent
  <1>3. MemorySound(layout, blocks', free', freeSize', lent', held')
    BY <1>1, <1>2, NoBlocks
  <1> QED BY <1>1, <1>3, NothingLost DEF IInv

LEMMA StepDestroy ==
  ASSUME IInv, ~pastEnd, Destroy
  PROVE  IInv' /\ UNCHANGED held /\ Lost' = {}
  <1>1. /\ held' = {} /\ blocks' = <<>> /\ free' = <<>> /\ freeSize' = 0 /\ layout' = NoLayout
        /\ nodeSizeWord' = 0 /\ perBlockWord' = 0 /\ allocatedWord' = 0 /\ held' = held /\ pastEnd' = pastEnd
        /\ layout # NoLayout /\ ToSet(blocks) = DOMAIN lent
    BY DEF Destroy, IInv, MemorySound
  <1>2. lent' = NothingLent
    BY <1>1 DEF Destroy, NothingLent
  <1> QED BY <1>1, <1>2, NothingLost DEF IInv, Vacant

LEMMA StepConstruct ==
  ASSUME IInv, ~pastEnd, Construct
  PROVE  IInv' /\ UNCHANGED held /\ Lost' = {}
  <1>1. PICK l \in Layouts :
          LET shift == AlignedShift(l) IN
          /\ layout' = l
          /\ nodeSizeWord' = PackLow(FixedSize(l), shift % Segment)
          /\ perBlockWord' = PackHigh(l.perBlock, (shift \div Segment) % Segment)
          /\ allocatedWord' = PackHigh(0, (shift \div (Segment * Segment)) % Segment)
    BY DEF Construct
  <1>2. Vacant /\ UNCHANGED <<blocks, free, freeSize, pastEnd, lent, held>>
    BY DEF Construct, IInv
  <1>3. held' = {} /\ Cardinality(held') = 0 /\ blocks' = <<>>
    BY <1>2, FS_EmptySet DEF Vacant
  <1>4. Packed(l, nodeSizeWord', perBlockWord', allocatedWord', Cardinality(held'))
    BY <1>1, <1>3 DEF Packed
  <1>5. MemorySound(l, blocks', free', freeSize', lent', held')
    BY <1>2, <1>3, NoBlocks DEF Vacant
  <1>6. l # NoLayout /\ layout' = l
    BY <1>1, LayoutTyped
  <1> QED BY <1>2, <1>3, <1>4, <1>5, <1>6, NothingLost DEF IInv

-----------------------------------------------------------------------------
(* The theorems *)

\* What is lost is the same in a step that changes nothing.
LEMMA StepStutters ==
  ASSUME UNCHANGED vars
  PROVE  (IInv => IInv') /\ Lost' = Lost
  <1>1. Lost' = Lost
    BY DEF vars, Lost, NodesPerBlock
  <1> QED BY <1>1 DEF vars, IInv, Vacant

\* Every step that is not a sweep keeps the invariant and loses no node.
LEMMA OtherSteps ==
  ASSUME IInv, [Next]_vars, ~DeallocateFreeBlocks
  PROVE  IInv' /\ Lost' \subseteq Lost
  <1>1. CASE UNCHANGED vars
    BY <1>1, StepStutters
  <1>2. CASE ~pastEnd /\ Operation
    <2>1. CASE Construct
      BY <1>2, <2>1, StepConstruct
    <2>2. CASE AllocateNode
      BY <1>2, <2>2, StepAllocateNode DEF Gives
    <2>3. ASSUME NEW n \in Batches, AllocateNodes(n) PROVE IInv' /\ Lost' \subseteq Lost
      BY <1>2, <2>3, StepAllocate DEF Gives
    <2>4. ASSUME NEW n \in Batches, WalksPastEnd(n) PROVE IInv' /\ Lost' \subseteq Lost
      BY <1>2, <2>4, StepWalks
    <2>5. ASSUME NEW n \in Batches, AllocateThrows(n) PROVE IInv' /\ Lost' \subseteq Lost
      BY <1>2, <2>5, StepAllocateThrows
    <2>6. ASSUME NEW c \in Chains, DeallocateNodes(c) PROVE IInv' /\ Lost' \subseteq Lost
      BY <1>2, <2>6, StepDeallocate
    <2>7. CASE PurgeBlocks
      BY <1>2, <2>7, StepPurge
    <2>8. CASE Destroy
      BY <1>2, <2>8, StepDestroy
    <2> QED BY <1>2, <2>1, <2>2, <2>3, <2>4, <2>5, <2>6, <2>7, <2>8 DEF Operation
  <1> QED BY <1>1, <1>2 DEF Next

\* Only an operation of a program still on the list sweeps, or nothing happens.
LEMMA SweepsOnTheList ==
  ASSUME [Next]_vars, DeallocateFreeBlocks
  PROVE  ~pastEnd \/ UNCHANGED vars
  BY DEF Next

\* Construction, batches that are given, throw or leave the list, chains,
\* sweeps, purging and destruction keep the invariant: the words hold the
\* layout's numbers beside the count of held nodes, the block list is the
\* segment manager's record, the free list, the callers and what sweeps have
\* lost share the nodes of its blocks, and the list's count goes for the first
\* and the last of these.
THEOREM NodePoolInvariant == Spec => []IInv
  <1>1. Init => IInv
    BY DEF Init, IInv, Vacant
  <1>2. IInv /\ [Next]_vars => IInv'
    BY OtherSteps, SweepsOnTheList, StepSweep, StepStutters
  <1> QED BY <1>1, <1>2, PTL DEF Spec

\* A node of a block on the list is linked once, held by one caller or lost;
\* m_freelist.size() counts the linked and the lost; allocate_nodes leaves the
\* list only where some are lost; and the block list is exactly what the
\* segment manager has lent: batches, one that throws half way, chains, sweeps,
\* purge_blocks and the destructor keep to this.
THEOREM NodePoolNodesConserved == Spec => []NodesConserved
  <1>1. IInv => NodesConserved
    <2> SUFFICES ASSUME IInv PROVE NodesConserved
      OBVIOUS
    <2>1. CASE layout = NoLayout
      <3>1. blocks = <<>> /\ free = <<>> /\ freeSize = 0 /\ lent = NothingLent /\ held = {}
        BY <2>1 DEF IInv, Vacant
      <3>2. ToSet(<<>>) = {} /\ DOMAIN NothingLent = {} /\ Len(<<>>) = 0
        BY DEF ToSet, NothingLent
      <3>3. Cardinality({}) = 0 /\ Lost = {}
        BY <3>1, FS_EmptySet, NothingLost
      <3>4. ToSet(free) \cup held \subseteq NodesIn(ToSet(blocks), NodesPerBlock)
        BY <3>1, <3>2
      <3>5. ToSet(free) \cap held = {} /\ Cardinality(ToSet(free)) = 0 /\ Len(free) = 0
        BY <3>1, <3>2, <3>3
      <3>6. ToSet(blocks) = DOMAIN lent /\ Cardinality(DOMAIN lent) = Len(blocks)
        BY <3>1, <3>2, <3>3
      <3>7. freeSize = Len(free) + Cardinality(Lost) /\ (pastEnd => Lost # {})
        BY <3>1, <3>3, <3>5 DEF IInv
      <3> QED BY <3>4, <3>5, <3>6, <3>7 DEF NodesConserved, NodesIn
    <2>2. CASE layout # NoLayout
      <3>1. NodesPerBlock = layout.perBlock /\ MemorySound(layout, blocks, free, freeSize, lent, held)
        BY <2>2, PoolReads DEF IInv
      <3>2. Conserved(NodesPerBlock, ToSet(blocks), free, freeSize, held)
        BY <3>1 DEF MemorySound
      <3>3. Cardinality(ToSet(free)) = Len(free)
        BY <3>2, DistinctCount DEF Conserved
      <3>4. ToSet(blocks) = DOMAIN lent /\ Cardinality(DOMAIN lent) = Len(blocks)
        BY <3>1, DistinctCount DEF MemorySound
      <3>5. /\ ToSet(free) \cup held \subseteq NodesIn(ToSet(blocks), NodesPerBlock)
            /\ ToSet(free) \cap held = {}
        BY <3>2 DEF Conserved
      <3>6. freeSize = Len(free) + Cardinality(Lost) /\ (pastEnd => Lost # {})
        BY <2>2, FreeSizeTyped DEF IInv
      <3> QED BY <3>3, <3>4, <3>5, <3>6 DEF NodesConserved, NodesIn
    <2> QED BY <2>1, <2>2
  <1> QED BY <1>1, NodePoolInvariant, PTL

\* No operation but deallocate_free_blocks loses a node, and a sweep only the
\* free nodes of one block, leaving an empty free list: with two blocks kept
\* that have free nodes, or a free block behind the only one, its last splice
\* takes all there is.
THEOREM NodePoolNodesKept == Spec => NodesKept
  <1>1. IInv /\ [Next]_vars =>
          [Lost' \subseteq Lost
           \/ /\ DeallocateFreeBlocks /\ free' = <<>>
              /\ \A x, y \in Lost' \ Lost : x.block = y.block]_vars
    BY OtherSteps, SweepsOnTheList, StepSweep, StepStutters
  <1> QED BY <1>1, NodePoolInvariant, PTL DEF Spec, NodesKept

\* Nodes are as large and as aligned as the pool was constructed for, and each
\* block is asked for with that alignment: the count kept in m_allocated never
\* reaches the segment of the alignment that shares its word.
THEOREM NodePoolNodesAligned == Spec => []NodesAligned
  <1>1. IInv => NodesAligned
    <2> SUFFICES ASSUME IInv, layout # NoLayout PROVE
          /\ RealNodeSize >= layout.size /\ RealNodeSize % layout.align = 0
          /\ \A b \in DOMAIN lent :
               /\ lent[b].align = Larger(layout.align, Segment)
               /\ lent[b].bytes = layout.perBlock * RealNodeSize + ListNodeSize
      BY DEF NodesAligned
    <2>1. layout \in Layouts /\ RealNodeSize = FixedSize(layout)
      BY PoolReads
    <2>2. FixedSize(layout) \in Nat /\ layout.size <= FixedSize(layout) /\ FixedSize(layout) % layout.align = 0
      BY <2>1, FixedSizeFits
    <2>3. layout.size \in Nat
      BY <2>1, NodePoolAssumption
    <2>4. LentAs(layout, lent)
      BY DEF IInv, MemorySound
    <2>5. RealNodeSize >= layout.size /\ RealNodeSize % layout.align = 0
      BY <2>1, <2>2, <2>3
    <2>6. ASSUME NEW b \in DOMAIN lent
          PROVE  /\ lent[b].align = Larger(layout.align, Segment)
                 /\ lent[b].bytes = layout.perBlock * RealNodeSize + ListNodeSize
      <3> DEFINE bytes == layout.perBlock * RealNodeSize + ListNodeSize
                 align == Larger(layout.align, Segment)
                 loan == lent[b]
      <3>1. loan = [bytes |-> bytes, align |-> align]
        BY <2>1, <2>4 DEF LentAs
      <3> HIDE DEF bytes, align, loan
      <3>2. loan.align = align /\ loan.bytes = bytes
        BY <3>1
      <3> QED BY <3>2 DEF bytes, align, loan
    <2> QED BY <2>5, <2>6
  <1> QED BY <1>1, NodePoolInvariant, PTL

\* deallocate_free_blocks leaves no block whose nodes all were in the free
\* list: a block stays because a caller holds a node of it, or because an
\* earlier sweep lost one.
THEOREM NodePoolSweepIsComplete == Spec => SweepIsComplete
  <1>1. IInv /\ [Next]_vars =>
          [DeallocateFreeBlocks => \A b \in ToSet(blocks') : \E x \in held \cup Lost : x.block = b]_vars
    BY SweepsOnTheList, StepSweep
  <1> QED BY <1>1, NodePoolInvariant, PTL DEF Spec, SweepIsComplete

\* m_allocated, below the segment packed beside it, is what callers hold.
LEMMA CountRead ==
  ASSUME IInv
  PROVE  Allocated = Cardinality(held) /\ held \subseteq Nodes /\ IsFiniteSet(held) /\ Allocated \in Nat
  <1>1. CASE layout = NoLayout
    <2>1. allocatedWord = 0 /\ held = {}
      BY <1>1 DEF IInv, Vacant
    <2>2. 0 % Top = 0
      BY SegmentPowers
    <2>3. IsFiniteSet({}) /\ Cardinality({}) = 0
      BY FS_EmptySet
    <2> QED BY <2>1, <2>2, <2>3 DEF Allocated
  <1>2. CASE layout # NoLayout
    <2>1. layout \in Layouts /\ Allocated = Cardinality(held)
      BY <1>2, PoolReads
    <2>2. held \subseteq Nodes /\ IsFiniteSet(held) /\ Cardinality(held) \in Nat
      BY <1>2, <2>1, AllAreNodes DEF IInv
    <2> QED BY <2>1, <2>2
  <1> QED BY <1>1, <1>2

\* The abstract specification counts as this module does.
LEMMA SameCount == \A S : Source!Cardinality(S) = Cardinality(S)
  BY DEF Source!Cardinality, Cardinality

\* The pool implements NodeSource: a batch gives n nodes nobody held and
\* counts them, a chain takes back those it names, and whatever else the pool
\* does, callers hold the same nodes and m_allocated says the same number.
THEOREM NodePoolImplementsNodeSource == Spec => ImplementsNodeSource
  <1>1. Init => Source!Init
    <2> SUFFICES ASSUME Init PROVE Source!Init
      OBVIOUS
    <2>1. 0 % Top = 0
      BY SegmentPowers
    <2> QED BY <2>1 DEF Init, Source!Init, Allocated
  <1>2. IInv /\ IInv' /\ [Next]_vars => [Source!Next]_<<held, Allocated>>
    <2> SUFFICES ASSUME IInv, IInv', [Next]_vars PROVE [Source!Next]_<<held, Allocated>>
      OBVIOUS
    <2>1. /\ Allocated = Cardinality(held) /\ held \subseteq Nodes /\ IsFiniteSet(held) /\ Allocated \in Nat
          /\ Allocated' = Cardinality(held') /\ held' \subseteq Nodes /\ IsFiniteSet(held') /\ Allocated' \in Nat
      <3>1. IInv => Allocated = Cardinality(held) /\ held \subseteq Nodes /\ IsFiniteSet(held) /\ Allocated \in Nat
        BY CountRead
      <3>2. IInv' => (Allocated = Cardinality(held) /\ held \subseteq Nodes /\ IsFiniteSet(held) /\ Allocated \in Nat)'
        BY CountRead, PTL
      <3>3. Nodes' = Nodes
        BY DEF Nodes
      <3> QED BY <3>1, <3>2, <3>3
    <2>2. CASE UNCHANGED held
      BY <2>1, <2>2
    <2>3. CASE UNCHANGED vars
      BY <2>2, <2>3 DEF vars
    <2>4. ASSUME NEW n \in Nat, n \in Batches \cup {1}, Gives(n) PROVE Source!Next
      <3>1. held \subseteq held' /\ Cardinality(held' \ held) = n
        BY <2>4 DEF Gives
      <3>2. Cardinality(held') = Cardinality(held) + n
        <4>1. IsFiniteSet(held' \ held)
          BY <2>1, FS_Difference
        <4>2. Cardinality(held \cup (held' \ held)) =
                Cardinality(held) + Cardinality(held' \ held) - Cardinality(held \cap (held' \ held))
          BY <2>1, <4>1, FS_Union
        <4>3. held \cup (held' \ held) = held' /\ held \cap (held' \ held) = {} /\ Cardinality({}) = 0
          BY <3>1, FS_EmptySet
        <4>4. Cardinality(held') = Cardinality(held) + n - 0
          BY <3>1, <4>2, <4>3
        <4> QED BY <2>1, <3>1, <4>4
      <3>3. Allocated' = Allocated + n /\ held' \in SUBSET Nodes
        BY <2>1, <3>2
      <3>4. Source!Give(n)
        BY <3>1, <3>3, SameCount DEF Source!Give
      <3> QED BY <2>4, <3>4 DEF Source!Next
    <2>5. CASE ~pastEnd /\ Operation
      <3>1. CASE Construct
        BY <2>2, <2>5, <3>1, StepConstruct
      <3>2. CASE AllocateNode
        BY <2>4, <2>5, <3>2, StepAllocateNode
      <3>3. ASSUME NEW n \in Batches, AllocateNodes(n) PROVE Source!Next
        BY <2>4, <2>5, <3>3, StepAllocate
      <3>4. ASSUME NEW n \in Batches, WalksPastEnd(n) PROVE UNCHANGED held
        BY <2>5, <3>4, StepWalks
      <3>5. ASSUME NEW n \in Batches, AllocateThrows(n) PROVE UNCHANGED held
        BY <2>5, <3>5, StepAllocateThrows
      <3>6. ASSUME NEW c \in Chains, DeallocateNodes(c) PROVE Source!Next
        <4>1. held' \subseteq held /\ Cardinality(held') = Cardinality(held) - Cardinality(held \ held')
          BY <2>5, <3>6, StepDeallocate
        <4>2. Allocated' = Allocated - Cardinality(held \ held') /\ held' \in SUBSET held
          BY <2>1, <4>1
        <4>3. Source!TakeBack
          BY <4>2, SameCount DEF Source!TakeBack
        <4> QED BY <4>3 DEF Source!Next
      <3>7. CASE DeallocateFreeBlocks
        BY <2>2, <2>5, <3>7, StepSweep
      <3>8. CASE PurgeBlocks
        BY <2>2, <2>5, <3>8, StepPurge
      <3>9. CASE Destroy
        BY <2>2, <2>5, <3>9, StepDestroy
      <3> QED BY <2>2, <2>5, <3>1, <3>2, <3>3, <3>4, <3>5, <3>6, <3>7, <3>8, <3>9 DEF Operation
    <2> QED BY <2>3, <2>5 DEF Next
  <1> QED BY <1>1, <1>2, NodePoolInvariant, PTL DEF Spec, ImplementsNodeSource, Source!Spec
=============================================================================
