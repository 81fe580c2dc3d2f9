------------------------- MODULE SegmentedChanges -------------------------
(***************************************************************************)
(* The segmented algorithms that write: fill, generate, replace,           *)
(* transform, swap_ranges, the copies into a destination that is walked by *)
(* segments too, remove, reverse, the partitions.  Each returns the memory *)
(* m after it and, under `at', the iterator it returns.  At the end those  *)
(* that join two ordered ranges.                                           *)
(***************************************************************************)
EXTENDS SegmentedSearches

-----------------------------------------------------------------------------
(* In place, one local range after the other                               *)

SegmentedFill(m, first, last, v) ==
  FoldLeft(LAMBDA n, p :
             PutLocal(n, first.of, p.seg, p.from, [k \in 1..(p.to - p.from) |-> v]),
           m, Pieces(first, last))

\* the generator is passed by reference: its n-th call returns gen[n]
SegmentedGenerate(m, first, last, gen) ==
  FoldLeft(LAMBDA acc, p :
             [m     |-> PutLocal(acc.m, first.of, p.seg, p.from,
                                 SubSeq(gen, acc.calls + 1, acc.calls + p.to - p.from)),
              calls |-> acc.calls + p.to - p.from],
           [m |-> m, calls |-> 0], Pieces(first, last)).m

SegmentedReplaceIf(m, first, last, P, v) ==
  FoldLeft(LAMBDA n, p :
             LET vs == Local(n, first.of, p)
             IN  PutLocal(n, first.of, p.seg, p.from,
                          [k \in DOMAIN vs |-> IF vs[k] \in P THEN v ELSE vs[k]]),
           m, Pieces(first, last))

SegmentedReplace(m, first, last, old, new) == SegmentedReplaceIf(m, first, last, {old}, new)

-----------------------------------------------------------------------------
(* Element by element through an iterator that is incremented as a whole   *)

\* op is a function on Values
SegmentedTransform(m, first, last, result, op) ==
  FoldLeft(LAMBDA acc, p :
             FoldLeft(LAMBDA a, v : Put(a, op[v]), acc, Local(acc.m, first.of, p)),
           [m |-> m, at |-> result], Pieces(first, last))

SegmentedSwapRanges(m, first1, last1, first2) ==
  FoldLeft(LAMBDA acc, p :
             FoldLeft(LAMBDA a, c :
                        LET x == Iterator(first1.of, p.seg, c)
                        IN  Put([a EXCEPT !.m = Store(a.m, x, Load(a.m, a.at))], Load(a.m, x)),
                      acc, [k \in 1..(p.to - p.from) |-> p.from + k - 1]),
           [m |-> m, at |-> first2], Pieces(first1, last1))

SegmentedPartitionCopy(m, first, last, out_true, out_false, P) ==
  FoldLeft(LAMBDA acc, p :
             FoldLeft(LAMBDA a, v :
                        IF v \in P
                        THEN [a EXCEPT !.m = Store(a.m, a.at, v), !.at = Succ(a.at)]
                        ELSE [a EXCEPT !.m = Store(a.m, a.other, v), !.other = Succ(a.other)],
                      acc, Local(acc.m, first.of, p)),
           [m |-> m, at |-> out_true, other |-> out_false], Pieces(first, last))

-----------------------------------------------------------------------------
(* Into a destination that is walked by segments, to an end not known      *)

\* Writes the values vs from result on: one segment is filled with what it has
\* room for, and only when values are left the next one is entered.
Deposit(m, vs, result) ==
  FoldLeft(LAMBDA acc, s :
             LET from == IF s = result.seg THEN result.cur ELSE 0
                 n    == Min({Len(acc.left), Block[result.of] - from})
             IN  IF acc.left = <<>> THEN acc
                 ELSE [m    |-> PutLocal(acc.m, result.of, s, from, SubSeq(acc.left, 1, n)),
                       left |-> SubSeq(acc.left, n + 1, Len(acc.left)),
                       at   |-> Compose(result.of, s, from + n)],
           [m |-> m, left |-> vs, at |-> result], SegmentsFrom(result))

\* every local range of the source goes on where the one before ended
SegmentedCopyIf(m, first, last, result, P) ==
  FoldLeft(LAMBDA acc, p :
             Deposit(acc.m, SelectSeq(Local(acc.m, first.of, p), LAMBDA v : v \in P), acc.at),
           [m |-> m, at |-> result], Pieces(first, last))

SegmentedCopy(m, first, last, result) == SegmentedCopyIf(m, first, last, result, Values)
SegmentedRemoveCopyIf(m, first, last, result, P) ==
  SegmentedCopyIf(m, first, last, result, Values \ P)
SegmentedRemoveCopy(m, first, last, result, v) ==
  SegmentedRemoveCopyIf(m, first, last, result, {v})

\* the local ranges from the last to the first, each from its end
SegmentedReverseCopy(m, first, last, result) ==
  FoldLeft(LAMBDA acc, p :
             Deposit(acc.m, Reverse(Local(acc.m, first.of, p)), acc.at),
           [m |-> m, at |-> result], Reverse(Pieces(first, last)))

\* find, then the elements behind the first removed one move down onto it
SegmentedRemoveIf(m, first, last, P) ==
  LET it == SegmentedFindIf(m, first, last, P)
  IN  IF it = last THEN [m |-> m, at |-> last]
      ELSE SegmentedRemoveCopyIf(m, Succ(it), last, it, P)

SegmentedRemove(m, first, last, v) == SegmentedRemoveIf(m, first, last, {v})

-----------------------------------------------------------------------------
(* The counted forms: the range itself, or the source, has no known end     *)

SegmentedFillN(m, first, count, v) == Deposit(m, [k \in 1..count |-> v], first)
SegmentedGenerateN(m, first, count, gen) == Deposit(m, SubSeq(gen, 1, count), first)

\* what is left of the count, from the cells of one segment of the source
CopyNScan(acc, d, s, from) ==
  LET n == Min({acc.count, Block[d] - from})
      r == Deposit(acc.m, Local(acc.m, d, Piece(s, from, from + n)), acc.at)
  IN  [m |-> r.m, at |-> r.at, count |-> acc.count - n]

SegmentedCopyN(m, first, count, result) ==
  FoldLeft(LAMBDA acc, s :
             IF acc.count = 0 THEN acc
             ELSE CopyNScan(acc, first.of, s, IF s = first.seg THEN first.cur ELSE 0),
           [m |-> m, at |-> result, count |-> count], SegmentsFrom(first))

-----------------------------------------------------------------------------
(* From both ends: reverse, partition, and stable_partition, which         *)
(* inserts.  The walk keeps a local range at each end; the operator of a   *)
(* round treats the two as disjoint, and when they meet in one segment     *)
(* what is left is one local range.                                        *)

\* the two ends: segment sf with its cells f..f_end - 1 not yet done, and
\* segment sl with its cells l_beg..l - 1
Ends(sf, f, f_end, sl, l_beg, l) ==
  [sf |-> sf, f |-> f, f_end |-> f_end, sl |-> sl, l_beg |-> l_beg, l |-> l]

EndsOf(first, last) ==
  Ends(first.seg, first.cur, Block[first.of], last.seg, 0, last.cur)

\* after a round, which has used up one of the local ranges at least: the
\* next ones on that side.  The ends have met when sf = sl: then f..l - 1 is left.
NextEnds(d, e) ==
  IF e.l = e.l_beg
  THEN LET g == IF e.f = e.f_end
                THEN [e EXCEPT !.sf = @ + 1, !.f = 0, !.f_end = Block[d]]
                ELSE e
       IN  IF g.sf = e.sl THEN [g EXCEPT !.f = e.l_beg, !.l = e.l_beg]
           ELSE IF g.sf = e.sl - 1 THEN [g EXCEPT !.sl = @ - 1, !.l = g.f_end]
           ELSE [g EXCEPT !.sl = @ - 1, !.l_beg = 0, !.l = Block[d]]
  ELSE IF e.sf + 1 = e.sl THEN [e EXCEPT !.sf = @ + 1, !.f = e.l_beg]
       ELSE [e EXCEPT !.sf = @ + 1, !.f = 0, !.f_end = Block[d]]

-----------------------------------------------------------------------------
(* reverse                                                                 *)

SwapCells(m, d, s, c, t, k) ==
  [m EXCEPT ![d] = [@ EXCEPT ![s] = [@ EXCEPT ![c] = m[d][t][k]],
                             ![t] = [@ EXCEPT ![k] = m[d][s][c]]]]

\* swaps from both ends until one local range is used up
ReverseRound(m, d, e) ==
  LET n == Min({e.f_end - e.f, e.l - e.l_beg})
  IN  [m |-> FoldLeft(LAMBDA a, k : SwapCells(a, d, e.sf, e.f + k - 1, e.sl, e.l - k),
                      m, [k \in 1..n |-> k]),
       e |-> [e EXCEPT !.f = @ + n, !.l = @ - n]]

\* one local range
LocalReverse(m, d, s, f, l) ==
  PutLocal(m, d, s, f, Reverse(Local(m, d, Piece(s, f, l))))

RECURSIVE ReverseEnds(_, _, _)
ReverseEnds(m, d, e) ==
  IF e.sf = e.sl THEN LocalReverse(m, d, e.sf, e.f, e.l)
  ELSE LET r == ReverseRound(m, d, e) IN ReverseEnds(r.m, d, NextEnds(d, r.e))

SegmentedReverse(m, first, last) == ReverseEnds(m, first.of, EndsOf(first, last))

-----------------------------------------------------------------------------
(* partition                                                               *)

\* the next element outside P from f up, and the next one in P from l down,
\* change places, until one local range is used up
RECURSIVE PartitionRound(_, _, _, _)
PartitionRound(m, d, e, P) ==
  LET f == Min({c \in e.f..(e.f_end - 1) : m[d][e.sf][c] \notin P} \cup {e.f_end})
      l == Max({c \in e.l_beg..(e.l - 1) : m[d][e.sl][c] \in P} \cup {e.l_beg - 1})
  IN  IF f = e.f_end THEN [m |-> m, e |-> [e EXCEPT !.f = f]]
      ELSE IF l < e.l_beg THEN [m |-> m, e |-> [e EXCEPT !.f = f, !.l = e.l_beg]]
      ELSE PartitionRound(SwapCells(m, d, e.sf, f, e.sl, l), d,
                          [e EXCEPT !.f = f + 1, !.l = l], P)

\* one local range: where its elements in P end
RECURSIVE LocalPartition(_, _, _, _, _, _)
LocalPartition(m, d, s, first, last, P) ==
  LET f == Min({c \in first..(last - 1) : m[d][s][c] \notin P} \cup {last})
      l == Max({c \in (f + 1)..(last - 1) : m[d][s][c] \in P} \cup {f})
  IN  IF l = f THEN [m |-> m, cur |-> f]
      ELSE LocalPartition(SwapCells(m, d, s, f, s, l), d, s, f + 1, l, P)

RECURSIVE PartitionEnds(_, _, _, _)
PartitionEnds(m, d, e, P) ==
  IF e.sf = e.sl
  THEN LET r == LocalPartition(m, d, e.sf, e.f, e.l, P)
       IN  [m |-> r.m, at |-> Compose(d, e.sf, r.cur)]
  ELSE LET r == PartitionRound(m, d, e, P)
       IN  PartitionEnds(r.m, d, NextEnds(d, r.e), P)

SegmentedPartition(m, first, last, P) == PartitionEnds(m, first.of, EndsOf(first, last), P)

-----------------------------------------------------------------------------
(* stable_partition: an element in P goes to the end of those before it,   *)
(* and the elements in between up by one, through whole iterators          *)

StablePartitionShift(acc, it) ==
  LET n   == Position(it) - Position(acc.at)
      tmp == Load(acc.m, it)
      up  == FoldLeft(LAMBDA m, k :
                        LET cur == At(it.of, Position(it) - k + 1)
                        IN  Store(m, cur, Load(m, Pred(cur))),
                      acc.m, [k \in 1..n |-> k])
  IN  Put([acc EXCEPT !.m = up], tmp)

SegmentedStablePartition(m, first, last, P) ==
  FoldLeft(LAMBDA acc, p :
             FoldLeft(LAMBDA a, c :
                        LET it == Iterator(first.of, p.seg, c)
                        IN  IF Load(a.m, it) \in P THEN StablePartitionShift(a, it) ELSE a,
                      acc, [k \in 1..(p.to - p.from) |-> p.from + k - 1]),
           [m |-> m, at |-> first], Pieces(first, last))

-----------------------------------------------------------------------------
(* merge, set_union, set_intersection, set_difference and                  *)
(* set_symmetric_difference.  All three ranges may be segmented: the walk  *)
(* over the first holds the walk over the second, which holds the walk     *)
(* over the destination, and each has its own exit.  The five differ in    *)
(* one step, Choice, and in what of the two is copied at the end.          *)

\* what the step of `kind' writes for x at the first range and y at the
\* second, and whether it goes on in the one and in the other
Choice(kind, x, y) ==
  LET out(vs, a, b) == [vs |-> vs, a |-> a, b |-> b]
  IN  IF kind = "merge" THEN IF y < x THEN out(<<y>>, 0, 1) ELSE out(<<x>>, 1, 0)
      ELSE IF x < y THEN out(IF kind = "intersection" THEN <<>> ELSE <<x>>, 1, 0)
      ELSE IF y < x
           THEN out(IF kind \in {"union", "symmetric_difference"} THEN <<y>> ELSE <<>>, 0, 1)
      ELSE out(IF kind \in {"union", "intersection"} THEN <<x>> ELSE <<>>, 1, 1)

\* the remains that are copied behind the result
CopiesFirst(kind)  == kind # "intersection"
CopiesSecond(kind) == kind \in {"merge", "union", "symmetric_difference"}

\* The walk goes through records [m, i, j, at, first1, first2]: i and j are the
\* local iterators of the two ranges, at the destination.

\* one step writes x.vs and goes on
Advance(w, x) ==
  [w EXCEPT !.m = PutLocal(@, w.at.of, w.at.seg, w.at.cur, x.vs),
            !.i = @ + x.a, !.j = @ + x.b, !.at.cur = @ + Len(x.vs)]

\* *_dst_bounded: a local range of each, i..p.to - 1 and j..q.to - 1, into the
\* cells of a segment of the destination, until one of the three has ended
DstBounded(kind, d1, p, d2, q, w) ==
  FoldLeft(LAMBDA u, step :
             IF u.i = p.to \/ u.j = q.to \/ u.at.cur = Block[u.at.of] THEN u
             ELSE Advance(u, Choice(kind, u.m[d1][p.seg][u.i], u.m[d2][q.seg][u.j])),
           w, [step \in 1..(p.to - w.i + q.to - w.j) |-> step])

\* into the next segment of the destination, if this one is full
NextSegment(w) ==
  IF w.at.cur = Block[w.at.of] THEN [w EXCEPT !.at = Iterator(@.of, @.seg + 1, 0)] ELSE w

\* Faulty form: a full segment of the destination ends the walk.
UntilExhaustsOnce(kind, d1, p, d2, q, w) == NextSegment(DstBounded(kind, d1, p, d2, q, w))

\* *_until_exhausts: segment after segment of the destination, until one of
\* the two ranges has ended
UntilExhausts(kind, d1, p, d2, q, w) ==
  FoldLeft(LAMBDA u, seg : IF u.i = p.to \/ u.j = q.to THEN u
                           ELSE NextSegment(DstBounded(kind, d1, p, d2, q, u)),
           w, SegmentsFrom(w.at))

\* *_seg2_dispatch: one local range p of the first against [w.first2, last2);
\* left when p has ended
Seg2Dispatch(kind, d1, p, last2, w) ==
  FoldLeft(LAMBDA u, q :
             LET After(v) == [v EXCEPT !.first2 = Compose(last2.of, q.seg, v.j)]
             IN  IF u.i = p.to \/ u.first2 = last2 THEN u
                 ELSE After(UntilExhausts(kind, d1, p, last2.of, q, [u EXCEPT !.j = q.from])),
           w, Pieces(w.first2, last2))

\* *_scan: by segments of the first range; left when the second has ended
Scan(kind, m, first1, last1, first2, last2, result) ==
  FoldLeft(LAMBDA u, p :
             LET After(v) == [v EXCEPT !.first1 = Compose(last1.of, p.seg, v.i)]
             IN  IF u.first1 = last1 \/ u.first2 = last2 THEN u
                 ELSE After(Seg2Dispatch(kind, last1.of, p, last2, [u EXCEPT !.i = p.from])),
           [m |-> m, at |-> result, first1 |-> first1, i |-> first1.cur,
            first2 |-> first2, j |-> first2.cur],
           Pieces(first1, last1))

\* the two ranges into [result, ...), and what is left of them behind
SegmentedMergeKind(kind, m, first1, last1, first2, last2, result) ==
  LET Drained(w, first, last) == SegmentedCopy(w.m, first, last, w.at)
      Second(w, first) == IF CopiesSecond(kind) THEN Drained(w, first, last2) ELSE w
      Both(w) == Second(IF CopiesFirst(kind) THEN Drained(w, w.first1, last1) ELSE w, w.first2)
  IN  Both(Scan(kind, m, first1, last1, first2, last2, result))

SegmentedMerge(m, first1, last1, first2, last2, result) ==
  SegmentedMergeKind("merge", m, first1, last1, first2, last2, result)
SegmentedSetUnion(m, first1, last1, first2, last2, result) ==
  SegmentedMergeKind("union", m, first1, last1, first2, last2, result)
SegmentedSetIntersection(m, first1, last1, first2, last2, result) ==
  SegmentedMergeKind("intersection", m, first1, last1, first2, last2, result)
SegmentedSetDifference(m, first1, last1, first2, last2, result) ==
  SegmentedMergeKind("difference", m, first1, last1, first2, last2, result)
SegmentedSetSymmetricDifference(m, first1, last1, first2, last2, result) ==
  SegmentedMergeKind("symmetric_difference", m, first1, last1, first2, last2, result)
============================================================================
