------------------------- MODULE SegmentedSearches -------------------------
(***************************************************************************)
(* What the segmented algorithms (experimental/segmented_*.hpp) see of a   *)
(* deque: an iterator that splits in a segment and a local iterator, and   *)
(* composes from the two (segmented_iterator_traits, specialised for       *)
(* deque_iterator).  A container is named; mem[d][s][c] is the value in    *)
(* cell c of its segment s.  Every segment has Block[d] cells.  The end    *)
(* may be the begin of a segment behind the last one.                      *)
(*                                                                         *)
(* Then the algorithms that only read: segmented_find*, _none_of, _all_of, *)
(* _any_of, _count*, _for_each, _equal, _mismatch, _search, _search_n,     *)
(* _is_sorted*, _partition_point, _is_partitioned.                         *)
(* A predicate is the set of values it holds for.  The loop over one local *)
(* range, in each source file a choice of unrolled and plain loops, is one *)
(* expression; the walk over the segments and its exits are as written.    *)
(***************************************************************************)
EXTENDS Integers, Sequences, SequencesExt, FiniteSetsExt

CONSTANTS
  Block,   \* the number of cells of a segment, for each container
  Blocks,  \* the number of segments of each container
  Values   \* the values of elements: integers, ordered by <

ASSUME SegmentsAssumption ==
  /\ DOMAIN Block = DOMAIN Blocks
  /\ \A d \in DOMAIN Block : Block[d] \in Nat \ {0} /\ Blocks[d] \in Nat

\* deque_iterator: the container, the node and the cell in it
Iterator(d, s, c) == [of |-> d, seg |-> s, cur |-> c]

\* compose: the end of a segment becomes the begin of the next one
Compose(d, s, c) == IF c = Block[d] THEN Iterator(d, s + 1, 0) ELSE Iterator(d, s, c)

\* ++it and --it
Succ(it) == Compose(it.of, it.seg, it.cur + 1)
Pred(it) == IF it.cur = 0 THEN Iterator(it.of, it.seg - 1, Block[it.of] - 1)
                          ELSE Iterator(it.of, it.seg, it.cur - 1)

\* it - begin(), and begin() + p
Position(it) == it.seg * Block[it.of] + it.cur
At(d, p) == Iterator(d, p \div Block[d], p % Block[d])

Load(m, it) == m[it.of][it.seg][it.cur]
Store(m, it, v) == [m EXCEPT ![it.of][it.seg][it.cur] = v]

\* *at = v; ++at
Put(acc, v) == [acc EXCEPT !.m = Store(acc.m, acc.at, v), !.at = Succ(acc.at)]

-----------------------------------------------------------------------------
(* The walk every algorithm makes over [first, last): one local range when *)
(* both are in one segment; otherwise the rest of the first segment, the   *)
(* whole ones between, and the begin of the last one, which may be empty.  *)

Piece(s, from, to) == [seg |-> s, from |-> from, to |-> to]

Pieces(first, last) ==
  [k \in 1..(last.seg - first.seg + 1) |->
     Piece(first.seg + k - 1,
           IF k = 1 THEN first.cur ELSE 0,
           IF first.seg + k - 1 = last.seg THEN last.cur ELSE Block[first.of])]

\* the values of a local range, first to last
Local(m, d, p) == [k \in 1..(p.to - p.from) |-> m[d][p.seg][p.from + k - 1]]

\* writes the values vs over the cells of segment s of d from cell c on
PutLocal(m, d, s, c, vs) ==
  IF vs = <<>> THEN m
  ELSE [m EXCEPT ![d][s] = [k \in DOMAIN @ |->
          IF k \in c..(c + Len(vs) - 1) THEN vs[k - c + 1] ELSE @[k]]]

\* the segments an algorithm may walk from `it' when it does not know the end
SegmentsFrom(it) == [k \in 1..(Blocks[it.of] - it.seg) |-> it.seg + k - 1]

\* the values of [first, last) and of a container, regardless of segments
FlatRange(m, first, last) ==
  [k \in 1..(Position(last) - Position(first)) |->
     Load(m, At(first.of, Position(first) + k - 1))]
Flat(m, d) == FlatRange(m, At(d, 0), At(d, Block[d] * Blocks[d]))

-----------------------------------------------------------------------------
(* find and what is made of it                                             *)

\* the first cell of the local range whose value is in P, or its end
LocalFindIf(m, d, p, P) ==
  Min({c \in p.from..(p.to - 1) : m[d][p.seg][c] \in P} \cup {p.to})

SegmentedFindIf(m, first, last, P) ==
  LET ps   == Pieces(first, last)
      r    == [i \in DOMAIN ps |-> LocalFindIf(m, first.of, ps[i], P)]
      hits == {i \in DOMAIN ps : r[i] # ps[i].to}
  IN  IF hits = {} THEN last
      ELSE Compose(first.of, ps[Min(hits)].seg, r[Min(hits)])

SegmentedFind(m, first, last, v) == SegmentedFindIf(m, first, last, {v})
SegmentedFindIfNot(m, first, last, P) == SegmentedFindIf(m, first, last, Values \ P)
SegmentedPartitionPoint(m, first, last, P) == SegmentedFindIf(m, first, last, Values \ P)

\* the last such cell of a local range, searched from its end, or its end
LocalFindLastIf(m, d, p, P) ==
  LET hits == {c \in p.from..(p.to - 1) : m[d][p.seg][c] \in P}
  IN  IF hits = {} THEN p.to ELSE Max(hits)

\* from the last segment to the first
SegmentedFindLastIf(m, first, last, P) ==
  LET ps   == Pieces(first, last)
      r    == [i \in DOMAIN ps |-> LocalFindLastIf(m, first.of, ps[i], P)]
      hits == {i \in DOMAIN ps : r[i] # ps[i].to}
  IN  IF Len(ps) = 1 THEN Compose(first.of, ps[1].seg, r[1])
      ELSE IF hits = {} THEN last
      ELSE Compose(first.of, ps[Max(hits)].seg, r[Max(hits)])

SegmentedFindLast(m, first, last, v) == SegmentedFindLastIf(m, first, last, {v})
SegmentedFindLastIfNot(m, first, last, P) == SegmentedFindLastIf(m, first, last, Values \ P)

SegmentedNoneOf(m, first, last, P) ==
  LET ps == Pieces(first, last)
  IN  \A i \in DOMAIN ps : \A c \in ps[i].from..(ps[i].to - 1) :
        m[first.of][ps[i].seg][c] \notin P

SegmentedAllOf(m, first, last, P) == SegmentedNoneOf(m, first, last, Values \ P)
SegmentedAnyOf(m, first, last, P) == ~ SegmentedNoneOf(m, first, last, P)

\* the tail behind the first element outside P must have none in P
SegmentedIsPartitioned(m, first, last, P) ==
  SegmentedNoneOf(m, SegmentedFindIfNot(m, first, last, P), last, P)

SegmentedCountIf(m, first, last, P) ==
  FoldLeft(LAMBDA n, p :
             n + Cardinality({c \in p.from..(p.to - 1) : m[first.of][p.seg][c] \in P}),
           0, Pieces(first, last))

SegmentedCount(m, first, last, v) == SegmentedCountIf(m, first, last, {v})

\* f is moved into the loop over a local range and back; what it has seen so far
SegmentedForEach(m, first, last, f) ==
  FoldLeft(LAMBDA g, p : g \o Local(m, first.of, p), f, Pieces(first, last))

-----------------------------------------------------------------------------
(* equal, mismatch, search: a walk over the second range inside the walk   *)
(* over the first                                                          *)

\* compares cells of two local ranges until they differ or one of them ends
LocalMismatch(m, d1, s1, from, to, d2, q) ==
  LET n    == Min({to - from, q.to - q.from})
      diff == {k \in 0..(n - 1) : m[d1][s1][from + k] # m[d2][q.seg][q.from + k]}
      k    == IF diff = {} THEN n ELSE Min(diff)
  IN  [cur |-> from + k, loc |-> q.from + k]

\* one local range p of the first against [first2, last2), by segments of the
\* second: stops when p has ended or at a difference
MismatchIter2(m, d1, p, first2, last2) ==
  FoldLeft(LAMBDA acc, q :
             IF acc.stop THEN acc
             ELSE LET r == LocalMismatch(m, d1, p.seg, acc.cur, p.to, first2.of, q)
                  IN  [cur  |-> r.cur,
                       it2  |-> Compose(first2.of, q.seg, r.loc),
                       stop |-> r.cur = p.to \/ r.loc # q.to],
           [cur |-> p.from, it2 |-> first2, stop |-> FALSE],
           Pieces(first2, last2))

\* the end of the storage, in place of an end that is never reached
Unreachable(d) == At(d, Block[d] * Blocks[d])

\* equal walks the second range in the same way
EqualIter2(m, d1, p, first2) ==
  LET r == MismatchIter2(m, d1, p, first2, Unreachable(first2.of))
  IN  [equal |-> r.cur = p.to, it2 |-> r.it2]

SegmentedEqual(m, first1, last1, first2) ==
  FoldLeft(LAMBDA acc, p :
             IF acc.equal THEN EqualIter2(m, first1.of, p, acc.it2) ELSE acc,
           [equal |-> TRUE, it2 |-> first2],
           Pieces(first1, last1)).equal

\* with an end of the second range, or (bounded = FALSE) without
SegmentedMismatch(m, first1, last1, first2, last2, bounded) ==
  LET walk == FoldLeft(LAMBDA acc, p :
                IF acc.stop THEN acc
                ELSE LET r == MismatchIter2(m, first1.of, p, acc.second, last2)
                     IN  [first  |-> IF p.seg = last1.seg /\ r.cur = p.to THEN last1
                                     ELSE Compose(first1.of, p.seg, r.cur),
                          second |-> r.it2,
                          stop   |-> r.cur # p.to \/ (bounded /\ r.it2 = last2)],
                [first |-> first1, second |-> first2, stop |-> FALSE],
                Pieces(first1, last1))
  IN  [first |-> walk.first, second |-> walk.second]

SegmentedSearch(m, first, last, s_first, s_last) ==
  LET from[p \in Position(first)..Position(last)] ==
        LET it == At(first.of, p)
            hit == SegmentedFindIf(m, it, last, {Load(m, s_first)})
            r   == SegmentedMismatch(m, hit, last, s_first, s_last, TRUE)
        IN  IF it = last \/ hit = last THEN last
            ELSE IF r.second = s_last THEN hit
            ELSE IF r.first = last THEN last
            ELSE from[Position(Succ(hit))]
  IN  IF s_first = s_last THEN first ELSE from[Position(first)]

-----------------------------------------------------------------------------
(* search_n: the scan of one local range with the run carried into it      *)

Scanned(found, consecutive, third) ==
  [found |-> found, consecutive |-> consecutive, third |-> third]

\* the last of the n cells from c on that has another value than v, or c - 1
LastOther(f, c, n, v) == Max({k \in c..(c + n - 1) : f[k] # v} \cup {c - 1})

\* phase 3: the run at the end of the range, which the next one may go on with
ScanTail(f, lcur, lend, v) ==
  LET tail == LastOther(f, lcur, lend - lcur, v)
  IN  IF lcur = lend THEN Scanned(FALSE, 0, lend)
      ELSE IF tail < lcur THEN Scanned(FALSE, lend - lcur, lcur)
      ELSE Scanned(FALSE, lend - tail, tail + 1)

\* phase 2: windows of count cells, each compared from its end
ScanWindows(f, from, lend, count, v) ==
  LET probe[c \in from..(lend - 1)] ==
        LET other == LastOther(f, c - count + 1, count, v)
        IN  IF other < c - count + 1 THEN Scanned(TRUE, count, c - count + 1)
            ELSE IF other >= lend - count THEN ScanTail(f, other + 1, lend, v)
            ELSE probe[other + count]
  IN  IF count <= lend - from THEN probe[from + count - 1]
      ELSE ScanTail(f, from, lend, v)

\* phase 1: what is missing of the run of `consecutive' before the range
ScanSegment(f, p, consecutive, count, v) ==
  LET ncheck == Min({count - consecutive, p.to - p.from})
      other  == LastOther(f, p.from, ncheck, v)
  IN  IF consecutive = 0 THEN ScanWindows(f, p.from, p.to, count, v)
      ELSE IF ncheck = 0 THEN Scanned(FALSE, consecutive, p.to)
      ELSE IF other < p.from
           THEN Scanned(consecutive + ncheck = count, consecutive + ncheck, p.to)
      ELSE ScanWindows(f, other + 1, p.to, count, v)

\* the run is carried from one local range to the next, and where it began
SearchNScan(m, first, last, count, v) ==
  FoldLeft(LAMBDA acc, p :
             IF acc.found THEN acc
             ELSE LET r == ScanSegment(m[first.of][p.seg], p, acc.consecutive, count, v)
                  IN  Scanned(r.found, r.consecutive,
                              IF r.third # p.to THEN Compose(first.of, p.seg, r.third)
                              ELSE acc.third),
           Scanned(FALSE, 0, last), Pieces(first, last))

SegmentedSearchN(m, first, last, count, v) ==
  LET r == SearchNScan(m, first, last, count, v)
  IN  IF count <= 0 THEN first
      ELSE IF count = 1 THEN SegmentedFind(m, first, last, v)
      ELSE IF Position(last) - Position(first) < count THEN last
      ELSE IF r.found THEN r.third ELSE last

-----------------------------------------------------------------------------
(* is_sorted: the last value seen goes along from one segment to the next  *)

\* Faulty form: the first element of a local range is not compared.
LocalSortedUntilAlone(m, d, p, prev) ==
  LET cur == Min({c \in (p.from + 1)..(p.to - 1) : m[d][p.seg][c] < m[d][p.seg][c - 1]}
                   \cup {p.to})
  IN  [cur |-> cur, prev |-> prev]

LocalSortedUntil(m, d, p, prev) ==
  LET before(c) == IF c = p.from THEN prev ELSE m[d][p.seg][c - 1]
      cur == Min({c \in p.from..(p.to - 1) : m[d][p.seg][c] < before(c)} \cup {p.to})
  IN  [cur |-> cur, prev |-> before(cur)]

SegmentedIsSortedUntil(m, first, last) ==
  LET d    == first.of
      walk == FoldLeft(LAMBDA acc, p :
                IF acc.stop THEN acc
                ELSE LET r == LocalSortedUntil(m, d, p, acc.prev)
                     IN  [it |-> Compose(d, p.seg, r.cur), prev |-> r.prev,
                          stop |-> r.cur # p.to],
                [it |-> Succ(first), prev |-> Load(m, first), stop |-> FALSE],
                Pieces(Succ(first), last))
  IN  IF first = last THEN first ELSE walk.it

SegmentedIsSorted(m, first, last) == SegmentedIsSortedUntil(m, first, last) = last
============================================================================
