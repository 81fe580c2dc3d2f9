------------------------ MODULE SegmentedAlgorithms ------------------------
(***************************************************************************)
(* Calls of the segmented algorithms on three deques a, b and out, one     *)
(* action for each algorithm, against what the algorithm promises on a     *)
(* flat sequence (the Flat operators).  A program makes one call and looks *)
(* at what it returned and at the elements.                                *)
(***************************************************************************)
EXTENDS Integers, SegmentedChanges, SequencesExt, FiniteSetsExt

CONSTANTS
  Initial,       \* the memories the calls start from
  P,             \* the predicate: the set of values it holds for
  Gen,           \* what the successive calls of a generator return
  Op,            \* the unary operation of transform, a function on Values
  Counts,        \* the counts of fill_n, generate_n, copy_n and search_n
  RunsCarried    \* whether search_n is called where a run may cross segments

VARIABLES
  mem,   \* the cells of the containers
  call   \* NoCall, or the call made: its answer and elements, and the promised ones

vars == <<mem, call>>

NoCall == [op |-> "none"]
Containers == DOMAIN Block
N(d) == Block[d] * Blocks[d]

Init == mem \in Initial /\ call = NoCall

-----------------------------------------------------------------------------
(* What the algorithms promise, on sequences: where the segmented ones     *)
(* answer with an iterator, an offset from the first element.              *)

FlatFind(s, wanted) == Min({k \in DOMAIN s : s[k] \in wanted} \cup {Len(s) + 1}) - 1

FlatFindLast(s, wanted) ==
  LET hits == {k \in DOMAIN s : s[k] \in wanted}
  IN  IF hits = {} THEN Len(s) ELSE Max(hits) - 1

FlatCount(s, wanted) == Cardinality({k \in DOMAIN s : s[k] \in wanted})

FlatIsPartitioned(s, wanted) ==
  \A i, j \in DOMAIN s : i < j /\ s[j] \in wanted => s[i] \in wanted

\* the length of what s and t have in common at their begin
FlatCommon(s, t) ==
  Max({n \in 0..Min({Len(s), Len(t)}) : SubSeq(s, 1, n) = SubSeq(t, 1, n)})

FlatSearch(s, t) ==
  Min({k \in 0..(Len(s) - Len(t)) : SubSeq(s, k + 1, k + Len(t)) = t} \cup {Len(s)})

FlatSearchN(s, n, v) == FlatSearch(s, [k \in 1..n |-> v])

FlatSortedUntil(s) ==
  Max({n \in 0..Len(s) : \A k \in 2..n : s[k - 1] <= s[k]})

FlatIsSorted(s) == FlatSortedUntil(s) = Len(s)

\* t over the cells of s from offset p on
FlatOver(s, p, t) ==
  [k \in DOMAIN s |-> IF k \in (p + 1)..(p + Len(t)) THEN t[k - p] ELSE s[k]]

FlatKeep(s, wanted) == SelectSeq(s, LAMBDA v : v \in wanted)

\* the k-th element outside wanted among the first n, where n are in wanted, changes
\* places with the k-th one in wanted, counted from the end, among the others
FlatPartition(s, wanted) ==
  LET n   == FlatCount(s, wanted)
      out == {k \in 1..n : s[k] \notin wanted}
      in  == {k \in (n + 1)..Len(s) : s[k] \in wanted}
      mate(k) == CHOOSE j \in in :
        Cardinality({i \in in : i > j}) = Cardinality({i \in out : i < k})
  IN  [k \in DOMAIN s |->
         IF k \in out THEN s[mate(k)]
         ELSE IF k \in in THEN s[CHOOSE i \in out : mate(i) = k]
         ELSE s[k]]

\* the ordered sequence that has n(v) elements v
FlatSorted(values, n(_)) ==
  FoldLeft(LAMBDA s, v : s \o [k \in 1..n(v) |-> v], <<>>, SetToSortSeq(values, <))

\* multisets: n, k times v in the one and the other
FlatMerge(kind, values, s, t) ==
  FlatSorted(values, LAMBDA v :
    LET n == FlatCount(s, {v})
        k == FlatCount(t, {v})
    IN  CASE kind = "merge"                -> n + k
          [] kind = "union"                -> Max({n, k})
          [] kind = "intersection"         -> Min({n, k})
          [] kind = "difference"           -> Max({n - k, 0})
          [] kind = "symmetric_difference" -> Max({n - k, k - n}))

-----------------------------------------------------------------------------
(* What a call shows                                                       *)

\* every element of every container, after the write of vs at `to' of the
\* flat contents f
Flats == [d \in Containers |-> Flat(mem, d)]
Written(f, to, vs) == [f EXCEPT ![to.of] = FlatOver(@, Position(to), vs)]

Call(op, got, promised, m, flats) ==
  /\ mem' = m
  /\ call' = [op |-> op, got |-> got, promised |-> promised, flats |-> flats]

\* an algorithm that only reads and returns an iterator
Points(op, it, first, offset) == Call(op, Position(it) - Position(first), offset, mem, Flats)
\* one that only reads and returns a value
Answers(op, got, promised) == Call(op, got, promised, mem, Flats)
\* one that writes vs from `to' on and returns the iterator r.at, promised to
\* be n behind `to'
Writes(op, r, to, n, vs) ==
  Call(op, Position(r.at) - Position(to), n, r.m, Written(Flats, to, vs))
\* one that writes and returns nothing
Changes(op, m, first, vs) == Call(op, 0, 0, m, Written(Flats, first, vs))

-----------------------------------------------------------------------------
(* On one range [f, l) with the values s                                   *)

FindIf(f, l, s)       == Points("find_if", SegmentedFindIf(mem, f, l, P), f, FlatFind(s, P))
Find(f, l, s)         == \E v \in P : Points("find", SegmentedFind(mem, f, l, v), f, FlatFind(s, {v}))
FindIfNot(f, l, s)    == Points("find_if_not", SegmentedFindIfNot(mem, f, l, P), f, FlatFind(s, Values \ P))
FindLastIf(f, l, s)   == Points("find_last_if", SegmentedFindLastIf(mem, f, l, P), f, FlatFindLast(s, P))
FindLast(f, l, s)     == \E v \in P : Points("find_last", SegmentedFindLast(mem, f, l, v), f, FlatFindLast(s, {v}))
FindLastIfNot(f, l, s) ==
  Points("find_last_if_not", SegmentedFindLastIfNot(mem, f, l, P), f, FlatFindLast(s, Values \ P))

NoneOf(f, l, s) == Answers("none_of", SegmentedNoneOf(mem, f, l, P), FlatCount(s, P) = 0)
AllOf(f, l, s)  == Answers("all_of", SegmentedAllOf(mem, f, l, P), FlatCount(s, P) = Len(s))
AnyOf(f, l, s)  == Answers("any_of", SegmentedAnyOf(mem, f, l, P), FlatCount(s, P) > 0)
CountIf(f, l, s) == Answers("count_if", SegmentedCountIf(mem, f, l, P), FlatCount(s, P))
Count(f, l, s)  == \E v \in P : Answers("count", SegmentedCount(mem, f, l, v), FlatCount(s, {v}))
ForEach(f, l, s) == Answers("for_each", SegmentedForEach(mem, f, l, <<>>), s)

IsPartitioned(f, l, s) ==
  Answers("is_partitioned", SegmentedIsPartitioned(mem, f, l, P), FlatIsPartitioned(s, P))
PartitionPoint(f, l, s) ==
  /\ FlatIsPartitioned(s, P)
  /\ Points("partition_point", SegmentedPartitionPoint(mem, f, l, P), f, FlatCount(s, P))

IsSortedUntil(f, l, s) ==
  Points("is_sorted_until", SegmentedIsSortedUntil(mem, f, l), f, FlatSortedUntil(s))
IsSortedRange(f, l, s) == Answers("is_sorted", SegmentedIsSorted(mem, f, l), FlatIsSorted(s))

\* a run that may cross segments is counted wrong: see RunsCarried
SearchN(f, l, s) ==
  \E n \in Counts, v \in P :
    /\ RunsCarried \/ n <= 1 \/ Len(Pieces(f, l)) = 1
    /\ Points("search_n", SegmentedSearchN(mem, f, l, n, v), f, FlatSearchN(s, n, v))

Reads(f, l, s) ==
  \/ FindIf(f, l, s) \/ Find(f, l, s) \/ FindIfNot(f, l, s)
  \/ FindLastIf(f, l, s) \/ FindLast(f, l, s) \/ FindLastIfNot(f, l, s)
  \/ NoneOf(f, l, s) \/ AllOf(f, l, s) \/ AnyOf(f, l, s)
  \/ CountIf(f, l, s) \/ Count(f, l, s) \/ ForEach(f, l, s)
  \/ IsPartitioned(f, l, s) \/ PartitionPoint(f, l, s)
  \/ IsSortedUntil(f, l, s) \/ IsSortedRange(f, l, s) \/ SearchN(f, l, s)

-----------------------------------------------------------------------------
(* That write the range                                                    *)

Value == CHOOSE v \in P : TRUE
Other == CHOOSE v \in Values : v \notin P

Fill(f, l, s) ==
  Changes("fill", SegmentedFill(mem, f, l, Value), f, [k \in DOMAIN s |-> Value])
Generate(f, l, s) ==
  Changes("generate", SegmentedGenerate(mem, f, l, Gen), f, SubSeq(Gen, 1, Len(s)))
ReplaceIf(f, l, s) ==
  Changes("replace_if", SegmentedReplaceIf(mem, f, l, P, Other), f,
          [k \in DOMAIN s |-> IF s[k] \in P THEN Other ELSE s[k]])
Replace(f, l, s) ==
  Changes("replace", SegmentedReplace(mem, f, l, Value, Other), f,
          [k \in DOMAIN s |-> IF s[k] = Value THEN Other ELSE s[k]])
ReverseRange(f, l, s) == Changes("reverse", SegmentedReverse(mem, f, l), f, Reverse(s))

\* the elements behind the new end are left as they are
RemoveIf(f, l, s) ==
  Writes("remove_if", SegmentedRemoveIf(mem, f, l, P), f,
         Len(FlatKeep(s, Values \ P)), FlatKeep(s, Values \ P))
RemoveValue(f, l, s) ==
  Writes("remove", SegmentedRemove(mem, f, l, Value), f,
         Len(FlatKeep(s, Values \ {Value})), FlatKeep(s, Values \ {Value}))
Partition(f, l, s) ==
  Writes("partition", SegmentedPartition(mem, f, l, P), f, FlatCount(s, P), FlatPartition(s, P))
StablePartition(f, l, s) ==
  Writes("stable_partition", SegmentedStablePartition(mem, f, l, P), f,
         FlatCount(s, P), FlatKeep(s, P) \o FlatKeep(s, Values \ P))

\* from f on, as far as the storage reaches
FillN(f, s) ==
  \E n \in Counts :
    /\ n <= Len(s)
    /\ Writes("fill_n", SegmentedFillN(mem, f, n, Value), f, n, [k \in 1..n |-> Value])
GenerateN(f, s) ==
  \E n \in Counts :
    /\ n <= Len(s)
    /\ Writes("generate_n", SegmentedGenerateN(mem, f, n, Gen), f, n, SubSeq(Gen, 1, n))

Modifies(f, l, s) ==
  \/ Fill(f, l, s) \/ Generate(f, l, s) \/ Replace(f, l, s) \/ ReplaceIf(f, l, s)
  \/ ReverseRange(f, l, s) \/ RemoveIf(f, l, s) \/ RemoveValue(f, l, s)
  \/ Partition(f, l, s) \/ StablePartition(f, l, s)
  \/ FillN(f, s) \/ GenerateN(f, s)

-----------------------------------------------------------------------------
(* That write elsewhere, from `to' on                                      *)

Copy(f, l, s, to) == Writes("copy", SegmentedCopy(mem, f, l, to), to, Len(s), s)
CopyIf(f, l, s, to) ==
  Writes("copy_if", SegmentedCopyIf(mem, f, l, to, P), to, Len(FlatKeep(s, P)), FlatKeep(s, P))
CopyN(f, s, to) ==
  \E n \in Counts :
    /\ n <= Len(s)
    /\ Writes("copy_n", SegmentedCopyN(mem, f, n, to), to, n, SubSeq(s, 1, n))
RemoveCopyIf(f, l, s, to) ==
  Writes("remove_copy_if", SegmentedRemoveCopyIf(mem, f, l, to, P), to,
         Len(FlatKeep(s, Values \ P)), FlatKeep(s, Values \ P))
RemoveCopy(f, l, s, to) ==
  Writes("remove_copy", SegmentedRemoveCopy(mem, f, l, to, Value), to,
         Len(FlatKeep(s, Values \ {Value})), FlatKeep(s, Values \ {Value}))
ReverseCopy(f, l, s, to) ==
  Writes("reverse_copy", SegmentedReverseCopy(mem, f, l, to), to, Len(s), Reverse(s))
Transform(f, l, s, to) ==
  Writes("transform", SegmentedTransform(mem, f, l, to, Op), to, Len(s),
         [k \in DOMAIN s |-> Op[s[k]]])

SwapRanges(f, l, s, to) ==
  LET r == SegmentedSwapRanges(mem, f, l, to)
      t == FlatRange(mem, to, At(to.of, Position(to) + Len(s)))
  IN  Call("swap_ranges", Position(r.at) - Position(to), Len(s), r.m,
           Written(Written(Flats, to, s), f, t))

\* the elements in P from `to' on, the others from behind where they may end
PartitionCopy(f, l, s, to) ==
  LET no == At(to.of, Position(to) + Len(s))
      r  == SegmentedPartitionCopy(mem, f, l, to, no, P)
  IN  Call("partition_copy",
           <<Position(r.at) - Position(to), Position(r.other) - Position(no)>>,
           <<FlatCount(s, P), FlatCount(s, Values \ P)>>,
           r.m, Written(Written(Flats, to, FlatKeep(s, P)), no, FlatKeep(s, Values \ P)))

Copies(f, l, s, to) ==
  \/ Copy(f, l, s, to) \/ CopyIf(f, l, s, to) \/ CopyN(f, s, to)
  \/ RemoveCopyIf(f, l, s, to) \/ RemoveCopy(f, l, s, to) \/ ReverseCopy(f, l, s, to)
  \/ Transform(f, l, s, to) \/ SwapRanges(f, l, s, to) \/ PartitionCopy(f, l, s, to)

-----------------------------------------------------------------------------
(* On two ranges, [f, l) with the values s and [g, k) with the values t    *)

\* without the end of the second range, which is as long as the first
Equal(f, l, s, g) ==
  /\ Position(g) + Len(s) <= N(g.of)
  /\ Answers("equal", SegmentedEqual(mem, f, l, g),
             s = FlatRange(mem, g, At(g.of, Position(g) + Len(s))))
Mismatch(f, l, s, g) ==
  LET r == SegmentedMismatch(mem, f, l, g, Unreachable(g.of), FALSE)
      n == FlatCommon(s, FlatRange(mem, g, At(g.of, Position(g) + Len(s))))
  IN  /\ Position(g) + Len(s) <= N(g.of)
      /\ Answers("mismatch", <<Position(r.first) - Position(f), Position(r.second) - Position(g)>>,
                 <<n, n>>)

MismatchBounded(f, l, s, g, k, t) ==
  LET r == SegmentedMismatch(mem, f, l, g, k, TRUE)
      n == FlatCommon(s, t)
  IN  Answers("mismatch, bounded",
              <<Position(r.first) - Position(f), Position(r.second) - Position(g)>>, <<n, n>>)
Search(f, l, s, g, k, t) ==
  Points("search", SegmentedSearch(mem, f, l, g, k), f, FlatSearch(s, t))

Compares(f, l, s, g, k, t) ==
  \/ MismatchBounded(f, l, s, g, k, t) \/ Search(f, l, s, g, k, t)
  \/ Len(t) = 0 /\ Equal(f, l, s, g)
  \/ Len(t) = 0 /\ Mismatch(f, l, s, g)

MergesTo(op, r, kind, s, t, to) ==
  LET vs == FlatMerge(kind, Values, s, t) IN Writes(op, r, to, Len(vs), vs)

Merge(f, l, s, g, k, t, to) ==
  MergesTo("merge", SegmentedMerge(mem, f, l, g, k, to), "merge", s, t, to)
SetUnion(f, l, s, g, k, t, to) ==
  MergesTo("set_union", SegmentedSetUnion(mem, f, l, g, k, to), "union", s, t, to)
SetIntersection(f, l, s, g, k, t, to) ==
  MergesTo("set_intersection", SegmentedSetIntersection(mem, f, l, g, k, to),
           "intersection", s, t, to)
SetDifference(f, l, s, g, k, t, to) ==
  MergesTo("set_difference", SegmentedSetDifference(mem, f, l, g, k, to),
           "difference", s, t, to)
SetSymmetricDifference(f, l, s, g, k, t, to) ==
  MergesTo("set_symmetric_difference", SegmentedSetSymmetricDifference(mem, f, l, g, k, to),
           "symmetric_difference", s, t, to)

Merges(f, l, s, g, k, t, to) ==
  /\ FlatIsSorted(s) /\ FlatIsSorted(t)
  /\ \/ Merge(f, l, s, g, k, t, to) \/ SetUnion(f, l, s, g, k, t, to)
     \/ SetIntersection(f, l, s, g, k, t, to) \/ SetDifference(f, l, s, g, k, t, to)
     \/ SetSymmetricDifference(f, l, s, g, k, t, to)

-----------------------------------------------------------------------------
\* where the destination begins: at the begin of a segment and inside one
Destinations == {At("out", 0), At("out", Block["out"] - 1)}

OneRange ==
  \E d \in {"a", "b"} : \E i \in 0..N(d) : \E j \in i..N(d) :
    LET f == At(d, i)
        l == At(d, j)
        s == FlatRange(mem, f, l)
    IN  \/ Reads(f, l, s)
        \/ Modifies(f, l, s)
        \/ \E to \in Destinations : Copies(f, l, s, to)

TwoRanges ==
  \E i \in 0..N("a") : \E j \in i..N("a") : \E x \in 0..N("b") : \E y \in x..N("b") :
    LET f == At("a", i)
        l == At("a", j)
        g == At("b", x)
        k == At("b", y)
        s == FlatRange(mem, f, l)
        t == FlatRange(mem, g, k)
    IN  \/ Compares(f, l, s, g, k, t)
        \/ \E to \in Destinations : Merges(f, l, s, g, k, t, to)

\* the program has seen what it wanted
Done == call # NoCall /\ UNCHANGED vars

Next ==
  \/ call = NoCall /\ (OneRange \/ TwoRanges)
  \/ Done
Spec == Init /\ [][Next]_vars

-----------------------------------------------------------------------------
(* An algorithm answers with the position or the value that the same       *)
(* algorithm on the flat range has, wherever the range and the destination *)
(* begin and end in their segments: an exit from the walk is never missed  *)
(* at the end of a segment, and no iterator stays at the end of one.       *)
ResultAsFlat == call # NoCall => call.got = call.promised

(* The elements of every container are those the flat algorithm leaves: no *)
(* element is skipped, repeated or written outside the destination where a *)
(* segment of the source or of the destination ends.                       *)
ContentsAsFlat == call # NoCall => \A d \in Containers : Flat(mem, d) = call.flats[d]

=============================================================================
