------------------------------ MODULE FlatTree ------------------------------
(***************************************************************************)
(* detail/flat_tree.hpp over a vector of version 1: the engine of flat_set *)
(* and flat_map ("flat_set") and of flat_multiset and flat_multimap        *)
(* ("flat_multiset"), with the vector operations only it calls (merge,     *)
(* merge_unique).  An element is its key.                                  *)
(*                                                                         *)
(* Callers compare elements, so no element of the container is Moved.  The *)
(* algorithms of Boost.Move (pdqsort, adaptive_sort, adaptive_merge,       *)
(* inplace_set_unique_difference) are modelled by what they leave, and do  *)
(* not throw.                                                              *)
(***************************************************************************)
EXTENDS Vector

LOCAL INSTANCE SequencesExt
LOCAL INSTANCE TLC

InOrder(s) == SortSeq(s, LAMBDA a, b : a < b)

\* adaptive_sort of the whole, and adaptive_merge of two sorted parts
Sort(w, o) ==
  IF Fine(w) /\ w.obj[o].size > 0
  THEN Write(w, w.obj[o].start, 0, InOrder(Contents(w, o))) ELSE w

\* priv_lower_bound and priv_upper_bound in [b, e)
LowerBound(s, b, e, x) == b + Cardinality({i \in b + 1 .. e : s[i] < x})
UpperBound(s, b, e, x) == b + Cardinality({i \in b + 1 .. e : s[i] <= x})

\* priv_insert_unique_prepare: the place for key x among those of [b, e), or
\* NoPlace if it is there.
NoPlace == -1

\* Faulty form: whether the key is there is not asked.
UniquePlaceAlways(s, b, e, x) == LowerBound(s, b, e, x)

UniquePlace(s, b, e, x) ==
  LET p == LowerBound(s, b, e, x)
  IN  IF p = e \/ x < s[p + 1] THEN p ELSE NoPlace

\* The same with a hint.
UniqueHintPlace(s, hint, x) ==
  IF hint # Len(s) /\ x >= s[hint + 1] THEN UniquePlace(s, hint, Len(s), x)
  ELSE IF hint = 0 \/ s[hint] < x THEN hint
  ELSE IF s[hint] = x THEN NoPlace
  ELSE UniquePlace(s, 0, hint - 1, x)

\* priv_insert_commit
Commit(w, o, p, x) == IF p = NoPlace THEN w ELSE Emplace(w, o, p, x)

\* insert_unique, emplace_unique, try_emplace, without and with a hint
InsertUnique(w, o, x) == Commit(w, o, UniquePlace(Contents(w, o), 0, w.obj[o].size, x), x)
InsertUniqueHint(w, o, hint, x) == Commit(w, o, UniqueHintPlace(Contents(w, o), hint, x), x)

\* priv_insert_equal_prepare
\* Faulty form: the element before the hint is not compared.
EqualHintPlaceTrusting(s, hint, x) ==
  IF hint # Len(s) /\ s[hint + 1] < x THEN LowerBound(s, hint, Len(s), x) ELSE hint

EqualHintPlace(s, hint, x) ==
  IF hint # Len(s) /\ s[hint + 1] < x THEN LowerBound(s, hint, Len(s), x)
  ELSE IF hint = 0 \/ s[hint] <= x THEN hint
  ELSE UpperBound(s, 0, hint, x)

\* insert_equal and emplace_equal, without and with a hint
InsertEqual(w, o, x) == Emplace(w, o, UpperBound(Contents(w, o), 0, w.obj[o].size, x), x)
InsertEqualHint(w, o, hint, x) == Emplace(w, o, EqualHintPlace(Contents(w, o), hint, x), x)

\* insert_unique_range: vals are inserted at the end, sorted, and what is there
\* already is erased, before the two parts are merged.
InsertUniqueRange(w, o, vals) ==
  LET n      == w.obj[o].size
      there  == Contents(w, o)
      kept   == SetToSortSeq(ToSet(vals) \ ToSet(there), LAMBDA a, b : a < b)
      extra  == Len(vals) - Len(kept)
      Unique(m) == Write(m, m.obj[o].start, n, kept \o Filled(extra, Moved))
  IN  Then(Insert(w, o, n, vals),
           LAMBDA m : Sort(Erase(Unique(m), o, n + Len(kept), extra), o))

\* insert_equal_range
InsertEqualRange(w, o, vals) ==
  IF vals = <<>> THEN w ELSE Sort(Insert(w, o, w.obj[o].size, vals), o)

\* erase of a key
EraseKey(w, o, x) ==
  LET s == Contents(w, o)
      p == LowerBound(s, 0, Len(s), x)
  IN  Erase(w, o, p, UpperBound(s, 0, Len(s), x) - p)

-----------------------------------------------------------------------------
(* Ordered ranges *)

\* priv_merge_in_new_buffer: both parts are built in the new buffer in order,
\* those of the range that come after every old element by a move.  On a
\* throw the old elements that were moved have no value to rely on.
MergeInNewBuffer(w, o, vals) ==
  LET v       == w.obj[o]
      s       == Contents(w, o)
      c       == Fresh(w)
      total   == v.size + Len(vals)
      oldAt   == [i \in 1 .. v.size |-> i - 1 + LowerBound(vals, 0, Len(vals), s[i])]
      newAt   == [k \in 1 .. Len(vals) |-> k - 1 + UpperBound(s, 0, v.size, vals[k])]
      Copied(k) == \E i \in 1 .. v.size : vals[k] < s[i]
      Costs(t) == Cardinality({k \in 1 .. Len(vals) : newAt[k] < t /\ Copied(k)}) * Cost(w, 1)
                  + (t - Cardinality({k \in 1 .. Len(vals) : newAt[k] < t /\ Copied(k)}))
                    * MoveCost(w, 1)
      Stop(m) == CHOOSE t \in 0 .. total : Costs(t + 1) >= m.fuse /\ Costs(t) < m.fuse
      Torn(m) == Write(m, v.start, 0,
                       Filled(Cardinality({i \in 1 .. v.size : oldAt[i] < Stop(m)}), Moved))
      Whole(m) == Write(Spent(m, Costs(total)), c, 0, InOrder(s \o vals))
  IN  Then(Allocate(w, total),
           LAMBDA m : IF Fails(m, Costs(total))
                      THEN Deallocate(Threw(Torn(m), "element"), c)
                      ELSE WithMembers(Emptied(Whole(m), o), o, Holder(v.kind, c, total, total)))

\* vector::merge, and insert_equal_range of an ordered range
InsertOrderedEqual(w, o, vals) ==
  LET v == w.obj[o]
  IN  IF v.cap - v.size < Len(vals) THEN MergeInNewBuffer(w, o, vals)
      ELSE Sort(Insert(w, o, v.size, vals), o)

\* priv_set_difference_back: the elements of an ordered range that are not
\* there go to the end one by one, and from the first one that follows every
\* old element, all together.
SetDifferenceBack(w, o, vals) ==
  LET s == Contents(w, o)
      Past(k) == \A i \in DOMAIN s : s[i] < vals[k] \/ \E j \in 1 .. k - 1 : vals[j] = s[i]
      There(k) == vals[k] \in ToSet(s) /\ vals[k] \notin ToSet(Lead(vals, k - 1))
      before == {k \in DOMAIN vals : ~Past(k)}
      new    == SetToSortSeq({k \in before : ~There(k)}, LAMBDA i, j : i < j)
      TheRest(m) == Insert(m, o, m.obj[o].size, Rest(vals, Cardinality(before)))
  IN  TheRest(FoldLeft(LAMBDA m, k : EmplaceBack(m, o, vals[k]), w, new))

\* vector::merge_unique, and insert_unique_range of an ordered range
InsertOrderedUnique(w, o, vals) == Sort(SetDifferenceBack(w, o, vals), o)

\* What a merge that came to m leaves of x: the elements that o does not take
\* keep their value; when an element throws, none of the others has a value to
\* rely on.
Merged(m, before, o, x) ==
  LET vals == Contents(before, x)
      unique == before.obj[o].kind = "flat_set"
      Stays(k) == /\ unique
                  /\ vals[k] \in ToSet(Contents(before, o))
                  /\ vals[k] \notin ToSet(Lead(vals, k - 1))
      Taken(k) == /\ ~Stays(k)
                  /\ \/ m.thrown # "alloc"
                     \/ Cardinality({j \in 1 .. k : ~Stays(j)})
                          <= m.obj[o].size - before.obj[o].size
  IN  Write(m, before.obj[x].start, 0,
            [k \in DOMAIN vals |-> IF Taken(k) THEN Moved ELSE vals[k]])

\* merge: the elements of x are moved into o, with or without the duplicates.
Merge(w, o, x) ==
  LET moving == [w EXCEPT !.moving = TRUE]
  IN  Merged(IF w.obj[o].kind = "flat_set" THEN InsertOrderedUnique(moving, o, Contents(w, x))
             ELSE InsertOrderedEqual(moving, o, Contents(w, x)),
             w, o, x)

=============================================================================
