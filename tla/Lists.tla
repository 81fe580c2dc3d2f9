-------------------------------- MODULE Lists --------------------------------
(***************************************************************************)
(* list.hpp and slist.hpp.  Places are those of list: the position p of    *)
(* slist's list-like interface, whose insert_after and erase_after work    *)
(* after previous(p), is the node that follows the first p.                *)
(***************************************************************************)
EXTENDS NodeHolder

LOCAL INSTANCE SequencesExt

\* emplace, insert of one element, push_front and push_back
EmplaceNode(w, o, p, x) ==
  LET b == Fresh(w) IN Then(CreateNode(w, x), LAMBDA m : Link(m, o, p, <<b>>))

\* insert of a range or of copies
InsertRange(w, o, p, vals) ==
  IF Version2(w.obj[o].kind) THEN AllocateManyAndConstruct(w, o, p, vals)
  ELSE InsertEach(w, o, p, vals)

\* list's resize: priv_try_shrink, or the elements that lack.
ResizeList(w, o, n, x) ==
  LET size == Size(w, o)
  IN  IF n < size THEN EraseRange(w, o, n, size - n)
      ELSE InsertRange(w, o, size, Filled(n - size, x))

\* slist's resize with a value: as many copies as the new size.
ResizeSlist(w, o, n, x) ==
  LET size == Size(w, o)
  IN  IF n < size THEN EraseRange(w, o, n, size - n)
      ELSE InsertRange(w, o, size, Filled(n, x))

\* assign: assignments, and the rest is erased or inserted.
AssignList(w, o, vals) ==
  LET common == Smaller(Len(vals), Size(w, o))
      over   == FoldLeft(LAMBDA m, i : CopyAssign(m, <<vals[i]>>, w.obj[o].nodes[i], 0),
                         w, [i \in 1 .. common |-> i])
      Remain(m) == IF Len(vals) = common THEN EraseRange(m, o, common, Size(m, o) - common)
                   ELSE InsertRange(m, o, common, Rest(vals, common))
  IN  Then(over, Remain)

-----------------------------------------------------------------------------
(* The operations that link nodes anew: the places of the elements that stay, *)
(* in the order they leave.  Their predicates do not throw here.              *)

\* The nodes of a list in the order the places of order say
Relinked(w, o, order) == WithNodes(w, o, [k \in DOMAIN order |-> w.obj[o].nodes[order[k]]])

\* sort: stable
SortedPlaces(vals) ==
  LET Rank(i) == Cardinality({j \in DOMAIN vals : vals[j] < vals[i]
                                                  \/ (vals[j] = vals[i] /\ j <= i)})
  IN  [k \in DOMAIN vals |-> CHOOSE i \in DOMAIN vals : Rank(i) = k]

\* unique: an element is dropped if it equals the one kept before it.
UniquePlaces(vals) ==
  SelectSeq([i \in DOMAIN vals |-> i], LAMBDA i : i = 1 \/ vals[i] # vals[i - 1])

\* remove
RemainingPlaces(vals, x) == SelectSeq([i \in DOMAIN vals |-> i], LAMBDA i : vals[i] # x)

\* reverse
ReversedPlaces(vals) == [k \in DOMAIN vals |-> Len(vals) - k + 1]

\* The nodes at the places of kept stay, in that order; the rest is disposed of.
Rearrange(w, o, kept) ==
  LET after == Relinked(w, o, kept)
  IN  DestroyNodes(after, SetToSeq(OwnedBlocks(w, o) \ OwnedBlocks(after, o)))

\* splice of the n nodes of x after i to place p of o, another list.
Splice(w, o, p, x, i, n) == Link(Unlink(w, x, i, n), o, p, NodesAt(w, x, i, n))

\* merge of two sorted lists: the elements of o come before equal ones of x.
Merge(w, o, x) ==
  WithNodes(Relinked(WithNodes(w, o, w.obj[o].nodes \o w.obj[x].nodes), o,
                     SortedPlaces(Contents(w, o) \o Contents(w, x))), x, <<>>)

=============================================================================
