---------------------------- MODULE MCContainers ----------------------------
(***************************************************************************)
(* Instances of Containers.  Which block an allocator lends makes no       *)
(* difference, so two states are the same (Shapes) when the containers     *)
(* are, with blocks seen as what is in them.                               *)
(***************************************************************************)
EXTENDS Containers

Held(b) == IF b = None THEN <<>> ELSE IF b \in DOMAIN heap THEN heap[b] ELSE <<Moved>>

Shape(o) ==
  LET v == obj[o]
  IN  CASE IsStable(o) -> <<v.cap, Elems(o), Len(v.pool), v.poolSize, S!Linked(Now, o)>>
        [] IsDeque(o) -> <<v.start, v.finish, [s \in DOMAIN v.slots |-> Held(v.slots[s])]>>
        [] IsDevector(o) -> <<v.front, v.back, Held(v.start)>>
        [] IsNodes(o) -> <<v.kind, Elems(o)>>
        [] OTHER -> <<v.size, v.cap, v.start = Internal(o), Held(v.start)>>

Shapes ==
  <<bounds, obj[1].kind, Shape(1), Shape(2), ub, promised, reserved,
    <<heap, obj, promised>> = <<heap, obj, promised>>, watched.of, watched.at, ReferencesValid, Cardinality(DOMAIN heap),
    Held(handle)>>

-----------------------------------------------------------------------------

\* Two containers of a kind, whose elements have n values; vals are the ranges.
Twins(kind, n, vals) ==
  [kinds |-> <<kind, kind>>, keys |-> 1 .. n, ranges |-> vals, reserves |-> {2}, size |-> 3,
   cells |-> 5, fuse |-> 3, both |-> FALSE, called |-> {1}, watching |-> TRUE]

Two   == {<<>>, <<2, 1>>}
Ones  == {<<>>, <<1, 1>>}
Mixed == {<<>>, <<1, 3>>, <<2, 1, 2>>}

Vectors ==
  {[Twins(kind, 2, Two) EXCEPT !.both = TRUE] : kind \in {"vector", "small_vector"}}
  \cup {[Twins("static_vector", 2, Two) EXCEPT !.both = TRUE, !.size = 4],
        [Twins("vector2", 2, Two) EXCEPT !.both = TRUE, !.fuse = 1, !.size = 2],
        [Twins("vector2", 2, Two) EXCEPT !.size = 4, !.watching = FALSE],
        [Twins("vector2", 1, {<<1>>, <<1, 1>>}) EXCEPT !.size = 5, !.fuse = 4,
                                                       !.watching = FALSE]}

Flats ==
  {[Twins("flat_set", 3, Mixed) EXCEPT !.both = TRUE, !.size = 4],
   [Twins("flat_multiset", 2, {<<>>, <<1, 2>>, <<2, 1, 2>>}) EXCEPT !.both = TRUE, !.size = 4,
                                                                  !.fuse = 4],
   [Twins("flat_multiset", 2, {<<1, 2>>, <<2, 1, 2>>}) EXCEPT
      !.kinds = <<"flat_multiset", "flat_set">>, !.both = TRUE, !.size = 4, !.fuse = 1,
      !.called = {1, 2}]}

StableVectors ==
  {[Twins("stable_vector", 1, Ones) EXCEPT !.both = TRUE, !.fuse = 2],
   [Twins("stable_vector", 2, Two) EXCEPT !.fuse = 2]}

Deques ==
  {[Twins(kind, 1, Ones) EXCEPT !.both = TRUE, !.fuse = 1, !.size = 2]
     : kind \in {"deque", "rdeque"}}
  \cup {[Twins("deque", 2, Two) EXCEPT !.size = 4, !.fuse = 2, !.watching = FALSE],
        [Twins("deque", 1, Ones) EXCEPT !.size = 5, !.fuse = 2],
        [Twins("rdeque", 1, Ones) EXCEPT !.size = 6, !.fuse = 2, !.reserves = {2, 5}],
        [Twins("segtor", 2, Two) EXCEPT !.size = 4, !.fuse = 2, !.both = TRUE],
        [Twins("rsegtor", 2, Two) EXCEPT !.size = 4, !.fuse = 2, !.reserves = {4}]}

Strings ==
  {[Twins("string", 2, Two) EXCEPT !.size = 5, !.fuse = 1, !.reserves = {2, 4}],
   [Twins("string2", 2, Two) EXCEPT !.size = 4, !.fuse = 1],
   [Twins("string", 1, Ones) EXCEPT !.size = 4, !.fuse = 1, !.both = TRUE]}

Devectors ==
  {[Twins("devector", 1, Ones) EXCEPT !.both = TRUE, !.size = 2, !.fuse = 2, !.cells = 3],
   [Twins("devector", 1, Ones) EXCEPT !.size = 4, !.fuse = 4, !.cells = 6],
   [Twins("devector", 1, {<<1>>, <<1, 1>>, <<1, 1, 1>>}) EXCEPT
      !.size = 5, !.fuse = 5, !.cells = 9, !.watching = FALSE],
   [Twins("devector", 2, {<<2, 1>>, <<1, 2, 1>>}) EXCEPT
      !.size = 4, !.fuse = 3, !.cells = 8, !.watching = FALSE]}

NodeLists ==
  {[Twins(kind, 2, Two) EXCEPT !.both = TRUE, !.size = 4] : kind \in {"list", "list2", "slist", "slist2"}}

NodeTrees ==
  {[Twins("map", 4, {<<>>, <<3, 1>>, <<2, 1>>}) EXCEPT !.both = TRUE],
   [Twins("multimap", 3, {<<>>, <<3, 1>>, <<2, 1>>}) EXCEPT !.both = TRUE],
   [Twins("multimap2", 3, {<<3, 1>>, <<2, 1>>}) EXCEPT !.both = TRUE],
   [Twins("map", 3, {<<>>, <<2, 1>>}) EXCEPT !.kinds = <<"map", "multimap">>, !.both = TRUE,
      !.called = {1, 2}, !.fuse = 2]}

NodeContainers == NodeLists \cup NodeTrees

All == NodeContainers \cup Devectors \cup Vectors \cup Flats \cup StableVectors \cup Deques \cup Strings

\* Where the code and the documentation of a reservable deque disagree.
DequeReserve ==
  {[Twins("rdeque", 1, Ones) EXCEPT !.fuse = 0, !.reserves = {2, 3},
                             !.watching = FALSE]}

=============================================================================
