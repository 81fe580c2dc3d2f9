-------------------------------- MODULE Deque --------------------------------
(***************************************************************************)
(* detail/deque_impl.hpp: deque and segtor, whose elements are in nodes of *)
(* BlockSize cells that a map of pointers puts in order.  Kinds:           *)
(*   "deque", "segtor"    nodes are lent when they are needed and given    *)
(*                        back when they are empty; a segtor grows at the  *)
(*                        back only                                        *)
(*   "rdeque", "rsegtor"  with the option reservable: the map is full of   *)
(*                        nodes                                            *)
(*                                                                         *)
(* An object has the members                                               *)
(*   map, slots     the map's block, and the node in each slot of it; None *)
(*                  stands for a pointer to no node, which nothing reads   *)
(*   start, finish  the offsets m_start_off and m_finish_off               *)
(***************************************************************************)
EXTENDS Elements

LOCAL INSTANCE SequencesExt

CONSTANT BlockSize   \* the cells of a node

None == 0
InitialMapSize == 4

EmptyDeque(kind) ==
  [kind |-> kind, map |-> None, slots |-> <<>>, start |-> 0, finish |-> 0]

Reservable(v)  == v.kind \in {"rdeque", "rsegtor"}
SingleEnded(v) == v.kind \in {"segtor", "rsegtor"}

Size(w, o) == w.obj[o].finish - w.obj[o].start
MapSize(v) == Cardinality(DOMAIN v.slots)
Node(off) == off \div BlockSize
Active(v) == Node(v.finish) - Node(v.start) + 1

Contents(w, o) ==
  LET v == w.obj[o]
  IN  [i \in 1 .. Size(w, o) |->
         w.heap[v.slots[Node(v.start + i - 1)]][(v.start + i - 1) % BlockSize]]

-----------------------------------------------------------------------------
(* The loops of Elements run over offsets in a block -o, which stands for  *)
(* the nodes of o in the order of the map.                                 *)

View(w, o) ==
  LET v     == w.obj[o]
      cells == {j \in 0 .. MapSize(v) * BlockSize - 1 : v.slots[Node(j)] \in DOMAIN w.heap}
  IN  [w EXCEPT !.heap = [b \in DOMAIN @ \cup {-o} |->
         IF b = -o THEN [j \in cells |-> w.heap[v.slots[Node(j)]][j % BlockSize]] ELSE @[b]]]

Store(w, o) ==
  LET v == w.obj[o]
      At(b) == {s \in DOMAIN v.slots : v.slots[s] = b}
  IN  [w EXCEPT !.heap = [b \in DOMAIN @ \ {-o} |->
         IF At(b) = {} THEN @[b]
         ELSE [i \in 0 .. BlockSize - 1 |->
                w.heap[-o][(CHOOSE s \in At(b) : TRUE) * BlockSize + i]]]]

InNodes(w, o, Step(_)) == Store(Step(View(w, o)), o)

\* The rollback of a segmented loop that began at first and threw at off: it
\* destroys up to the node of off.
DestroyedToNode(w, b, first, off) ==
  LET to == Node(off) * BlockSize
  IN  Needs(w, first <= to, Destroy(w, b, first, Larger(0, to - first)))

\* priv_segmented_proxy_uninitialized_copy_n_and_update
SegmentedCopy(w, b, i, vals, single) ==
  LET n    == Len(vals)
      off  == i + w.fuse - 1
      to   == Larger(i, Node(off) * BlockSize)
      part == Write(w, b, i, Lead(vals, to - i))
  IN  IF ~Fine(w) \/ ~Fails(w, Cost(w, n)) \/ single THEN UninitializedCopy(w, vals, b, i)
      ELSE DestroyedToNode(Threw(part, "element"), b, i, off)

\* priv_segmented_uninitialized_move_alloc_n: the rollback destroys elements
\* of the source.
SegmentedMoveNew(w, b, i, n, j, single) ==
  LET off  == i + w.fuse - 1
      to   == Larger(i, Node(off) * BlockSize)
      part == Write(Write(w, b, j, Values(w, b, i, to - i)), b, i, Filled(w.fuse - 1, Moved))
  IN  IF ~Fine(w) \/ ~Fails(w, MoveCost(w, n)) \/ single THEN UninitializedMove(w, b, i, n, b, j)
      ELSE DestroyedToNode(Threw(part, "element"), b, i, off)

\* priv_segmented_move_n and priv_segmented_move_backward_n, which assign an
\* element to itself when the ranges are the same: it has no value to rely on.
SegmentedMove(w, b, i, n, j, backward) ==
  IF Fine(w) /\ i = j /\ Live(w, b, i, n) THEN Write(w, b, i, Filled(n, Moved))
  ELSE MoveLoop(w, b, i, n, j, backward)

-----------------------------------------------------------------------------
(* The map *)

\* prot_deallocate_nodes of slots [a, z)
FreeNodes(w, o, a, z) ==
  LET v == w.obj[o]
      gone == [k \in 1 .. Larger(0, z - a) |-> v.slots[a + k - 1]]
  IN  [FoldLeft(LAMBDA m, b : Deallocate(m, b), w, gone) EXCEPT
         !.obj[o].slots = [s \in DOMAIN @ |-> IF s \in a .. z - 1 THEN None ELSE @[s]]]

\* prot_deallocate_nodes_if_not_reservable
Release(w, o, a, z) == IF Reservable(w.obj[o]) THEN w ELSE FreeNodes(w, o, a, z)

\* prot_deallocate_all_nodes and the map: prot_clear_map, ~deque_base
ClearMap(w, o) ==
  LET v    == w.obj[o]
      bare == IF Reservable(v) THEN FreeNodes(w, o, 0, MapSize(v))
              ELSE FreeNodes(w, o, Node(v.start), Node(v.finish) + 1)
  IN  IF v.map = None THEN w
      ELSE [Deallocate(bare, v.map) EXCEPT !.obj[o] = EmptyDeque(v.kind)]

\* A map of n slots and then k nodes are lent, or nothing.
LentMap(w, n, k) ==
  LET Nodes(m) == AllocateMany(m, k, BlockSize)
  IN  DeallocatedOnThrow(Allocate(w, n), Nodes, Fresh(w))

NodesOf(w, n, k) == FreshBlocks(Allocate(w, n), k)

\* prot_initialize_map_and_nodes for n elements; the range is empty, at its
\* front or, at_end, at its back.
InitializeMap(w, o, n, at_end) ==
  LET v     == w.obj[o]
      num   == n \div BlockSize + 1
      spare == IF Reservable(v) THEN 0 ELSE IF SingleEnded(v) THEN 1 ELSE 2
      size  == Larger(InitialMapSize, num + spare)
      first == IF SingleEnded(v) THEN 0 ELSE (size - num) \div 2
      from  == IF Reservable(v) THEN 0 ELSE first
      k     == IF Reservable(v) THEN size ELSE num
      off   == first * BlockSize + (IF at_end THEN n ELSE 0)
      slots == [s \in 0 .. size - 1 |-> IF s \in from .. from + k - 1
                                        THEN NodesOf(w, size, k)[s - from + 1] ELSE None]
  IN  Then(LentMap(w, size, k),
           LAMBDA m : [m EXCEPT !.obj[o] = [kind |-> v.kind, map |-> Fresh(w), slots |-> slots,
                                            start |-> off, finish |-> off]])

\* prot_start_update_node and prot_finish_update_node
Renumbered(v, first) ==
  [v EXCEPT !.start  = first * BlockSize + (v.start % BlockSize),
            !.finish = (first + Active(v) - 1) * BlockSize + (v.finish % BlockSize)]

\* priv_new_offset
NewOffset(v, front, size, needed, more) ==
  IF SingleEnded(v) THEN 0 ELSE (size - needed) \div 2 + (IF front THEN more ELSE 0)

\* The free slots on the side that grows.
Unused(v, front) == IF front THEN Node(v.start) ELSE MapSize(v) - 1 - Node(v.finish)

\* o has the members v and the map w would lend next, which lent lends.
Remapped(w, o, lent, v) ==
  Then(lent, LAMBDA m : [Deallocate(m, w.obj[o].map) EXCEPT
                           !.obj[o] = [v EXCEPT !.map = Fresh(w)]])

\* prot_reallocate_map_and_nodes, not reservable: the active nodes move inside
\* the map or to a larger one.
Relocated(w, o, more, front) ==
  LET v      == w.obj[o]
      needed == Active(v) + more
      inside == ~SingleEnded(v) /\ MapSize(v) \div 2 >= needed
      size   == IF inside THEN MapSize(v)
                ELSE Larger(2 * MapSize(v), needed + (IF SingleEnded(v) THEN 2 ELSE 1))
      first  == NewOffset(v, front, size, needed, more)
      slots  == [s \in 0 .. size - 1 |-> IF s \in first .. first + Active(v) - 1
                                         THEN v.slots[s - first + Node(v.start)] ELSE None]
  IN  IF inside THEN [w EXCEPT !.obj[o] = Renumbered([v EXCEPT !.slots = slots], first)]
      ELSE Remapped(w, o, Allocate(w, size), Renumbered([v EXCEPT !.slots = slots], first))

\* The nodes for the new elements, next to the active ones.
AddNodes(w, o, more, front) ==
  LET v    == w.obj[o]
      from == IF front THEN Node(v.start) - more ELSE Node(v.finish) + 1
      slots == [s \in DOMAIN v.slots |-> IF s \in from .. from + more - 1
                                         THEN FreshBlocks(w, more)[s - from + 1] ELSE v.slots[s]]
  IN  Then(AllocateMany(w, more, BlockSize), LAMBDA m : [m EXCEPT !.obj[o].slots = slots])

\* rotate_gcd: count slots from `from` on move to `to`, and those between make way.
Rotated(slots, from, count, to) ==
  [s \in DOMAIN slots |->
     IF s \in to .. to + count - 1 THEN slots[s - to + from]
     ELSE IF s \in to + count .. from + count - 1 THEN slots[s - count]
     ELSE IF s \in from .. to - 1 THEN slots[s + count]
     ELSE slots[s]]

\* prot_reallocate_map_and_nodes, reservable: a larger map has more nodes; the
\* active ones move to leave room on the side that grows.
MoreReserved(w, o, more, front) ==
  LET v      == w.obj[o]
      old    == MapSize(v)
      extra  == IF SingleEnded(v) THEN 0 ELSE more + Unused(v, front)
      needed == IF SingleEnded(v) THEN old + more ELSE Active(v) + extra
      inside == ~SingleEnded(v) /\ old \div 3 >= needed \div 2
      size   == IF inside THEN old
                ELSE Larger(old + old \div 2, needed + (IF SingleEnded(v) THEN 2 ELSE 1))
      new    == size - old
      ahead  == IF SingleEnded(v) THEN 0 ELSE new
      slots  == [s \in 0 .. size - 1 |->
                   IF s \in ahead .. ahead + old - 1 THEN v.slots[s - ahead]
                   ELSE NodesOf(w, size, new)[(IF ahead = 0 THEN s - old ELSE s) + 1]]
      first  == NewOffset(v, front, size, needed, extra)
      moved  == [v EXCEPT !.slots = Rotated(slots, ahead + Node(v.start), Active(v), first)]
  IN  IF inside THEN [w EXCEPT !.obj[o] = Renumbered(moved, first)]
      ELSE Remapped(w, o, LentMap(w, size, new), Renumbered(moved, first))

FrontFree(v) == IF Reservable(v) THEN v.start ELSE v.start % BlockSize
BackFree(v) ==
  IF v.map = None THEN 0
  ELSE IF Reservable(v) THEN MapSize(v) * BlockSize - 1 - v.finish
  ELSE BlockSize - 1 - (v.finish % BlockSize)

\* priv_reserve_elements_at_front and priv_reserve_elements_at_back
Room(w, o, n, front) ==
  LET v     == w.obj[o]
      free  == IF front THEN FrontFree(v) ELSE BackFree(v)
      more  == (n - free - 1) \div BlockSize + 1
      roomy == IF more > Unused(v, front) THEN Relocated(w, o, more, front) ELSE w
      Lend(m) == AddNodes(m, o, more, front)
  IN  IF n <= free THEN w
      ELSE IF v.map = None THEN InitializeMap(w, o, n, front)
      ELSE IF Reservable(v) THEN MoreReserved(w, o, more, front)
      ELSE Then(roomy, Lend)

-----------------------------------------------------------------------------
(* Insertion *)

Started(w, o, off)  == [w EXCEPT !.obj[o].start = off]
Finished(w, o, off) == [w EXCEPT !.obj[o].finish = off]

\* priv_insert_back_aux_impl and emplace_back, with room
BuildBack(w, o, vals, single) ==
  LET f   == w.obj[o].finish
      end == f + Len(vals)
      Build(m) == SegmentedCopy(m, -o, f, vals, single)
  IN  Outcome(InNodes(w, o, Build),
              LAMBDA m : Finished(m, o, end),
              LAMBDA m : Release(m, o, Node(f) + 1, Node(end) + 1))

InsertBack(w, o, vals) ==
  Then(Room(w, o, Len(vals), FALSE), LAMBDA m : BuildBack(m, o, vals, FALSE))

\* priv_insert_front_aux_impl and emplace_front, with room; its rollback gives
\* back the nodes after the first one, as if the range had grown at the back.
BuildFront(w, o, vals, single) ==
  LET f   == w.obj[o].start
      new == f - Len(vals)
      Build(m) == SegmentedCopy(m, -o, new, vals, single)
  IN  Outcome(InNodes(w, o, Build),
              LAMBDA m : Started(m, o, new),
              LAMBDA m : Release(m, o, Node(new) + 1, Node(f) + 1))

\* priv_insert_middle_aux_impl with room before start: the p elements before
\* make way.
MiddleFront(w, o, p, vals, single) ==
  LET n     == Len(vals)
      f     == w.obj[o].start
      new   == f - n
      short == n - p   \* so many new elements are built before the old start
      Undone(m) == Release(m, o, Node(new), Node(f))
      Slide(m) == SegmentedMoveNew(m, -o, f, n, new, single)
      Over(m)  == CopyAssign(SegmentedMove(m, -o, f + n, p - n, f, FALSE), vals, -o, f + p - n)
      Build(m) == SegmentedCopy(m, -o, f - short, Lead(vals, short), FALSE)
      Ahead(m) == SegmentedMoveNew(m, -o, f, p, new, FALSE)
      Fill(m)  == CopyAssign(m, Rest(vals, short), -o, f)
  IN  IF single \/ p >= n
      THEN Outcome(InNodes(w, o, Slide), LAMBDA m : Started(InNodes(m, o, Over), o, new), Undone)
      ELSE Outcome(InNodes(w, o, Build),
                   LAMBDA m : Outcome(InNodes(m, o, Ahead),
                                      LAMBDA x : Started(InNodes(x, o, Fill), o, new),
                                      LAMBDA x : Started(Undone(x), o, f - short)),
                   Undone)

\* The same with room after finish: the elements after p make way.  When there
\* are fewer of them than new ones the rollback destroys as many from the old
\* end on, though they were moved further.
MiddleBack(w, o, p, vals, single) ==
  LET n     == Len(vals)
      f     == w.obj[o].finish
      after == Size(w, o) - p
      pos   == f - after
      Grown(m)  == Finished(m, o, f + n)
      Undone(m) == Release(m, o, Node(f) + 1, Node(f + n) + 1)
      Slide(m) == SegmentedMoveNew(m, -o, f - n, n, f, single)
      Over(m)  == CopyAssign(SegmentedMove(m, -o, pos, after - n, pos + n, TRUE), vals, -o, pos)
      Build(m) == SegmentedCopy(CopyAssign(m, Lead(vals, after), -o, pos),
                                -o, f, Rest(vals, after), FALSE)
      Split(m) == Guarded(SegmentedMoveNew(m, -o, pos, after, f + n - after, FALSE),
                          Build, -o, f, after)
  IN  IF single \/ after >= n
      THEN Outcome(InNodes(w, o, Slide), LAMBDA m : Grown(InNodes(m, o, Over)), Undone)
      ELSE Outcome(InNodes(w, o, Split), Grown, Undone)

\* Whether an insertion at p makes room at the front.
\* Faulty form: only if fewer elements are there than behind.
GrowsFrontByHalf(w, o, p) == ~SingleEnded(w.obj[o]) /\ p < Size(w, o) \div 2

GrowsFront(w, o, p) ==
  ~SingleEnded(w.obj[o]) /\ p < Size(w, o) /\ (p = 0 \/ p < Size(w, o) \div 2)

\* priv_insert_aux_impl; emplace takes the same way with a single element.
InsertAux(w, o, p, vals, single) ==
  LET front == GrowsFront(w, o, p)
      Build(m) == IF p = Size(w, o) THEN BuildBack(m, o, vals, single)
                  ELSE IF ~front THEN MiddleBack(m, o, p, vals, single)
                  ELSE IF p = 0 THEN BuildFront(m, o, vals, single)
                  ELSE MiddleFront(m, o, p, vals, single)
  IN  Then(Room(w, o, Len(vals), front), Build)

Insert(w, o, p, vals) == InsertAux(w, o, p, vals, FALSE)
Emplace(w, o, p, x)   == InsertAux(w, o, p, <<x>>, TRUE)

-----------------------------------------------------------------------------
(* Erasure; an element is destroyed by its offset. *)

DestroyAt(w, o, off, n) == InNodes(w, o, LAMBDA m : Destroy(m, -o, off, n))

\* pop_front; the node of the last element of it is given back.
PopFront(w, o) ==
  LET f    == w.obj[o].start
      dead == DestroyAt(w, o, f, 1)
  IN  Started(IF f % BlockSize = BlockSize - 1 THEN Release(dead, o, Node(f), Node(f) + 1)
              ELSE dead, o, f + 1)

\* pop_back; when the end is at the front of a node, that is given back.
PopBack(w, o) ==
  LET f    == w.obj[o].finish
      bare == IF f % BlockSize = 0 THEN Release(w, o, Node(f), Node(f) + 1) ELSE w
  IN  Finished(DestroyAt(bare, o, f - 1, 1), o, f - 1)

\* clear: the first node stays.
Clear(w, o) ==
  LET v    == w.obj[o]
      dead == DestroyAt(w, o, v.start, Size(w, o))
  IN  IF Size(w, o) = 0 THEN w
      ELSE Finished(Release(dead, o, Node(v.start) + 1, Node(v.finish) + 1), o, v.start)

\* priv_erase_last_n
EraseLast(w, o, n) ==
  LET f == w.obj[o].finish
  IN  IF Size(w, o) = 0 THEN w
      ELSE Finished(Release(DestroyAt(w, o, f - n, n), o, Node(f - n) + 1, Node(f) + 1), o, f - n)

\* erase of one element
EraseOne(w, o, p) ==
  LET v == w.obj[o]
      last == Size(w, o) - p - 1
      Ahead(m)  == SegmentedMove(m, -o, v.start, p, v.start + 1, TRUE)
      Behind(m) == SegmentedMove(m, -o, v.start + p + 1, last, v.start + p, FALSE)
  IN  IF ~SingleEnded(v) /\ p < Size(w, o) \div 2
      THEN Then(InNodes(w, o, Ahead), LAMBDA m : PopFront(m, o))
      ELSE Then(InNodes(w, o, Behind), LAMBDA m : PopBack(m, o))

\* erase of n elements at p
EraseRange(w, o, p, n) ==
  LET v     == w.obj[o]
      after == Size(w, o) - n - p
      Ahead(m)  == SegmentedMove(m, -o, v.start, p, v.start + n, TRUE)
      Behind(m) == SegmentedMove(m, -o, v.start + p + n, after, v.start + p, FALSE)
      EraseFirst(m) == Started(Release(DestroyAt(m, o, v.start, n),
                                       o, Node(v.start), Node(v.start + n)), o, v.start + n)
  IN  IF n = Size(w, o) THEN Clear(w, o)
      ELSE IF ~SingleEnded(v) /\ p < after THEN Then(InNodes(w, o, Ahead), EraseFirst)
      ELSE Then(InNodes(w, o, Behind), LAMBDA m : EraseLast(m, o, n))

-----------------------------------------------------------------------------
(* The other member functions *)

\* resize
Resize(w, o, n, x) ==
  IF n < Size(w, o) THEN EraseLast(w, o, Size(w, o) - n)
  ELSE InsertBack(w, o, Filled(n - Size(w, o), x))

\* reserve_back and reserve_front, which do nothing without the option
Reserve(w, o, n, front) ==
  LET v    == w.obj[o]
      have == Size(w, o) + (IF front THEN FrontFree(v) ELSE BackFree(v))
  IN  IF ~Reservable(v) \/ n <= have THEN w ELSE Room(w, o, n - have, front)

\* shrink_to_fit
ShrinkToFit(w, o) == IF Size(w, o) = 0 THEN ClearMap(w, o) ELSE w

\* priv_assign
Assign(w, o, vals) ==
  LET common == Smaller(Len(vals), Size(w, o))
      Over(m) == CopyAssign(m, Lead(vals, common), -o, w.obj[o].start)
      Remain(m) == IF Len(vals) > common THEN InsertBack(m, o, Rest(vals, common))
                   ELSE EraseLast(m, o, Size(w, o) - common)
  IN  Then(InNodes(w, o, Over), Remain)

Swap(w, o, x) == [w EXCEPT !.obj[o] = w.obj[x], !.obj[x] = w.obj[o]]

\* priv_move_assign when resources can be stolen: x gets the map of o.
MoveAssign(w, o, x) == Swap(Clear(w, o), o, x)

\* The destructors of deque_impl and deque_base
Destroyed(w, o) == ClearMap(DestroyAt(w, o, w.obj[o].start, Size(w, o)), o)

-----------------------------------------------------------------------------
(* Invariants of the members *)

OwnedBlocks(w, o) ==
  LET v == w.obj[o]
  IN  ({v.map} \cup {v.slots[s] : s \in DOMAIN v.slots}) \ {None}

\* The nodes are those the offsets say, and the cells from start to finish,
\* no others, have elements.
Sound(w, o) ==
  LET v    == w.obj[o]
      full == {s \in DOMAIN v.slots : v.slots[s] # None}
  IN  IF v.map = None THEN v = EmptyDeque(v.kind)
      ELSE /\ OwnedBlocks(w, o) \subseteq DOMAIN w.heap
           /\ Capacity(w, v.map) = MapSize(v)
           /\ full = (IF Reservable(v) THEN DOMAIN v.slots ELSE Node(v.start) .. Node(v.finish))
           /\ v.start <= v.finish
           /\ \A s \in full, i \in 0 .. BlockSize - 1 :
                (w.heap[v.slots[s]][i] # Raw) <=> s * BlockSize + i \in v.start .. v.finish - 1

=============================================================================
