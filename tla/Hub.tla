--------------------------------- MODULE Hub ---------------------------------
(***************************************************************************)
(* boost::container::hub (include/boost/container/hub.hpp): elements in    *)
(* blocks of N slots, a bit mask per block, and two lists per hub.  The    *)
(* active list has the blocks with elements, in iteration order; the       *)
(* available list has those with room, the reserved ones (without any      *)
(* element) last.                                                          *)
(*                                                                         *)
(* The circular links are sequences without the header, and a mask is the  *)
(* set of its bits.  Two hubs take part in swap, splice and the moves.     *)
(* The allocator is external: it lends a block that is not lent, or        *)
(* throws; constructing or assigning an element may throw too.             *)
(***************************************************************************)
EXTENDS Naturals, SequencesExt

CONSTANTS
  Hubs,
  Blocks,       \* the blocks the allocator can lend, with their data
  N,            \* slots in a block
  Values,       \* what an element is
  Raw,          \* what a slot without an element holds
  Header,       \* the header block of a list
  Ranges,       \* the ranges and n-copies callers insert and assign
  MaxSize       \* bound: callers insert while all hubs have no more elements

ASSUME HubAssumption ==
  /\ N \in Nat \ {0}
  /\ Values \subseteq Nat /\ Raw \notin Values
  /\ IsFiniteSet(Blocks) /\ Header \notin Blocks
  /\ Ranges \subseteq Seq(Values)
  /\ MaxSize \in Nat

VARIABLES
  equal,        \* the hubs' allocators compare equal
  hubs,         \* [active, available, num, size]: blist, num_blocks and size_
  mask,         \* block_base::mask
  data,         \* the slots of block::data_
  lent          \* the blocks the allocator has lent

vars == <<equal, hubs, mask, data, lent>>

Slots == 0 .. N - 1
Empty == [active |-> <<>>, available |-> <<>>, num |-> 0, size |-> 0]

Init ==
  /\ equal \in BOOLEAN
  /\ hubs = [h \in Hubs |-> Empty]
  /\ mask = [b \in Blocks |-> {}]
  /\ data = [b \in Blocks |-> [n \in Slots |-> Raw]]
  /\ lent = {}

\* A hub with the memory it is in: what a member function works on.
Hub(h) ==
  [active |-> hubs[h].active, available |-> hubs[h].available, num |-> hubs[h].num,
   size |-> hubs[h].size, mask |-> mask, data |-> data, lent |-> lent]

Blist(s) == [active |-> s.active, available |-> s.available, num |-> s.num, size |-> s.size]

\* Hub h becomes s.
Becomes(h, s) ==
  /\ hubs' = [hubs EXCEPT ![h] = Blist(s)]
  /\ mask' = s.mask /\ data' = s.data /\ lent' = s.lent
  /\ UNCHANGED equal

-----------------------------------------------------------------------------
(* Lists and positions *)

\* The elements of a list that are in a set, in their order.
Kept(list, set) ==
  LET kept[i \in 0 .. Len(list)] ==
        IF i = 0 THEN <<>>
        ELSE IF list[i] \in set THEN Append(kept[i - 1], list[i]) ELSE kept[i - 1]
  IN  kept[Len(list)]

Without(list, b) == Kept(list, ToSet(list) \ {b})
LinkBefore(list, b, y) ==
  IF y = Header THEN Append(list, b)
  ELSE InsertAt(list, SelectInSeq(list, LAMBDA x : x = y), b)

\* The block a list continues with after b, or its header.
NextIn(list, b) ==
  LET i == SelectInSeq(list, LAMBDA x : x = b)
  IN  IF i = Len(list) THEN Header ELSE list[i + 1]

Lowest(slots)  == CHOOSE n \in slots : \A m \in slots : n <= m
Highest(slots) == CHOOSE n \in slots : \A m \in slots : n >= m

\* Faulty form: countr_zero.
LowestUsed(s, b) == IF s.mask[b] = {} THEN 0 ELSE Lowest(s.mask[b])

\* countr_one: the slot an insertion takes
Hole(s, b) == Lowest(Slots \ s.mask[b])

Ascending(slots) == Kept([i \in 1 .. N |-> i - 1], slots)

\* The positions ++ goes through from begin() to end().
At(b, n) == [block |-> b, slot |-> n]
End == At(Header, 0)
PositionsIn(s, b) ==
  LET slots == Ascending(s.mask[b]) IN [i \in DOMAIN slots |-> At(b, slots[i])]
Positions(s) == FoldLeft(LAMBDA q, b : q \o PositionsIn(s, b), <<>>, s.active)

PositionAt(q, i) == IF i <= Len(q) THEN q[i] ELSE End

ValueAt(s, p) == s.data[p.block][p.slot]
Contents(s) == LET q == Positions(s) IN [i \in DOMAIN q |-> ValueAt(s, q[i])]

-----------------------------------------------------------------------------
(* Blocks *)

\* create_new_available_block.  Nothing depends on which block it is.
NewBlock(s) ==
  LET b == CHOOSE x \in Blocks : x \notin s.lent
  IN  [s EXCEPT !.lent = @ \cup {b}, !.available = Append(@, b), !.num = @ + 1]

\* The second of its allocations, of the slots, throws, and the block is given
\* back.  When the first throws, nothing has happened.
NewBlockThrows(s) ==
  LET b         == CHOOSE x \in Blocks : x \notin s.lent
      allocated == [s EXCEPT !.lent = @ \cup {b}]
  IN  [allocated EXCEPT !.lent = @ \ {b}]

\* The blocks the allocator can still lend.
Unlent(s) == Cardinality(Blocks \ s.lent)

\* delete_block, with its unlinking and num_blocks.
Deleted(s, b) == [s EXCEPT !.lent = @ \ {b}, !.available = Without(@, b), !.num = @ - 1]

\* retrieve_available_block
Retrieve(s) == IF s.available = <<>> THEN NewBlock(s) ELSE s
RetrieveThrows(s) == IF s.available = <<>> THEN NewBlockThrows(s) ELSE s

\* An element is constructed in a slot, or assigned to the one there.
Put(s, b, n, v) == [s EXCEPT !.data[b][n] = v, !.mask[b] = @ \cup {n}]

\* The element in a slot is destroyed.
Freed(s, b, n) == [s EXCEPT !.data[b][n] = Raw, !.mask[b] = @ \ {n}]

\* A block that gets its first element joins the active list at the back.
Activated(s, b) == IF s.mask[b] = {} THEN Append(s.active, b) ELSE s.active

\* The end of emplace, and a turn of range_insert_impl: the element is in
\* the hole, the mask grows by its lowest zero, a full block is not available.
Place(s, v) ==
  LET b == Head(s.available)
      t == Put(s, b, Hole(s, b), v)
  IN  [t EXCEPT !.active = Activated(s, b),
                !.available = IF t.mask[b] = Slots THEN Tail(@) ELSE @,
                !.size = @ + 1]

\* erase_impl
Erased(s, p) ==
  LET b         == p.block
      t         == Freed(s, b, p.slot)
      empty     == t.mask[b] = {}
      available == IF s.mask[b] = Slots THEN <<b>> \o s.available ELSE s.available
  IN  [t EXCEPT !.active = IF empty THEN Without(@, b) ELSE @,
                !.available = IF empty THEN Append(Without(available, b), b) ELSE available,
                !.size = @ - 1]

ErasedEach(s, positions) == FoldLeft(Erased, s, positions)

\* The elements of some blocks, counted.
CountIn(m, blocks) == FoldLeft(LAMBDA n, b : n + Cardinality(m[b]), 0, blocks)

-----------------------------------------------------------------------------
(* Insertion *)

\* What is left to insert fits: the allocator lends no more than Blocks.
Fits(s, n) ==
  /\ s.num * N - s.size + N * Unlent(s) >= n
  /\ Cardinality(UNION {{At(b, m) : m \in mask[b]} : b \in Blocks}) + n <= MaxSize

Inserted(s, q) == FoldLeft(LAMBDA t, v : Place(Retrieve(t), v), s, q)

\* emplace; insert of one element.
Emplace(h) ==
  \E v \in Values : Fits(Hub(h), 1) /\ Becomes(h, Inserted(Hub(h), <<v>>))

FirstAvailable(s) == IF s.available = <<>> THEN Header ELSE Head(s.available)

\* Faulty form: the fresh block is kept as a reserved one.
RestoredKeepingBlock(s, before) == s

\* restore_capacity_on_throw
Restored(s, before) ==
  IF FirstAvailable(s) = before THEN s ELSE Deleted(s, Head(s.available))

\* The allocation of a block throws, or the element's constructor.
EmplaceThrows(h) ==
  LET s == Hub(h) IN
  /\ Fits(s, 1)
  /\ \/ Becomes(h, RetrieveThrows(s))
     \/ Becomes(h, Restored(Retrieve(s), FirstAvailable(s)))

\* range_insert_impl
Insert(h) ==
  \E q \in Ranges : Fits(Hub(h), Len(q)) /\ Becomes(h, Inserted(Hub(h), q))

\* It throws in the constructor of an element, with a block at hand for it,
\* or in the allocation of that block.
InsertThrows(h) ==
  \E q \in Ranges : \E k \in 0 .. Len(q) - 1 :
    LET s == Inserted(Hub(h), SubSeq(q, 1, k)) IN
    /\ Fits(Hub(h), k + 1)
    /\ Becomes(h, RetrieveThrows(s)) \/ Becomes(h, Retrieve(s))

-----------------------------------------------------------------------------
(* Erasure *)

\* One turn of the range erase's middle loop: a whole block.
Emptied(s, b) ==
  LET available == IF s.mask[b] = Slots THEN s.available ELSE Without(s.available, b)
  IN  [s EXCEPT !.data[b] = [n \in Slots |-> Raw],
                !.mask[b] = {},
                !.active = Without(@, b),
                !.available = Append(available, b),
                !.size = @ - Cardinality(s.mask[b])]

EmptiedEach(s, blocks) == FoldLeft(Emptied, s, blocks)

\* Faulty form: the elements of the last block are erased too.
InLastBlockAll(p, last) == p.block = last.block

\* The last loop stops at "last", in its block.
InLastBlock(p, last) == p.block = last.block /\ p.slot < last.slot

\* erase(first, last): the i-th position up to, not including, the j-th.
\* First the rest of the first block, then whole blocks, then the last one's.
ErasedRange(s, i, j) ==
  LET q     == Positions(s)
      first == PositionAt(q, i)
      last  == PositionAt(q, j)
      index(b) == IF b = Header THEN Len(s.active) + 1 ELSE SelectInSeq(s.active, LAMBDA x : x = b)
      head  == Kept(q, {p \in ToSet(q) :
                          /\ p.block = first.block /\ p.slot >= first.slot
                          /\ p.block = last.block => p.slot < last.slot})
      whole == SubSeq(s.active, index(first.block) + 1, index(last.block) - 1)
      tail  == Kept(q, {p \in ToSet(q) : p.block # first.block /\ InLastBlock(p, last)})
  IN  ErasedEach(EmptiedEach(ErasedEach(s, head), whole), tail)

\* erase(pos), erase_void(pos), erase(first, last) and clear()
Erase(h) ==
  \E i \in DOMAIN Positions(Hub(h)) : \E j \in i + 1 .. Len(Positions(Hub(h))) + 1 :
    Becomes(h, ErasedRange(Hub(h), i, j))

\* erase_if, over the first k elements: of all of them, or of those before
\* the one the predicate throws for.
ErasedIf(s, gone, k) ==
  ErasedEach(s, Kept(SubSeq(Positions(s), 1, k), {p \in ToSet(Positions(s)) : ValueAt(s, p) \in gone}))

EraseIf(h) ==
  \E v \in Values : \E k \in 0 .. hubs[h].size : Becomes(h, ErasedIf(Hub(h), {v}, k))

\* The elements each group of equivalent ones starts at.
GroupStarts(s) ==
  LET c == Contents(s)
  IN  Kept([i \in DOMAIN c |-> i], {i \in DOMAIN c : i = 1 \/ c[i] # c[i - 1]})

\* The positions of the others of each group.
GroupRests(s) ==
  LET starts == GroupStarts(s)
  IN  [k \in DOMAIN starts |-> SubSeq(Positions(s), starts[k] + 1,
                                     IF k = Len(starts) THEN s.size ELSE starts[k + 1] - 1)]

RangeErased(s, rest) ==
  LET i == SelectInSeq(Positions(s), LAMBDA p : p = rest[1])
  IN  IF rest = <<>> THEN s ELSE ErasedRange(s, i, i + Len(rest))

RangesErased(s, rests) == FoldLeft(RangeErased, s, rests)

\* unique: the rest of each group is erased as a range.
Uniqued(s) == RangesErased(s, GroupRests(s))

Unique(h) == Becomes(h, Uniqued(Hub(h)))

-----------------------------------------------------------------------------
(* Assignment *)

\* The slots range_assign_impl walks over: all of the active blocks.
ActiveSlots(s) ==
  FoldLeft(LAMBDA q, b : q \o [i \in 1 .. N |-> At(b, i - 1)], <<>>, s.active)

\* An element is assigned to, or constructed in an empty slot.
AssignedAt(s, p, v) ==
  LET b    == p.block
      t    == Put(s, b, p.slot, v)
      full == s.mask[b] # Slots /\ t.mask[b] = Slots
  IN  [t EXCEPT !.available = IF full THEN Without(@, b) ELSE @,
                !.size = IF p.slot \in s.mask[b] THEN @ ELSE @ + 1]

AssignedEach(s, slots, q, k) ==
  FoldLeft(LAMBDA t, i : AssignedAt(t, slots[i], q[i]), s, [i \in 1 .. k |-> i])

\* The first k of the range have found a place: in the active blocks, and
\* behind them when these are used up.
AssignedUpTo(s, q, k) ==
  LET slots  == ActiveSlots(s)
      inside == IF k < Len(slots) THEN k ELSE Len(slots)
  IN  Inserted(AssignedEach(s, slots, q, inside), SubSeq(q, inside + 1, k))

\* range_assign_impl: what remains behind the range's end is erased.
Assigned(s, q) ==
  LET t == AssignedUpTo(s, q, Len(q))
  IN  IF Len(q) >= Len(Positions(t)) THEN t ELSE ErasedRange(t, Len(q) + 1, Len(Positions(t)) + 1)

FitsAssigned(s, q) == Fits(s, 0) /\ Len(q) <= s.num * N + N * Unlent(s) /\ Len(q) <= MaxSize

\* assign and the assignment operators, from a range or another hub.
AssignFrom(h) == Ranges \cup {Contents(Hub(g)) : g \in Hubs \ {h}}

Assign(h) ==
  \E q \in AssignFrom(h) : FitsAssigned(Hub(h), q) /\ Becomes(h, Assigned(Hub(h), q))

\* It throws at some element.
AssignThrows(h) ==
  \E q \in AssignFrom(h) : \E k \in 0 .. Len(q) - 1 :
    FitsAssigned(Hub(h), q) /\ Fits(Hub(h), k) /\ Becomes(h, AssignedUpTo(Hub(h), q, k))

-----------------------------------------------------------------------------
(* Capacity *)

Capacity(s) == s.num * N

NewBlocks(s, k) == FoldLeft(LAMBDA t, i : NewBlock(t), s, [i \in 1 .. k |-> i])

\* reserve
BlocksFor(s, n) == IF n <= Capacity(s) THEN 0 ELSE (n - Capacity(s) - 1) \div N + 1

Reserved(s, n) == NewBlocks(s, BlocksFor(s, n))

\* The loop ends, or the allocator throws, after k blocks.
Reserve(h) ==
  \E k \in 0 .. Unlent(Hub(h)) :
    LET t == NewBlocks(Hub(h), k)
    IN  \/ Becomes(h, t)
        \/ Blocks \ t.lent # {} /\ Becomes(h, NewBlockThrows(t))

\* The blocks without elements a loop from the back of the list meets.
BackEmpty(s) ==
  LET last == SelectLastInSeq(s.available, LAMBDA b : s.mask[b] # {})
  IN  SubSeq(s.available, last + 1, Len(s.available))

\* How many blocks trim_capacity(n) may delete.
Surplus(s, n) == IF Capacity(s) <= n THEN 0 ELSE (Capacity(s) - n) \div N

DeletedEach(s, blocks) == FoldLeft(Deleted, s, blocks)

\* trim_capacity(n)
Trimmed(s, n) ==
  LET back == Reverse(BackEmpty(s))
  IN  DeletedEach(s, SubSeq(back, 1, IF Surplus(s, n) < Len(back) THEN Surplus(s, n) ELSE Len(back)))

TrimCapacity(h) == \E n \in 0 .. Capacity(Hub(h)) : Becomes(h, Trimmed(Hub(h), n))

-----------------------------------------------------------------------------
(* Compaction *)

\* construct at x's hole, destroy y's highest element.
Moved(s, x, y) ==
  LET m == Highest(s.mask[y]) IN Freed(Put(s, x, Hole(s, x), s.data[y][m]), y, m)

MovedTimes(s, x, y, k) == FoldLeft(LAMBDA t, i : Moved(t, x, y), s, [i \in 1 .. k |-> i])

SwapPayload(s, x, y) ==
  [s EXCEPT !.mask[x] = s.mask[y], !.mask[y] = s.mask[x],
            !.data[x] = s.data[y], !.data[y] = s.data[x]]

\* compact(pbx, pby): the fuller block is filled from the other one.
CompactTwo(s, x, y) ==
  LET t  == IF Cardinality(s.mask[x]) < Cardinality(s.mask[y]) THEN SwapPayload(s, x, y) ELSE s
      cx == Cardinality(t.mask[x])
      cy == Cardinality(t.mask[y])
  IN  MovedTimes(t, x, y, IF N - cx < cy THEN N - cx ELSE cy)

MovedDown(s, x) == IF Hole(s, x) > Highest(s.mask[x]) THEN s ELSE Moved(s, x, x)

\* compact(pb): the last block's elements move down.
CompactOne(s, x) == FoldLeft(LAMBDA t, i : MovedDown(t, x), s, [i \in 1 .. N |-> i])

\* The first block behind x that is not full.
NextNotFull(s, x) ==
  LET i == SelectInSeq(s.active, LAMBDA b : b = x)
      j == SelectInSeq([k \in 1 .. Len(s.active) - i |-> s.active[i + k]], LAMBDA b : s.mask[b] # Slots)
  IN  IF j = 0 THEN Header ELSE s.active[i + j]

\* unlink and link_before: x is put in front of y.
MovedBefore(s, x, y) == [s EXCEPT !.active = LinkBefore(Without(@, x), x, y)]

Full(s, x) == [s EXCEPT !.available = Without(@, x)]

\* A block that gave all its elements is a reserved one.
Vacated(s, y) ==
  IF s.mask[y] # {} THEN s
  ELSE [s EXCEPT !.active = Without(@, y), !.available = Append(Without(@, y), y)]

\* One turn of compact's loops, at block x: pass a full one, move x behind
\* the full ones and fill it from the next, or end with x as the last.
CompactTurn(c) ==
  LET s == c.s
      x == c.x
      y == NextNotFull(s, x)
      t == IF y # NextIn(s.active, x) THEN MovedBefore(s, x, y) ELSE s
      u == CompactTwo(t, x, y)
      w == IF u.mask[x] = Slots THEN Full(Vacated(u, y), x) ELSE Vacated(u, y)
  IN  IF x = Header THEN c
      ELSE IF s.mask[x] = Slots THEN [c EXCEPT !.x = NextIn(s.active, x)]
      ELSE IF y = Header THEN [s |-> CompactOne(t, x), x |-> Header]
      ELSE [s |-> w, x |-> IF u.mask[x] = Slots THEN NextIn(w.active, x) ELSE x]

CompactTurns(c, k) == FoldLeft(LAMBDA d, i : CompactTurn(d), c, [i \in 1 .. k |-> i])

\* compact: every turn passes a block or empties one.
Compacted(s) ==
  CompactTurns([s |-> s, x |-> IF s.active = <<>> THEN Header ELSE s.active[1]], 2 * Len(s.active)).s

\* shrink_to_fit
Shrunk(s) == Trimmed(Compacted(s), 0)

ShrinkToFit(h) == Becomes(h, Shrunk(Hub(h)))

PutEach(s, place, order, k) ==
  FoldLeft(LAMBDA t, i : Put(t, place[i].block, place[i].slot, order[i]), s, [i \in 1 .. k |-> i])

\* The place of element i when they are in order.
Rank(c, i) == Cardinality({j \in DOMAIN c : c[j] < c[i] \/ (c[j] = c[i] /\ j <= i)})

InOrder(c) == [k \in DOMAIN c |-> c[CHOOSE i \in DOMAIN c : Rank(c, i) = k]]

\* The elements in order, each in the place of another.
Ordered(s) == PutEach(s, Positions(s), InOrder(Contents(s)), Len(Positions(s)))

\* sort: transfer_sort and proxy_sort keep the blocks, compact_sort, the one
\* that is left when they have no memory, does not.
Sort(h) ==
  \/ Becomes(h, Ordered(Hub(h)))
  \/ hubs[h].size > 1 /\ Becomes(h, Ordered(Compacted(Hub(h))))

-----------------------------------------------------------------------------
(* Two hubs *)

NotFull(s) == {b \in Blocks : s.mask[b] # Slots}

\* Faulty form: x's available blocks join behind the reserved ones.
SplicedAtBack(s, x) ==
  [s EXCEPT !.active = @ \o x.active,
            !.available = @ \o Kept(x.active, NotFull(s)),
            !.num = @ + Len(x.active), !.size = @ + CountIn(s.mask, x.active)]

\* splice(x): its active blocks, one by one.
Spliced(s, x) ==
  [s EXCEPT !.active = @ \o x.active,
            !.available = Reverse(Kept(x.active, NotFull(s))) \o @,
            !.num = @ + Len(x.active), !.size = @ + CountIn(s.mask, x.active)]

\* What it leaves in x.
SplicedFrom(x) ==
  [active |-> <<>>, available |-> Kept(x.available, {b \in Blocks : mask[b] = {}}),
   num |-> x.num - Len(x.active), size |-> x.size - CountIn(mask, x.active)]

Splice(h) ==
  /\ equal
  /\ \E x \in Hubs \ {h} :
       hubs' = [hubs EXCEPT ![h] = Blist(Spliced(Hub(h), hubs[x])), ![x] = SplicedFrom(hubs[x])]
  /\ UNCHANGED <<equal, mask, data, lent>>

Swap(h) ==
  /\ equal
  /\ \E x \in Hubs \ {h} : hubs' = [hubs EXCEPT ![h] = hubs[x], ![x] = hubs[h]]
  /\ UNCHANGED <<equal, mask, data, lent>>

\* Faulty form: only the active blocks are deleted.
DroppedOfActive(s) == ToSet(s.active)

\* The blocks reset() deletes: empty ones from the back, then active ones.
Dropped(s) == ToSet(BackEmpty(s)) \cup ToSet(s.active)

\* reset() on the memory.
ResetMemory(s) ==
  [mask |-> [b \in Blocks |-> IF b \in Dropped(s) THEN {} ELSE s.mask[b]],
   data |-> [b \in Blocks |-> IF b \in Dropped(s) THEN [n \in Slots |-> Raw] ELSE s.data[b]],
   lent |-> s.lent \ Dropped(s)]

ResetAs(s, heads) ==
  /\ mask' = ResetMemory(s).mask /\ data' = ResetMemory(s).data /\ lent' = ResetMemory(s).lent
  /\ hubs' = heads
  /\ UNCHANGED equal

\* The destructor, and a constructor in its place.
Destroy(h) == ResetAs(Hub(h), [hubs EXCEPT ![h] = Empty])

\* Move assignment with equal allocators, and, to an empty hub, move
\* construction: the blocks change hands.
MoveAssign(h) ==
  /\ equal
  /\ \E x \in Hubs \ {h} : ResetAs(Hub(h), [hubs EXCEPT ![h] = hubs[x], ![x] = Empty])

\* Move assignment with unequal allocators: elements are moved, all of them
\* or until one throws, and x is reset either way.
MoveElements(h) ==
  /\ ~equal
  /\ \E x \in Hubs \ {h} :
       LET q == Contents(Hub(x)) IN
       \E k \in 0 .. Len(q) :
         /\ Fits(Hub(h), k) /\ FitsAssigned(Hub(h), q)
         /\ LET t == IF k = Len(q) THEN Assigned(Hub(h), q) ELSE AssignedUpTo(Hub(h), q, k)
                r == Hub(x)
            IN  ResetAs([r EXCEPT !.mask = t.mask, !.data = t.data, !.lent = t.lent],
                        [hubs EXCEPT ![h] = Blist(t), ![x] = Empty])

-----------------------------------------------------------------------------
Next ==
  \E h \in Hubs :
    \/ Emplace(h) \/ EmplaceThrows(h) \/ Insert(h) \/ InsertThrows(h)
    \/ Erase(h) \/ EraseIf(h) \/ Unique(h)
    \/ Assign(h) \/ AssignThrows(h)
    \/ Reserve(h) \/ TrimCapacity(h) \/ ShrinkToFit(h) \/ Sort(h)
    \/ Splice(h) \/ Swap(h) \/ Destroy(h) \/ MoveAssign(h) \/ MoveElements(h)

Spec == Init /\ [][Next]_vars

-----------------------------------------------------------------------------
(* Properties *)

HasNoDuplicates(list) == Cardinality(ToSet(list)) = Len(list)

\* What every member function relies on: the active list has the blocks with
\* elements, the available one those with room, reserved ones last (emplace
\* must not open one while an active block has room, and trim_capacity and
\* reset look for them at the back only), and the two counts agree with them.
StructureSound ==
  \A h \in Hubs :
    LET s      == Hub(h)
        blocks == ToSet(s.active) \cup ToSet(s.available)
    IN  /\ HasNoDuplicates(s.active) /\ HasNoDuplicates(s.available)
        /\ ToSet(s.active) = {b \in blocks : mask[b] # {}}
        /\ ToSet(s.available) = {b \in blocks : mask[b] # Slots}
        /\ \A i, j \in DOMAIN s.available : i < j /\ mask[s.available[i]] = {} => mask[s.available[j]] = {}
        /\ s.num = Cardinality(blocks) /\ s.size = CountIn(mask, s.active)

\* Every block on loan is in one hub, and a slot has an element exactly if
\* its bit is set: no block or element is leaked, none is released twice,
\* whatever throws and however blocks change hands.
NothingLeaked ==
  /\ \A h, g \in Hubs :
       h # g => (ToSet(hubs[h].active) \cup ToSet(hubs[h].available))
                \cap (ToSet(hubs[g].active) \cup ToSet(hubs[g].available)) = {}
  /\ lent = UNION {ToSet(hubs[h].active) \cup ToSet(hubs[h].available) : h \in Hubs}
  /\ \A b \in Blocks : mask[b] = {n \in Slots : data[b][n] # Raw}

\* Elements of t that were in s are where they were.
Stable(s, t) == \A b \in Blocks : \A n \in s.mask[b] \cap t.mask[b] : s.data[b][n] = t.data[b][n]
Keeps(s, t)  == \A b \in Blocks : s.mask[b] \subseteq t.mask[b]

\* "pointers and iterators to an element remain valid until the element is
\* erased": whatever is inserted, erased, reserved or trimmed, other elements
\* keep their block and slot.
ElementsStay ==
  \A h \in Hubs :
    LET s == Hub(h) IN
    /\ \A q \in Ranges : Fits(s, Len(q)) => Keeps(s, Inserted(s, q)) /\ Stable(s, Inserted(s, q))
    /\ \A i \in DOMAIN Positions(s) : Stable(s, ErasedRange(s, i, i + 1))
    /\ \A n \in 0 .. Capacity(s) : Keeps(s, Trimmed(s, n)) /\ Stable(s, Trimmed(s, n))

SameElements(q, r) == \A v \in Values : Len(SelectSeq(q, LAMBDA w : w = v)) = Len(SelectSeq(r, LAMBDA w : w = v))

\* The documented contents, in iteration order, from any structure of blocks
\* and holes: assign leaves exactly the range ("keeping their relative
\* order"), erase removes the elements of the range, unique those equal to
\* the one before, splice appends, and shrink_to_fit loses none.
ContentsAsPromised ==
  \A h \in Hubs :
    LET s == Hub(h)
        c == Contents(s)
    IN  /\ \A q \in Ranges : FitsAssigned(s, q) => Contents(Assigned(s, q)) = q
        /\ \A i \in DOMAIN c : \A j \in i .. Len(c) + 1 :
             Contents(ErasedRange(s, i, j)) = SubSeq(c, 1, i - 1) \o SubSeq(c, j, Len(c))
        /\ \A v \in Values : Contents(ErasedIf(s, {v}, Len(c))) = SelectSeq(c, LAMBDA w : w # v)
        /\ Contents(Uniqued(s)) = [k \in DOMAIN GroupStarts(s) |-> c[GroupStarts(s)[k]]]
        /\ \A x \in Hubs \ {h} : Contents(Spliced(s, hubs[x])) = c \o Contents(Hub(x))
        /\ SameElements(c, Contents(Shrunk(s)))

\* The documented capacities: reserve gives what is asked for, trim_capacity
\* leaves "no less than n" and no reserved block it could delete, shrink_to_fit
\* leaves the fewest blocks, and an emplace that throws has no effect.
CapacityAsPromised ==
  \A h \in Hubs :
    LET s == Hub(h) IN
    /\ \A n \in 1 .. N * Cardinality(Blocks) :
         BlocksFor(s, n) <= Unlent(s) => Capacity(Reserved(s, n)) >= n
    /\ \A n \in 0 .. Capacity(s) :
         LET t == Trimmed(s, n) IN
         /\ Capacity(t) >= n
         /\ Capacity(t) - n < N \/ \A b \in ToSet(t.available) : t.mask[b] # {}
    /\ Capacity(Shrunk(s)) < s.size + N
    /\ Fits(s, 1) => Restored(Retrieve(s), FirstAvailable(s)) = s
=============================================================================
