------------------------------- MODULE Vector -------------------------------
(***************************************************************************)
(* vector.hpp: the engine of vector, small_vector and static_vector, and   *)
(* of the flat containers.  An object has the members of                   *)
(* vector_alloc_holder (start, size, capacity); its kind says which        *)
(* allocator it has:                                                       *)
(*   "vector"         version 1: a larger buffer is a new buffer           *)
(*   "vector2"        version 2: the allocator may expand the buffer, by   *)
(*                    w.expand cells in front of it and the rest behind;   *)
(*                    it can not when w.expand < 0                         *)
(*   "small_vector"   version 1 with internal storage                      *)
(*   "static_vector"  version 0: internal storage only                     *)
(***************************************************************************)
EXTENDS Expansion

CONSTANT InternalCapacity   \* the cells of a small or static vector's storage

ASSUME InternalCapacityAssumption == InternalCapacity \in Nat

None == 0

\* The storage inside object o is block -o: no allocator lends it.
Internal(o) == -o
HasInternal(kind) == kind \in {"small_vector", "static_vector"}

Holder(kind, start, size, cap) ==
  [kind |-> kind, start |-> start, size |-> size, cap |-> cap]

\* The state a default constructor and a move leave.
Empty(kind, o) ==
  IF HasInternal(kind) THEN Holder(kind, Internal(o), 0, InternalCapacity)
  ELSE Holder(kind, None, 0, 0)

Contents(w, o) == Values(w, w.obj[o].start, 0, w.obj[o].size)
Owned(w, o) == {w.obj[o].start} \ {None, Internal(o)}

\* Not the storage inside the object: storage_is_unpropagable
Propagable(w, o) == w.obj[o].start # Internal(o)

Resized(w, o, n) == [w EXCEPT !.obj[o].size = n]

\* growth_factor_60
NextCapacity(v, n) ==
  LET least == v.size + n IN Larger(least, (v.cap * 8) \div 5)

Freed(w, o) ==
  IF Owned(w, o) = {} THEN w ELSE Deallocate(w, w.obj[o].start)

\* The elements of o are destroyed and its buffer given back.
Emptied(w, o) == Freed(Destroy(w, w.obj[o].start, 0, w.obj[o].size), o)

WithMembers(w, o, v) == [w EXCEPT !.obj[o] = v]

\* priv_insert_forward_range_new_allocation
\* Faulty form: the guard of the new buffer is released before the elements
\* are in it.
NewAllocationUnguarded(w, o, p, vals, cap) ==
  LET v == w.obj[o]
      c == Fresh(w)
  IN  Then(MoveAndInsert(Allocate(w, cap), v.start, 0, p, v.size, c, 0, vals),
           LAMBDA m : WithMembers(Emptied(m, o), o,
                                  Holder(v.kind, c, v.size + Len(vals), cap)))

NewAllocation(w, o, p, vals, cap) ==
  LET v == w.obj[o]
      c == Fresh(w)
      Build(m) == MoveAndInsert(m, v.start, 0, p, v.size, c, 0, vals)
  IN  Then(DeallocatedOnThrow(Allocate(w, cap), Build, c),
           LAMBDA m : WithMembers(Emptied(m, o), o,
                                  Holder(v.kind, c, v.size + Len(vals), cap)))

\* The block after an expansion to cap cells, front of them new in front.
Expanded(w, b, front, cap) ==
  [w EXCEPT !.heap[b] = [j \in 0 .. cap - 1 |->
     IF j - front \in DOMAIN @ THEN @[j - front] ELSE Raw]]

\* allocation_command(allocate_new | expand_fwd | expand_bwd) of version 2
CanExpand(w, o, cap) ==
  LET v == w.obj[o]
  IN  /\ v.kind \in {"vector2", "string2"} /\ v.start \notin {None, Internal(o)}
      /\ w.expand \in 0 .. cap - v.cap

\* priv_insert_forward_range_expand_forward, one element: the size grows
\* as soon as the last element is copied.
InsertOne(w, o, p, x) ==
  LET b    == w.obj[o].start
      size == w.obj[o].size
      Grown(m) == Resized(m, o, size + 1)
  IN  IF p = size THEN Then(UninitializedCopy(w, <<x>>, b, size), Grown)
      ELSE CopyAssign(MoveBackward(Then(UninitializedMove(w, b, size - 1, 1, b, size), Grown),
                                   b, p, size - 1 - p, p + 1),
                      <<x>>, b, p)

\* The same, several elements.
InsertMany(w, o, p, vals) ==
  LET v == w.obj[o]
  IN  Then(ExpandForward(w, v.start, p, v.size, vals),
           LAMBDA m : Resized(m, o, v.size + Len(vals)))

InPlace(w, o, p, vals, single) ==
  IF single THEN InsertOne(w, o, p, vals[1]) ELSE InsertMany(w, o, p, vals)

\* priv_insert_forward_range_expand_backwards: size is 0 while elements move.
ExpandBackwards(w, o, p, vals, cap) ==
  LET v    == w.obj[o]
      safe == [Expanded(w, v.start, w.expand, cap) EXCEPT !.obj[o].cap = cap, !.obj[o].size = 0]
  IN  Then(Shift(safe, v.start, w.expand, v.size, 0, w.expand + p, vals),
           LAMBDA m : Resized(m, o, v.size + Len(vals)))

\* priv_insert_forward_range_no_capacity and priv_move_to_new_buffer
WithMoreRoom(w, o, p, vals, cap, single) ==
  LET v       == w.obj[o]
      forward == [Expanded(Spent(w, 1), v.start, 0, cap) EXCEPT !.obj[o].cap = cap]
  IN  IF v.kind = "static_vector" THEN Threw(w, "alloc")
      ELSE IF ~CanExpand(w, o, cap) THEN NewAllocation(w, o, p, vals, cap)
      ELSE IF Fails(w, 1) THEN Threw(w, "alloc")
      ELSE IF w.expand = 0 THEN IF vals = <<>> THEN forward
                                ELSE InPlace(forward, o, p, vals, single)
      ELSE ExpandBackwards(Spent(w, 1), o, p, vals, cap)

\* priv_insert_forward_range
InsertRange(w, o, p, vals, single) ==
  LET v == w.obj[o]
  IN  IF ~Fine(w) THEN w
      ELSE IF Len(vals) <= v.cap - v.size THEN InPlace(w, o, p, vals, single)
      ELSE WithMoreRoom(w, o, p, vals, NextCapacity(v, Len(vals)), single)

-----------------------------------------------------------------------------
(* The member functions *)

\* emplace, insert of one element, push_back and emplace_back
Emplace(w, o, p, x) == InsertRange(w, o, p, <<x>>, TRUE)
EmplaceBack(w, o, x) == Emplace(w, o, w.obj[o].size, x)

\* insert of n copies and of a range
Insert(w, o, p, vals) == InsertRange(w, o, p, vals, FALSE)

\* erase of [p, p+n) and pop_back
Erase(w, o, p, n) ==
  LET v == w.obj[o]
  IN  IF n = 0 THEN w
      ELSE Then(MoveForward(w, v.start, p + n, v.size - p - n, p),
                LAMBDA m : Resized(Destroy(m, v.start, v.size - n, n), o, v.size - n))

\* clear
Clear(w, o) == Resized(Destroy(w, w.obj[o].start, 0, w.obj[o].size), o, 0)

\* resize
Resize(w, o, n, x) ==
  LET v == w.obj[o]
  IN  IF n < v.size
      THEN Resized(Destroy(w, v.start, n, v.size - n), o, n)
      ELSE Insert(w, o, v.size, Filled(n - v.size, x))

\* reserve
Reserve(w, o, n) ==
  LET v == w.obj[o]
  IN  IF n <= v.cap THEN w ELSE WithMoreRoom(w, o, v.size, <<>>, n, FALSE)

\* shrink_to_fit and prot_shrink_to_fit_small
ShrinkToFit(w, o) ==
  LET v     == w.obj[o]
      moved == UninitializedMove(w, v.start, 0, v.size, Internal(o), 0)
  IN  IF Owned(w, o) = {} THEN w
      ELSE IF v.size = 0 THEN [Freed(w, o) EXCEPT !.obj[o] = Empty(v.kind, o)]
      ELSE IF v.kind = "small_vector" /\ v.size <= InternalCapacity
      THEN Then(moved, LAMBDA m : WithMembers(Emptied(m, o), o,
                         Holder(v.kind, Internal(o), v.size, InternalCapacity)))
      ELSE IF v.size = v.cap THEN w
      ELSE IF v.kind = "vector2"
      THEN IF w.expand < 0 THEN w
           ELSE [Expanded(w, v.start, 0, v.size) EXCEPT !.obj[o].cap = v.size]
      ELSE NewAllocation(w, o, v.size, <<>>, v.size)

\* assign of a range: the buffer is kept or expanded,
AssignKept(w, o, vals) ==
  Then(CopyAssignRange(w, vals, w.obj[o].start, w.obj[o].size),
       LAMBDA m : Resized(m, o, Len(vals)))

\* or a new one replaces it before the elements are built,
AssignNew(w, o, vals) ==
  LET n == Len(vals)
      c == Fresh(w)
      Build(m) == UninitializedCopy(
                    WithMembers(Emptied(m, o), o, Holder(w.obj[o].kind, c, 0, n)), vals, c, 0)
  IN  Then(Then(Allocate(w, n), Build), LAMBDA m : Resized(m, o, n))

\* or there is only one, and the elements it has no room for throw.
AssignStatic(w, o, vals) ==
  LET v == w.obj[o]
      n == Len(vals)
  IN  Then(CopyAssign(w, Lead(vals, Smaller(n, v.size)), v.start, 0),
           LAMBDA m : IF n > v.size THEN Insert(m, o, v.size, Rest(vals, v.size))
                      ELSE Resized(Destroy(m, v.start, n, v.size - n), o, n))

Assign(w, o, vals) ==
  LET v    == w.obj[o]
      n    == Len(vals)
      kept == n <= v.cap
      grow == ~kept /\ CanExpand(w, o, n) /\ w.expand = 0
  IN  IF v.kind = "static_vector" THEN AssignStatic(w, o, vals)
      ELSE IF ~kept /\ Fails(w, 1) THEN Threw(w, "alloc")
      ELSE IF kept \/ grow
      THEN AssignKept(IF kept THEN w
                      ELSE [Expanded(Spent(w, 1), v.start, 0, n) EXCEPT !.obj[o].cap = n],
                      o, vals)
      ELSE AssignNew(w, o, vals)

-----------------------------------------------------------------------------
(* Two objects; the allocators of both compare equal. *)

\* The objects exchange their buffers.
SwapHolders(w, o, x) == [w EXCEPT !.obj[o] = w.obj[x], !.obj[x] = w.obj[o]]

\* adl_move_swap of n elements, three moves each
SwapElements(w, o, x, n) ==
  LET a    == w.obj[o].start
      b    == w.obj[x].start
      cost == MoveCost(w, 3 * n)
      k    == (w.fuse - 1) \div 3
      Done(m) == Write(Write(w, a, 0, Values(w, b, 0, m)), b, 0, Values(w, a, 0, m))
      Torn(m) == CASE (w.fuse - 1) % 3 = 0 -> m
                   [] (w.fuse - 1) % 3 = 1 -> Write(m, a, k, <<Moved>>)
                   [] OTHER -> Write(Write(m, a, k, Values(w, b, k, 1)), b, k, <<Moved>>)
  IN  IF Fails(w, cost) THEN Threw(Torn(Done(k)), "element")
      ELSE Spent(Done(n), cost)

\* The tail of prot_swap_small with no propagable buffer, and deep_swap_alloc_n:
\* the rest of the longer object moves to the shorter one.
SwapByElement(w, o, x) ==
  LET sml   == IF w.obj[o].size < w.obj[x].size THEN o ELSE x
      big   == IF sml = o THEN x ELSE o
      n     == w.obj[sml].size
      rest  == w.obj[big].size - n
  IN  Then(UninitializedMove(SwapElements(w, o, x, n),
                             w.obj[big].start, n, rest, w.obj[sml].start, n),
           LAMBDA m : Resized(Resized(Destroy(m, w.obj[big].start, n, rest), big, n),
                              sml, n + rest))

\* prot_swap_small with one dynamic buffer: ext gives it away and takes the
\* elements of int into its internal storage.
SwapExtInt(w, ext, int) ==
  LET e     == w.obj[ext]
      i     == w.obj[int]
      safe  == [w EXCEPT !.obj[ext] = Empty(e.kind, ext)]
      moved == UninitializedMove(safe, i.start, 0, i.size, Internal(ext), 0)
      lost  == IF e.start = None THEN moved
               ELSE Deallocate(Destroy(moved, e.start, 0, e.size), e.start)
      done  == Destroy(Resized(moved, ext, i.size), i.start, 0, i.size)
  IN  IF Fine(moved) THEN [done EXCEPT !.obj[int] = e] ELSE lost

Swap(w, o, x) ==
  LET dynamic == {y \in {o, x} : Propagable(w, y)}
  IN  IF ~HasInternal(w.obj[o].kind) \/ dynamic = {o, x} THEN SwapHolders(w, o, x)
      ELSE IF dynamic = {} THEN SwapByElement(w, o, x)
      ELSE IF dynamic = {o} THEN SwapExtInt(w, o, x)
      ELSE SwapExtInt(w, x, o)

\* steal_resources
Stolen(w, o, x) ==
  [w EXCEPT !.obj[o] = [w.obj[x] EXCEPT !.kind = @],
            !.obj[x] = Holder(w.obj[x].kind, None, 0, 0)]

\* The elements of x moved over those of o, and destroyed.  On a throw those
\* of x have no value to rely on.
MovedFrom(m, x) ==
  IF m.thrown = "alloc" THEN m
  ELSE Write(m, m.obj[x].start, 0, Filled(m.obj[x].size, Moved))

MovedOver(w, o, x) ==
  Then(MovedFrom(Assign([w EXCEPT !.moving = TRUE], o, Contents(w, x)), x),
       LAMBDA m : Clear(m, x))

\* priv_move_assign: x's buffer is stolen, or its elements are moved one by one.
MoveAssign(w, o, x) ==
  IF w.obj[o].kind = "static_vector" \/ ~Propagable(w, x) THEN MovedOver(w, o, x)
  ELSE Stolen(Freed(Clear(w, o), o), o, x)

\* The destructor
Destroyed(w, o) ==
  [Freed(Clear(w, o), o) EXCEPT !.obj[o] = Empty(w.obj[o].kind, o)]

-----------------------------------------------------------------------------
(* Invariants of the members *)

Sound(w, o) ==
  LET v == w.obj[o]
  IN  /\ v.size <= v.cap
      /\ v.start = None => v.cap = 0
      /\ v.start # None => /\ v.cap = Capacity(w, v.start)
                           /\ \A j \in 0 .. v.cap - 1 :
                                (w.heap[v.start][j] # Raw) <=> j < v.size

=============================================================================
