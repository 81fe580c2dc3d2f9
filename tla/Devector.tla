------------------------------ MODULE Devector ------------------------------
(***************************************************************************)
(* devector.hpp: a buffer with free room at both ends.  An insertion that  *)
(* finds none on its side moves all elements to the middle of the buffer,  *)
(* if enough of it is left free after that, or to a larger one.            *)
(*                                                                         *)
(* An object has the members start (the buffer), front and back (m_.       *)
(* front_idx and back_idx, the offsets of its elements) and cap.           *)
(***************************************************************************)
EXTENDS Expansion

CONSTANT FreeFraction   \* devector_min_free_fraction

None == 0

EmptyDevector == [kind |-> "devector", start |-> None, front |-> 0, back |-> 0, cap |-> 0]

Size(w, o) == w.obj[o].back - w.obj[o].front
Contents(w, o) == Values(w, w.obj[o].start, w.obj[o].front, Size(w, o))

\* capacity, front_capacity and back_capacity
SharedCapacity(v) == v.cap - (v.cap \div FreeFraction)
FrontCapacity(v)  == v.back
BackCapacity(v)   == v.cap - v.front

\* front_free_capacity and back_free_capacity
FrontFree(v) == v.front
BackFree(v)  == v.cap - v.back

\* calculate_new_capacity, with growth_factor_60
NewCapacity(v, n) == Larger(n, (v.cap * 8) \div 5)

Indexed(w, o, front, back) == [w EXCEPT !.obj[o].front = front, !.obj[o].back = back]

\* deallocate_buffer, after the elements are destroyed
Emptied(w, o) ==
  LET v == w.obj[o]
      bare == Destroy(w, v.start, v.front, Size(w, o))
  IN  IF v.start = None THEN bare ELSE Deallocate(bare, v.start)

\* Build fills a new buffer of cap cells, which replaces the old one with the
\* elements in [front, back).
InNewBuffer(w, o, cap, Build(_), front, back) ==
  LET c == Fresh(w)
  IN  Then(DeallocatedOnThrow(Allocate(w, cap), Build, c),
           LAMBDA m : [Emptied(m, o) EXCEPT
              !.obj[o] = [EmptyDevector EXCEPT !.start = c, !.front = front, !.back = back,
                                               !.cap = cap]])

\* reallocate_at
ReallocateAt(w, o, cap, at) ==
  LET v == w.obj[o]
      n == Size(w, o)
      Build(m) == UninitializedMove(m, v.start, v.front, n, Fresh(w), at)
  IN  InNewBuffer(w, o, cap, Build, at, at + n)

-----------------------------------------------------------------------------
(* Insertion *)

\* Whether enough of the buffer stays free when n elements come in.
Fits(w, o, n) ==
  LET free == w.obj[o].cap - Size(w, o)
  IN  free >= n /\ free - n >= w.obj[o].cap \div FreeFraction

\* Where the elements go then
Middle(w, o, n) == (w.obj[o].cap - Size(w, o) - n) \div 2
ShiftsForward(w, o, n) == Fits(w, o, n) /\ Middle(w, o, n) >= w.obj[o].front

\* insert_range_slow_path within the buffer: both indices are 0 while
\* elements move.
Recentred(w, o, p, vals) ==
  LET v    == w.obj[o]
      size == Size(w, o)
      to   == Middle(w, o, Len(vals))
  IN  Then(Shift(Indexed(w, o, 0, 0), v.start, v.front, size, to, v.front + p, vals),
           LAMBDA m : Indexed(m, o, to, to + size + Len(vals)))

\* insert_range_slow_path into a larger buffer
Enlarged(w, o, p, vals) ==
  LET v    == w.obj[o]
      size == Size(w, o) + Len(vals)
      cap  == NewCapacity(v, v.cap + Len(vals))
      to   == (cap - size) \div 2
      Build(m) == MoveAndInsert(m, v.start, v.front, v.front + p, v.back, Fresh(w), to, vals)
  IN  InNewBuffer(w, o, cap, Build, to, to + size)

\* insert_range_slow_path
SlowPath(w, o, p, vals) ==
  IF Fits(w, o, Len(vals)) THEN Recentred(w, o, p, vals) ELSE Enlarged(w, o, p, vals)

\* emplace_front and insertion at begin, with room in front
BuildFront(w, o, vals) ==
  LET v == w.obj[o]
  IN  Then(UninitializedCopy(w, vals, v.start, v.front - Len(vals)),
           LAMBDA m : Indexed(m, o, v.front - Len(vals), v.back))

\* emplace_back and insertion at end, with room behind
BuildBack(w, o, vals) ==
  LET v == w.obj[o]
  IN  Then(UninitializedCopy(w, vals, v.start, v.back),
           LAMBDA m : Indexed(m, o, v.front, v.back + Len(vals)))

\* Insertion in the middle, with room in front or behind
MiddleFront(w, o, p, vals) ==
  LET v == w.obj[o]
  IN  Then(ExpandBackwardMiddle(w, v.start, v.front, v.front + p, vals),
           LAMBDA m : Indexed(m, o, v.front - Len(vals), v.back))

MiddleBack(w, o, p, vals) ==
  LET v == w.obj[o]
  IN  Then(ExpandForwardMiddle(w, v.start, v.front + p, v.back, vals),
           LAMBDA m : Indexed(m, o, v.front, v.back + Len(vals)))

\* insert_range and emplace
Insert(w, o, p, vals) ==
  LET v       == w.obj[o]
      n       == Len(vals)
      behind  == p >= Size(w, o) \div 2   \* should_move_back
  IN  CASE n = 0 -> w
        [] p = Size(w, o) /\ BackFree(v) >= n -> BuildBack(w, o, vals)
        [] p = 0 /\ Size(w, o) # 0 /\ FrontFree(v) >= n -> BuildFront(w, o, vals)
        [] p \in 1 .. Size(w, o) - 1 /\ behind /\ BackFree(v) >= n -> MiddleBack(w, o, p, vals)
        [] p \in 1 .. Size(w, o) - 1 /\ ~behind /\ FrontFree(v) >= n -> MiddleFront(w, o, p, vals)
        [] OTHER -> SlowPath(w, o, p, vals)

\* emplace_front
EmplaceFront(w, o, x) ==
  IF FrontFree(w.obj[o]) > 0 THEN BuildFront(w, o, <<x>>) ELSE SlowPath(w, o, 0, <<x>>)

-----------------------------------------------------------------------------
(* Erasure *)

\* pop_front, and what erase leaves to destroy in front
DropFront(w, o, n) ==
  LET v == w.obj[o]
  IN  Indexed(Destroy(w, v.start, v.front, n), o, v.front + n, v.back)

\* pop_back, and what erase leaves to destroy behind
DropBack(w, o, n) ==
  LET v == w.obj[o]
  IN  Indexed(Destroy(w, v.start, v.back - n, n), o, v.front, v.back - n)

\* move and move_backward, which assign an element to itself when the ranges
\* are the same: it has no value to rely on.
Moves(w, b, i, n, j, backward) ==
  IF Fine(w) /\ i = j THEN Write(w, b, i, Filled(n, Moved)) ELSE MoveLoop(w, b, i, n, j, backward)

\* erase of [p, p+n): the shorter side moves.
Erase(w, o, p, n) ==
  LET v    == w.obj[o]
      last == v.front + p + n
  IN  IF p + n < Size(w, o) - p
      THEN Then(Moves(w, v.start, v.front, p, v.front + n, TRUE), LAMBDA m : DropFront(m, o, n))
      ELSE Then(Moves(w, v.start, last, v.back - last, v.front + p, FALSE),
                LAMBDA m : DropBack(m, o, n))

\* clear
Clear(w, o) == DropBack(w, o, Size(w, o))

-----------------------------------------------------------------------------
(* The other member functions *)

\* The new elements are built, then the old ones are moved beside them.
ResizedInNewBuffer(w, o, cap, old, new, vals, front) ==
  LET v == w.obj[o]
      c == Fresh(w)
      Move(m) == UninitializedMove(m, v.start, v.front, Size(w, o), c, old)
      Build(m) == Guarded(UninitializedCopy(m, vals, c, new), Move, c, new, Len(vals))
  IN  InNewBuffer(w, o, cap, Build, front, front + Size(w, o) + Len(vals))

\* resize and resize_back
ResizeBack(w, o, n, x) ==
  LET v    == w.obj[o]
      vals == Filled(n - Size(w, o), x)
  IN  IF n <= Size(w, o) THEN DropBack(w, o, Size(w, o) - n)
      ELSE IF n <= BackCapacity(v) THEN BuildBack(w, o, vals)
      ELSE ResizedInNewBuffer(w, o, NewCapacity(v, n + FrontFree(v)), v.front, v.back, vals,
                              v.front)

\* resize_front
ResizeFront(w, o, n, x) ==
  LET v    == w.obj[o]
      vals == Filled(n - Size(w, o), x)
      cap  == NewCapacity(v, n + BackFree(v))
      old  == cap - Size(w, o) - BackFree(v)
  IN  IF n <= Size(w, o) THEN DropFront(w, o, Size(w, o) - n)
      ELSE IF n <= FrontCapacity(v) THEN BuildFront(w, o, vals)
      ELSE ResizedInNewBuffer(w, o, cap, old, old - Len(vals), vals, old - Len(vals))

\* reserve, reserve_front and reserve_back
Reserve(w, o, n) ==
  LET cap == ((n + FreeFraction - 2) \div (FreeFraction - 1)) * FreeFraction
  IN  IF n <= SharedCapacity(w.obj[o]) THEN w
      ELSE ReallocateAt(w, o, cap, (cap - Size(w, o)) \div 2)

ReserveFront(w, o, n) ==
  IF n <= FrontCapacity(w.obj[o]) THEN w
  ELSE ReallocateAt(w, o, n + BackFree(w.obj[o]), n - Size(w, o))

ReserveBack(w, o, n) ==
  IF n <= BackCapacity(w.obj[o]) THEN w
  ELSE ReallocateAt(w, o, n + FrontFree(w.obj[o]), w.obj[o].front)

\* shrink_to_fit; do_allocate lends nothing for no elements.
ShrinkToFit(w, o) ==
  IF Size(w, o) = 0 THEN [Emptied(w, o) EXCEPT !.obj[o] = EmptyDevector]
  ELSE ReallocateAt(w, o, Size(w, o), 0)

\* overwrite_buffer: elements are built in front of the old ones, assigned to
\* them and built behind them, as far as there are any.
Overwrite(w, o, vals) ==
  LET v     == w.obj[o]
      n     == Len(vals)
      ahead == Smaller(n, v.front)
      last  == Larger(ahead, Smaller(n, v.back))
      kept  == Smaller(Larger(v.front, n), v.back)
      Over(m) == UninitializedCopy(CopyAssign(m, SubSeq(vals, ahead + 1, last), v.start, v.front),
                                   Rest(vals, last), v.start, v.back)
  IN  Then(Guarded(UninitializedCopy(w, Lead(vals, ahead), v.start, 0), Over, v.start, 0, ahead),
           LAMBDA m : Indexed(Destroy(m, v.start, kept, v.back - kept), o, 0, n))

\* assign and operator=, with allocate_and_copy_range
Assign(w, o, vals) ==
  LET n == Len(vals)
      Build(m) == UninitializedCopy(m, vals, Fresh(w), 0)
  IN  IF n <= w.obj[o].cap THEN Overwrite(w, o, vals) ELSE InNewBuffer(w, o, n, Build, 0, n)

\* swap: swap_big_big, and the indices
Swap(w, o, x) == [w EXCEPT !.obj[o] = w.obj[x], !.obj[x] = w.obj[o]]

\* The destructor
Destroyed(w, o) == [Emptied(w, o) EXCEPT !.obj[o] = EmptyDevector]

\* priv_move_assign when resources can be stolen
MoveAssign(w, o, x) == Swap(Destroyed(w, o), o, x)

-----------------------------------------------------------------------------
(* Invariants of the members *)

OwnedBlocks(w, o) == {w.obj[o].start} \ {None}

\* invariants_ok, and elements in [front, back) only
Sound(w, o) ==
  LET v == w.obj[o]
  IN  /\ v.front <= v.back /\ v.back <= v.cap
      /\ v.start = None => v.cap = 0
      /\ v.start # None => /\ v.cap = Capacity(w, v.start)
                           /\ \A j \in 0 .. v.cap - 1 :
                                (w.heap[v.start][j] # Raw) <=> j \in v.front .. v.back - 1

=============================================================================
