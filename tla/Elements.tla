------------------------------ MODULE Elements ------------------------------
(***************************************************************************)
(* The element loops of detail/copy_move_algo.hpp and the rollbacks of     *)
(* detail/destroyers.hpp: what the array containers do to the elements of  *)
(* a buffer, and what is left of it when an element or the allocator       *)
(* throws half-way.                                                        *)
(*                                                                         *)
(* A program is a chain of operators on a record w:                        *)
(*   heap    the lent blocks: block -> (offset -> cell)                    *)
(*   obj     the containers: object -> its members                         *)
(*   fuse    0, or how many throwing operations it takes to one that       *)
(*           throws                                                        *)
(*   thrown  "no", "alloc", "element" or, in a tree, "compare"             *)
(*   ub      an operation met a cell in the wrong state: a construction    *)
(*           over a live element, an assignment, a move or a destruction   *)
(*           of raw memory, an access out of the block                     *)
(*   movesThrow  moving an element, or comparing two in a tree, may throw  *)
(*   moving  the new elements come from move iterators                     *)
(* A cell is Raw, a value, or Moved: live, with no value to rely on.       *)
(* Operators that may throw do nothing once w.thrown is set; destructions  *)
(* and deallocations never throw, so their callers say when they run.      *)
(***************************************************************************)
EXTENDS Integers, Sequences, FiniteSets

Raw   == 0
Moved == -1

Larger(a, b)  == IF a > b THEN a ELSE b
Smaller(a, b) == IF a < b THEN a ELSE b

Fine(w)  == w.thrown = "no"

\* One of the next n throwing operations throws.
Fails(w, n) == w.fuse # 0 /\ w.fuse <= n
Spent(w, n) == IF w.fuse = 0 THEN w ELSE [w EXCEPT !.fuse = @ - n]
Threw(w, what) == [w EXCEPT !.fuse = 0, !.thrown = what]

\* What follows a step, unless it threw.
Then(w, Step(_)) == IF Fine(w) THEN Step(w) ELSE w

\* The same, and what is undone if it threw.
Outcome(w, Step(_), Undo(_)) == IF Fine(w) THEN Step(w) ELSE Undo(w)

\* The throwing operations among n moves, and among n new elements.
MoveCost(w, n) == IF w.movesThrow THEN n ELSE 0
Cost(w, n) == IF w.moving THEN MoveCost(w, n) ELSE n

\* An operation that needs ok.
Needs(w, ok, next) == IF ok THEN next ELSE [w EXCEPT !.ub = TRUE]

Capacity(w, b) == Cardinality(DOMAIN w.heap[b])
Cells(w, b, i, n) == \A j \in i .. i + n - 1 : j \in DOMAIN w.heap[b]
Live(w, b, i, n) == Cells(w, b, i, n) /\ \A j \in i .. i + n - 1 : w.heap[b][j] # Raw
Unbuilt(w, b, i, n) == Cells(w, b, i, n) /\ \A j \in i .. i + n - 1 : w.heap[b][j] = Raw

Values(w, b, i, n) == [k \in 1 .. n |-> w.heap[b][i + k - 1]]

Write(w, b, i, vals) ==
  IF vals = <<>> THEN w
  ELSE [w EXCEPT !.heap[b] = [j \in DOMAIN @ |->
         IF j \in i .. i + Len(vals) - 1 THEN vals[j - i + 1] ELSE @[j]]]

Lead(vals, n) == SubSeq(vals, 1, n)
Rest(vals, n)  == SubSeq(vals, n + 1, Len(vals))

Filled(n, cell) == [k \in 1 .. n |-> cell]

-----------------------------------------------------------------------------
(* Loops *)

\* uninitialized_copy_alloc, uninitialized_fill_alloc_n and the proxies'
\* uninitialized_copy_n_and_update: what was built is destroyed on a throw.
UninitializedCopy(w, vals, b, i) ==
  LET n == Len(vals)
  IN  IF ~Fine(w) THEN w
      ELSE IF Fails(w, Cost(w, n)) THEN Threw(w, "element")
      ELSE Needs(w, Unbuilt(w, b, i, n), Write(Spent(w, Cost(w, n)), b, i, vals))

\* uninitialized_move_alloc: the elements of [i, i+n) of b, built at j of c.
\* On a throw the elements already moved from stay so.
UninitializedMove(w, b, i, n, c, j) ==
  LET cost == MoveCost(w, n)
  IN  IF ~Fine(w) THEN w
      ELSE Needs(w, Live(w, b, i, n) /\ Unbuilt(w, c, j, n),
             IF Fails(w, cost)
             THEN Threw(Write(w, b, i, Filled(w.fuse - 1, Moved)), "element")
             ELSE Write(Write(Spent(w, cost), c, j, Values(w, b, i, n)),
                        b, i, Filled(n, Moved)))

\* The first (or, in a backward loop, the last) k of the n assignments that
\* move [i, i+n) to [j, j+n).
Shifted(w, b, i, n, j, k, backward) ==
  LET skip == IF backward THEN n - k ELSE 0
      left == Write(w, b, i + skip, Filled(k, Moved))
  IN  Write(left, b, j + skip, Values(w, b, i + skip, k))

MoveLoop(w, b, i, n, j, backward) ==
  LET cost == IF i = j THEN 0 ELSE MoveCost(w, n)
  IN  IF ~Fine(w) THEN w
      ELSE Needs(w, Live(w, b, i, n) /\ Live(w, b, j, n),
             IF Fails(w, cost)
             THEN Threw(Shifted(w, b, i, n, j, w.fuse - 1, backward), "element")
             ELSE Shifted(Spent(w, cost), b, i, n, j, n, backward))

\* move and move_forward_overlapping: [i, i+n) assigned from the left to [j, ...)
MoveForward(w, b, i, n, j) == MoveLoop(w, b, i, n, j, FALSE)

\* move_backward and move_backward_overlapping
MoveBackward(w, b, i, n, j) == MoveLoop(w, b, i, n, j, TRUE)

\* copy, copy_n and the proxies' copy_n_and_update, which assign.
CopyAssign(w, vals, b, i) ==
  LET n == Len(vals)
  IN  IF ~Fine(w) THEN w
      ELSE Needs(w, Live(w, b, i, n),
             IF Fails(w, Cost(w, n))
             THEN Threw(Write(w, b, i, Lead(vals, w.fuse - 1)), "element")
             ELSE Write(Spent(w, Cost(w, n)), b, i, vals))

\* destroy_alloc_n
Destroy(w, b, i, n) == Needs(w, Live(w, b, i, n), Write(w, b, i, Filled(n, Raw)))

\* copy_assign_range_alloc_n: vals over the size elements at the front of b.
\* Faulty form: the surplus elements are not destroyed.
CopyAssignRangeKeepsTail(w, vals, b, size) ==
  LET common == Smaller(Len(vals), size)
  IN  UninitializedCopy(CopyAssign(w, Lead(vals, common), b, 0), Rest(vals, common), b, size)

CopyAssignRange(w, vals, b, size) ==
  LET common == Smaller(Len(vals), size)
      over   == CopyAssign(w, Lead(vals, common), b, 0)
  IN  Then(UninitializedCopy(over, Rest(vals, common), b, size),
           LAMBDA m : Destroy(m, b, common, size - common))

-----------------------------------------------------------------------------
(* Rollbacks and blocks *)

\* Step under an array destructor over [i, i+n) of b.
Guarded(w, Step(_), b, i, n) ==
  LET after == Step(w)
  IN  IF Fine(w) /\ ~Fine(after) THEN Destroy(after, b, i, n) ELSE after

\* Blocks are numbered; nothing depends on which one is lent.
Fresh(w) ==
  CHOOSE b \in 1 .. Cardinality(DOMAIN w.heap) + 1 :
    b \notin DOMAIN w.heap

Lent(w, b, n) ==
  [w EXCEPT !.heap = [x \in DOMAIN @ \cup {b} |->
     IF x = b THEN [j \in 0 .. n - 1 |-> Raw] ELSE @[x]]]

\* allocate(n), which lends Fresh(w)
Allocate(w, n) ==
  IF ~Fine(w) THEN w
  ELSE IF Fails(w, 1) THEN Threw(w, "alloc")
  ELSE Lent(Spent(w, 1), Fresh(w), n)

\* n blocks of size cells, or none if one allocation throws
FreshBlocks(w, n) ==
  LET free == (1 .. Cardinality(DOMAIN w.heap) + n) \ DOMAIN w.heap
  IN  [k \in 1 .. n |-> CHOOSE b \in free : Cardinality({c \in free : c < b}) = k - 1]

AllocateMany(w, n, size) ==
  LET new == {FreshBlocks(w, n)[k] : k \in 1 .. n}
  IN  IF ~Fine(w) THEN w
      ELSE IF Fails(w, n) THEN Threw(w, "alloc")
      ELSE [Spent(w, n) EXCEPT !.heap = [x \in DOMAIN @ \cup new |->
             IF x \in new THEN [j \in 0 .. size - 1 |-> Raw] ELSE @[x]]]

\* deallocate: an element still in the block is never destroyed.
Deallocate(w, b) ==
  Needs(w, b \in DOMAIN w.heap /\ \A j \in DOMAIN w.heap[b] : w.heap[b][j] = Raw,
        [w EXCEPT !.heap = [x \in DOMAIN @ \ {b} |-> @[x]]])

\* Step under an array deallocator of b.
DeallocatedOnThrow(w, Step(_), b) ==
  LET after == Step(w)
  IN  IF Fine(w) /\ ~Fine(after) THEN Deallocate(after, b) ELSE after

=============================================================================
