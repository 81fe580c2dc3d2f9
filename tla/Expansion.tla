------------------------------ MODULE Expansion ------------------------------
(***************************************************************************)
(* The insertions of detail/copy_move_algo.hpp: elements given way inside a*)
(* buffer, forwards, backwards or by a shift of the whole range, and moved *)
(* with the new ones to another buffer.  Vector and devector are built on  *)
(* them.  vals are the new elements, pos the offset they go to; offsets    *)
(* are those of block b.                                                   *)
(***************************************************************************)
EXTENDS Elements

\* uninitialized_move_and_insert_alloc: [first, last) of b and the new
\* elements, built from offset to of block c.
MoveAndInsert(w, b, first, pos, last, c, to, vals) ==
  LET before == pos - first
      front  == before + Len(vals)
      Copy(m) == UninitializedCopy(m, vals, c, to + before)
      Behind(m) == UninitializedMove(m, b, pos, last - pos, c, to + front)
  IN  Guarded(Guarded(UninitializedMove(w, b, first, before, c, to), Copy, c, to, before),
              Behind, c, to, front)

\* expand_forward_and_insert_nonempty_middle_alloc, several elements: the
\* tail [pos, last) makes way into the raw memory at last.
ExpandForwardMiddle(w, b, pos, last, vals) ==
  LET n     == Len(vals)
      after == last - pos
      Slide(m) == CopyAssign(MoveBackward(m, b, pos, after - n, pos + n), vals, b, pos)
      Split(m) == UninitializedCopy(CopyAssign(m, Lead(vals, after), b, pos),
                                    Rest(vals, after), b, last)
  IN  IF after >= n THEN Guarded(UninitializedMove(w, b, last - n, n, b, last), Slide, b, last, n)
      ELSE Guarded(UninitializedMove(w, b, pos, after, b, pos + n), Split, b, pos + n, after)

\* expand_forward_and_insert_alloc
ExpandForward(w, b, pos, last, vals) ==
  IF pos = last THEN UninitializedCopy(w, vals, b, last)
  ELSE IF vals = <<>> THEN w
  ELSE ExpandForwardMiddle(w, b, pos, last, vals)

\* expand_backward_and_insert_nonempty_middle_alloc: the head [first, pos)
\* makes way into the raw memory before first.
ExpandBackwardMiddle(w, b, first, pos, vals) ==
  LET n      == Len(vals)
      before == pos - first
      Slide(m) == CopyAssign(MoveForward(m, b, first + n, before - n, first), vals, b, pos - n)
      Split(m) == CopyAssign(UninitializedCopy(m, Lead(vals, n - before), b, pos - n),
                             Rest(vals, n - before), b, first)
      to == first - n
  IN  IF before >= n THEN Guarded(UninitializedMove(w, b, first, n, b, to), Slide, b, to, n)
      ELSE Guarded(UninitializedMove(w, b, first, before, b, to), Split, b, to, before)

-----------------------------------------------------------------------------
(* expand_backward_forward_and_insert_alloc: the size elements at start end *)
(* with the new ones in [new, new + size + n), which overlaps them.  On a   *)
(* throw nothing of the old or the new range may be left alive.             *)

\* move_backward, raw memory for the head and all new elements: the old tail
\* follows them, as far as it fits without assignments.
ShiftBackWithRoom(w, b, start, size, new, pos, vals) ==
  LET last   == start + size
      before == pos - start
      front  == before + Len(vals)
      gap    == Smaller(last - pos, start - new - front)
      Copy(m) == UninitializedCopy(m, vals, b, new + before)
      Behind(m) == UninitializedMove(m, b, pos, gap, b, new + front)
      Build(m) == Guarded(Guarded(UninitializedMove(m, b, start, before, b, new),
                                  Copy, b, new, before),
                          Behind, b, new, front)
      Slide(m) == IF gap = last - pos THEN m
                  ELSE MoveForward(m, b, pos + gap, last - pos - gap, start)
      kept == IF gap = last - pos THEN start ELSE new + size + Len(vals)
  IN  Then(Guarded(Guarded(w, Build, b, start, size),
                   Slide, b, new, IF gap = last - pos THEN 0 ELSE last - new),
           LAMBDA m : Destroy(m, b, kept, last - kept))

\* The first phase with less raw memory: it divides the head, or the new
\* elements.  Those that need no room after the range are placed.
FirstPhase(w, b, start, size, new, pos, vals) ==
  LET last   == start + size
      before == pos - start
      raw    == start - new
      first  == Smaller(Len(vals), raw)
      head   == Smaller(raw, before)
      finish == new + size + first
      Some(m) == UninitializedCopy(m, Lead(vals, raw - before), b, new + before)
      Build(m) == Guarded(UninitializedMove(m, b, start, head, b, new),
                          LAMBDA x : IF raw <= before THEN x ELSE Some(x), b, new, head)
      Over(m) == IF raw <= before
                 THEN CopyAssign(MoveForward(m, b, start + raw, before - raw, start),
                                 Lead(vals, first), b, pos - raw)
                 ELSE CopyAssign(m, SubSeq(vals, raw - before + 1, first), b, start)
      Slide(m) == IF Len(vals) > raw THEN Over(m)
                  ELSE MoveForward(Over(m), b, pos, last - pos, new + before + first)
  IN  Then(Guarded(Guarded(w, Build, b, start, size), Slide, b, new, last - new),
           LAMBDA m : IF Len(vals) > raw THEN m ELSE Destroy(m, b, finish, last - finish))

\* The second phase: the new elements left over go to pos, and the tail makes
\* way for them into the raw memory after the range.
SecondPhase(w, b, start, size, new, pos, vals) ==
  LET last == start + size
      Grow(m) == ExpandForwardMiddle(m, b, pos, last, Rest(vals, start - new))
  IN  Guarded(w, Grow, b, new, last - new)

\* expand_backward_forward_and_insert_alloc_move_backward
ShiftBackward(w, b, start, size, new, pos, vals) ==
  IF start - new >= pos - start + Len(vals)
  THEN ShiftBackWithRoom(w, b, start, size, new, pos, vals)
  ELSE Then(FirstPhase(w, b, start, size, new, pos, vals),
            LAMBDA m : IF Len(vals) > start - new
                       THEN SecondPhase(m, b, start, size, new, pos, vals) ELSE m)

\* move_forward, raw memory for all new elements and the tail
ShiftForwardWithRoom(w, b, start, size, new, pos, vals) ==
  LET last   == start + size
      n      == Len(vals)
      finish == new + size + n
      at     == finish - (last - pos) - n
      gap    == Smaller(pos - start, at - last)
      all    == gap = pos - start
      Behind(m) == UninitializedMove(m, b, pos, last - pos, b, at + n)
      Before(m) == UninitializedMove(m, b, pos - gap, gap, b, at - gap)
      Build(m) == Guarded(Guarded(UninitializedCopy(m, vals, b, at), Behind, b, at, n),
                          Before, b, at, finish - at)
      Slide(m) == IF all THEN m ELSE MoveBackward(m, b, start, pos - start - gap, new)
  IN  Then(Guarded(Guarded(w, Build, b, start, size),
                   Slide, b, start, IF all THEN 0 ELSE finish - start),
           LAMBDA m : Destroy(m, b, start, Smaller(last, new) - start))

\* move_forward, raw memory divides the new elements or the tail.  The
\* rollback grows by the raw memory backwards, though the range has grown
\* forwards.
ShiftForwardTight(w, b, start, size, new, pos, vals) ==
  LET last  == start + size
      n     == Len(vals)
      raw   == new + size + n - last
      after == last - pos
      out   == Smaller(after, raw)
      at    == new + pos - start
      Over(m) == CopyAssign(MoveBackward(m, b, pos, after - out, last - (after - out)),
                            Lead(vals, Smaller(n, last - at)), b, at)
      More(m) == UninitializedCopy(Over(m), Rest(vals, last - at), b, last)
      Front(m) == MoveBackward(m, b, start, pos - start, new)
      Grow(m) == LET tail == UninitializedMove(m, b, last - out, out, b, last + raw - out)
                 IN  IF raw > after THEN Guarded(tail, More, b, last + raw - out, out) ELSE tail
      Fill(m) == IF raw > after THEN Front(m) ELSE Front(Over(m))
  IN  Then(Guarded(Guarded(w, Grow, b, start, size), Fill, b, start - raw, raw + size),
           LAMBDA m : Destroy(m, b, start, new - start))

\* expand_backward_forward_and_insert_alloc
Shift(w, b, start, size, new, pos, vals) ==
  LET n     == Len(vals)
      after == start + size - pos
  IN  IF new < start THEN ShiftBackward(w, b, start, size, new, pos, vals)
      ELSE IF new + size + n - (start + size) >= after + n
      THEN ShiftForwardWithRoom(w, b, start, size, new, pos, vals)
      ELSE ShiftForwardTight(w, b, start, size, new, pos, vals)

=============================================================================
