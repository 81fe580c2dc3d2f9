----------------------------- MODULE BasicString -----------------------------
(***************************************************************************)
(* string.hpp: basic_string, whose characters live in a buffer inside the  *)
(* object (the short representation) or in a block (the long one).  An     *)
(* object has the members of a Holder; its capacity is priv_storage(),     *)
(* which counts the terminating null, and it is short when start is the    *)
(* internal buffer.  Kind "string2" has an allocator of version 2, which   *)
(* may expand a block.                                                     *)
(*                                                                         *)
(* Characters are plain data: nothing is built or destroyed, and only the  *)
(* allocator throws.  A cell is a character, Null, or Raw: whatever was    *)
(* there; the cells after the terminating null are Raw between two calls.  *)
(***************************************************************************)
EXTENDS Vector

CONSTANT InternalBufferChars   \* the cells of the internal buffer

ASSUME InternalBufferAssumption == InternalBufferChars \in Nat \ {0}

Null == -2

IsShort(w, o) == w.obj[o].start = Internal(o)

EmptyString(kind, o) == Holder(kind, Internal(o), 0, InternalBufferChars)

\* The internal buffer of an empty string
EmptyBuffer == [j \in 0 .. InternalBufferChars - 1 |-> IF j = 0 THEN Null ELSE Raw]

-----------------------------------------------------------------------------
(* Characters *)

\* What is inserted or assigned: characters from elsewhere, or those the
\* string itself has from offset at.
Outside(chars) == [at |-> -1, chars |-> chars]
Within(w, o, at, n) == [at |-> at, chars |-> Values(w, w.obj[o].start, at, n)]

\* n characters of source s after its first i, as they are by now in block b.
Read(w, b, s, i, n) ==
  IF s.at >= 0 THEN Values(w, b, s.at + i, n) ELSE SubSeq(s.chars, i + 1, i + n)

\* Traits::assign and priv_uninitialized_copy
Put(w, b, i, chars) == Needs(w, Cells(w, b, i, Len(chars)), Write(w, b, i, chars))

\* Traits::move, for ranges that may overlap
MoveChars(w, b, i, n, j) == Needs(w, Cells(w, b, i, n), Put(w, b, j, Values(w, b, i, n)))

\* Traits::copy, for ranges that must not
CopyChars(w, b, s, i, n, j) ==
  Needs(w, s.at < 0 \/ n = 0 \/ s.at + i + n <= j \/ j + n <= s.at + i,
        Put(w, b, j, Read(w, b, s, i, n)))

\* priv_size and the terminating null.  What is after it is not looked at.
Ended(w, o, n) ==
  LET b    == w.obj[o].start
      last == Put(w, b, n, <<Null>>)
  IN  [last EXCEPT !.obj[o].size = n,
                   !.heap[b] = [j \in DOMAIN @ |-> IF j > n THEN Raw ELSE @[j]]]

Forgotten(w, b) == [w EXCEPT !.heap[b] = [j \in DOMAIN @ |-> Raw]]

-----------------------------------------------------------------------------
(* Blocks *)

\* next_storage, for additional characters: growth_factor_60 of the storage
NextStorage(v, additional) ==
  LET spare == v.cap - 1 - v.size
  IN  Larger(v.cap + additional - spare, (v.cap * 8) \div 5)

\* deallocate_block: a buffer of that size is taken for the internal one.
DeallocateBlock(w, o) ==
  LET v == w.obj[o]
  IN  IF v.cap > InternalBufferChars THEN Deallocate(Forgotten(w, v.start), v.start)
      ELSE Forgotten(w, v.start)

\* chars in a new block of cap cells instead of the old buffer.  The null is
\* written last.
InNewBlock(w, o, chars, cap) ==
  LET c == Fresh(w)
      Replace(m) == WithMembers(DeallocateBlock(m, o), o, Holder(m.obj[o].kind, c, 0, cap))
  IN  Then(Allocate(w, cap),
           LAMBDA m : Ended(Replace(Put(m, c, 0, chars)), o, Len(chars)))

-----------------------------------------------------------------------------
(* insert of a range, of copies and of one character *)

\* In the buffer: the tail makes way, past the null or over it.
InsertInBuffer(w, o, p, s) ==
  LET b     == w.obj[o].start
      size  == w.obj[o].size
      n     == Len(s.chars)
      after == size - p
      tail  == IF after >= n THEN MoveChars(w, b, size - n + 1, n, size + 1)
               ELSE Put(w, b, size + 1, Read(w, b, s, after + 1, n - after - 1))
      apart == IF after >= n THEN MoveChars(tail, b, p, after - n + 1, p + n)
               ELSE MoveChars(tail, b, p, after + 1, size + n - after)
  IN  Ended(CopyChars(apart, b, s, 0, IF after >= n THEN n ELSE after + 1, p), o, size + n)

\* In a new block
InsertInNewBlock(w, o, p, s, cap) ==
  LET v == w.obj[o]
  IN  InNewBlock(w, o, Values(w, v.start, 0, p) \o Read(w, v.start, s, 0, Len(s.chars))
                       \o Values(w, v.start, p, v.size - p), cap)

\* In the block, expanded by w.expand cells in front of it
InsertExpandedBackwards(w, o, p, s, cap) ==
  LET v    == w.obj[o]
      b    == v.start
      n    == Len(s.chars)
      k    == w.expand
      head == MoveChars(Expanded(w, b, k, cap), b, k, p, 0)
      tail == MoveChars(head, b, k + p, v.size - p, p + n)
      from == IF s.at < 0 THEN s ELSE [s EXCEPT !.at = @ + k]
      new  == Put(tail, b, p, Read(tail, b, from, 0, n))
  IN  Ended([new EXCEPT !.obj[o].cap = cap], o, v.size + n)

InsertChars(w, o, p, s) ==
  LET v   == w.obj[o]
      n   == Len(s.chars)
      cap == NextStorage(v, n)
  IN  IF ~Fine(w) \/ n = 0 THEN w
      ELSE IF v.cap - 1 - v.size >= n THEN InsertInBuffer(w, o, p, s)
      ELSE IF ~CanExpand(w, o, cap) THEN InsertInNewBlock(w, o, p, s, cap)
      ELSE IF Fails(w, 1) THEN Threw(w, "alloc")
      ELSE IF w.expand = 0
      THEN InsertInBuffer([Expanded(Spent(w, 1), v.start, 0, cap) EXCEPT !.obj[o].cap = cap],
                          o, p, s)
      ELSE InsertExpandedBackwards(Spent(w, 1), o, p, s, cap)

\* append
AppendChars(w, o, s) == InsertChars(w, o, w.obj[o].size, s)

\* push_back
PushBackChar(w, o, x) ==
  LET v == w.obj[o]
  IN  IF v.size < v.cap - 1 THEN Ended(Put(w, v.start, v.size, <<x>>), o, v.size + 1)
      ELSE AppendChars(w, o, Outside(<<x>>))

-----------------------------------------------------------------------------
(* The other member functions *)

\* erase and pop_back: the move includes the terminating null.
EraseChars(w, o, p, n) ==
  LET v == w.obj[o]
  IN  IF n = 0 \/ ~Fine(w) THEN w
      ELSE Ended(MoveChars(w, v.start, p + n, v.size + 1 - (p + n), p), o, v.size - n)

\* clear
ClearChars(w, o) == Ended(w, o, 0)

\* resize
ResizeChars(w, o, n, x) ==
  LET size == w.obj[o].size
  IN  IF n <= size THEN EraseChars(w, o, n, size - n)
      ELSE AppendChars(w, o, Outside(Filled(n - size, x)))

\* priv_reserve: the capacity asked for counts as additional characters.
ReserveChars(w, o, n) ==
  LET v == w.obj[o]
  IN  IF v.cap - 1 >= n THEN w
      ELSE InNewBlock(w, o, Contents(w, o), NextStorage(v, n + 1))

\* shrink_to_fit.  In the internal buffer the length is what the long
\* representation left in the byte they share; a failed allocation is caught.
\* A string2 has none: with version 2 the member does not compile.
ShrinkChars(w, o) ==
  LET v       == w.obj[o]
      inside  == Put(w, Internal(o), 0, Values(w, v.start, 0, v.size + 1))
      shorter == InNewBlock(w, o, Contents(w, o), v.size + 1)
  IN  IF v.cap <= InternalBufferChars THEN w
      ELSE IF v.size < InternalBufferChars
      THEN [Deallocate(Forgotten(inside, v.start), v.start)
              EXCEPT !.obj[o] = Holder(v.kind, Internal(o), v.size, InternalBufferChars)]
      ELSE IF Fine(shorter) THEN shorter ELSE w

\* assign of a range of characters
AssignChars(w, o, s) ==
  LET n == Len(s.chars)
  IN  Then(ReserveChars(w, o, n),
           LAMBDA m : Ended(CopyChars(m, m.obj[o].start, s, 0, n, 0), o, n))

\* assign of other iterators, and of n copies: what is there is overwritten,
\* and the surplus is erased or the rest appended.
AssignIterators(w, o, chars) ==
  LET v      == w.obj[o]
      common == Smaller(Len(chars), v.size)
      over   == Put(w, v.start, 0, Lead(chars, common))
  IN  IF common = Len(chars) THEN EraseChars(over, o, common, v.size - common)
      ELSE AppendChars(over, o, Outside(Rest(chars, common)))

\* replace of [p, p+len)
ReplaceChars(w, o, p, len, s) ==
  LET n      == Len(s.chars)
      common == Smaller(n, len)
      over   == CopyChars(w, w.obj[o].start, s, 0, common, p)
      rest   == [at |-> IF s.at < 0 THEN -1 ELSE s.at + common, chars |-> Rest(s.chars, common)]
  IN  IF len >= n THEN EraseChars(over, o, p + n, len - n)
      ELSE InsertChars(over, o, p + len, rest)

\* swap_data: the representations change places, with their characters.
SwapStrings(w, o, x) ==
  LET Carried(from, to) == IF IsShort(w, from) THEN [w.obj[from] EXCEPT !.start = Internal(to)]
                           ELSE w.obj[from]
  IN  [w EXCEPT !.obj[o] = Carried(x, o), !.obj[x] = Carried(o, x),
                !.heap[Internal(o)] = w.heap[Internal(x)],
                !.heap[Internal(x)] = w.heap[Internal(o)]]

\* priv_move_assign: x keeps the memory of o.
MoveAssignString(w, o, x) == SwapStrings(ClearChars(w, o), o, x)

\* The destructor, and the default constructor of the next string
DestroyedString(w, o) ==
  [DeallocateBlock(w, o) EXCEPT !.heap[Internal(o)] = EmptyBuffer,
                                !.obj[o] = EmptyString(w.obj[o].kind, o)]

-----------------------------------------------------------------------------
(* Invariants of the members *)

\* The null is where the size says and inside the storage, every character
\* has a value, and the size of the storage tells the two buffers apart.
StringSound(w, o) ==
  LET v == w.obj[o]
  IN  /\ v.size < v.cap /\ v.cap = Capacity(w, v.start)
      /\ IsShort(w, o) <=> v.cap <= InternalBufferChars
      /\ w.heap[v.start][v.size] = Null
      /\ \A j \in 0 .. v.size - 1 : w.heap[v.start][j] \notin {Raw, Null}

=============================================================================
