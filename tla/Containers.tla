----------------------------- MODULE Containers -----------------------------
(***************************************************************************)
(* Two containers of one of the sequence kinds, on which a program calls   *)
(* the operations of Vector, FlatTree, BasicString, StableVector, Deque,   *)
(* Devector, Lists and Trees, one after the other, while elements,         *)
(* comparisons and allocations may throw at any point.                     *)
(*                                                                         *)
(* Beside the containers (heap, obj, ub: see Elements) and the program's   *)
(* node handle the state has what the documentation promises of them:      *)
(*   promised  the elements of each container                              *)
(*   watched   an element a reference was taken to: its container, its     *)
(*             place there and its address, while references to it are     *)
(*             promised to stay valid                                      *)
(*   reserved  the capacity the last call promised, if it was a reserve    *)
(***************************************************************************)
EXTENDS FlatTree, BasicString

LOCAL INSTANCE SequencesExt

CONSTANTS
  BlockSize,      \* the cells of a deque's node
  FreeFraction,   \* the option relocate_on of a devector
  Instances,      \* the instances that are checked; of each:
                  \*   kinds      the kinds of the two containers
                  \*   keys       the values of elements
                  \*   ranges     what is inserted and assigned
                  \*   reserves   the capacities that are reserved
                  \*   size       how many elements the two have together at most
                  \*   cells      the cells a devector has at most
                  \*   fuse       how late in a call something may throw
                  \*   both       whether both may own blocks at a time
                  \*   called     the objects called upon; another is swapped and moved
                  \*   watching   whether references are taken
  Disagreements   \* the disagreements of code and documentation that are met

ASSUME ContainersAssumption ==
  /\ BlockSize \in Nat \ {0} /\ FreeFraction \in Nat \ {0, 1}
  /\ \A i \in Instances : /\ i.keys \subseteq Nat \ {Raw} /\ i.ranges \subseteq Seq(i.keys)
                          /\ i.reserves \subseteq Nat /\ {i.size, i.cells, i.fuse} \subseteq Nat
                          /\ i.called \subseteq {1, 2} /\ {i.both, i.watching} \subseteq BOOLEAN
  /\ Disagreements \subseteq
       {"stable_throw", "stable_move", "deque_throw", "empty_range", "deque_reserve",
        "devector_throw", "flat_throw", "flat_duplicates", "string_self", "slist_resize",
        "many_throw", "node_throw"}

S == INSTANCE StableVector
D == INSTANCE Deque
Dv == INSTANCE Devector
L == INSTANCE Lists
T == INSTANCE Trees

VARIABLES bounds, heap, obj, handle, ub, promised, watched, reserved

vars == <<bounds, heap, obj, handle, ub, promised, watched, reserved>>

Objects == {1, 2}
Other(o) == 3 - o

VectorKinds == {"vector", "vector2", "small_vector", "static_vector"}
FlatKinds   == {"flat_set", "flat_multiset"}
DequeKinds  == {"deque", "rdeque", "segtor", "rsegtor"}
StringKinds == {"string", "string2"}
ListKinds   == {"list", "list2", "slist", "slist2"}
TreeKinds   == {"map", "multimap", "multimap2"}

Kind(o) == obj[o].kind
IsStable(o) == Kind(o) = "stable_vector"
IsDeque(o)  == Kind(o) \in DequeKinds
IsFlat(o)   == Kind(o) \in FlatKinds
IsVector(o) == Kind(o) \in VectorKinds
IsString(o) == Kind(o) \in StringKinds
IsDevector(o) == Kind(o) = "devector"
IsList(o)   == Kind(o) \in ListKinds
IsSlist(o)  == Kind(o) \in {"slist", "slist2"}
IsTree(o)   == Kind(o) \in TreeKinds
IsNodes(o)  == IsList(o) \/ IsTree(o)
HasKeys(o)  == IsFlat(o) \/ IsTree(o)
IsSegtor(o) == Kind(o) \in {"segtor", "rsegtor"}

EmptyOf(kind, o) ==
  CASE kind = "stable_vector" -> S!EmptyStable
    [] kind \in DequeKinds -> D!EmptyDeque(kind)
    [] kind = "devector" -> Dv!EmptyDevector
    [] kind \in StringKinds -> EmptyString(kind, o)
    [] kind \in ListKinds \cup TreeKinds -> L!EmptyNodes(kind)
    [] OTHER -> Empty(kind, o)

ContentsOf(w, o) ==
  CASE IsStable(o) -> S!Contents(w, o)
    [] IsDeque(o) -> D!Contents(w, o)
    [] IsDevector(o) -> Dv!Contents(w, o)
    [] IsNodes(o) -> L!Contents(w, o)
    [] OTHER -> Contents(w, o)

World(fuse, movesThrow, expand) ==
  [heap |-> heap, obj |-> obj, handle |-> handle, fuse |-> fuse, thrown |-> "no", ub |-> ub,
   expand |-> expand, movesThrow |-> movesThrow, moving |-> FALSE]

Now == World(0, FALSE, -1)

Elems(o) == ContentsOf(Now, o)
SizeOf(o) == CASE IsStable(o) -> S!Size(Now, o)
               [] IsDeque(o) -> D!Size(Now, o)
               [] IsDevector(o) -> Dv!Size(Now, o)
               [] IsNodes(o) -> L!Size(Now, o)
               [] OTHER -> obj[o].size

\* The address of the i-th element
Address(o, i) ==
  CASE IsStable(o) \/ IsNodes(o) -> <<obj[o].nodes[i], 0>>
    [] IsDeque(o) -> LET off == obj[o].start + i - 1
                     IN  <<obj[o].slots[D!Node(off)], off % BlockSize>>
    [] IsDevector(o) -> <<obj[o].start, obj[o].front + i - 1>>
    [] OTHER -> <<obj[o].start, i - 1>>

Owners(o) == CASE IsStable(o) -> S!OwnedBlocks(Now, o)
               [] IsDeque(o) -> D!OwnedBlocks(Now, o)
               [] IsDevector(o) -> Dv!OwnedBlocks(Now, o)
               [] IsNodes(o) -> L!OwnedBlocks(Now, o)
               [] OTHER -> Owned(Now, o)

Nobody  == [of |-> 0, at |-> 0, address |-> <<0, 0>>]
Nothing == [of |-> 0, capacity |-> 0, side |-> "any"]

Init ==
  /\ bounds \in Instances
  /\ obj = [o \in Objects |-> EmptyOf(bounds.kinds[o], o)]
  /\ heap = [b \in {-o : o \in {o \in Objects : HasInternal(Kind(o)) \/ IsString(o)}} |->
               IF IsString(-b) THEN EmptyBuffer ELSE [j \in 0 .. InternalCapacity - 1 |-> Raw]]
  /\ handle = L!None
  /\ ub = FALSE
  /\ promised = [o \in Objects |-> <<>>]
  /\ watched = Nobody
  /\ reserved = Nothing

-----------------------------------------------------------------------------
(* A call *)

Becomes(w) ==
  /\ \A o \in Objects : IsDevector(o) => w.obj[o].cap <= bounds.cells
  /\ heap' = w.heap /\ obj' = w.obj /\ handle' = w.handle /\ ub' = w.ub
  /\ UNCHANGED bounds

\* The ways the elements and the allocator of o's kind may behave.
Worlds(o) ==
  {World(throws[1], throws[2], expand) :
     throws \in {<<0, FALSE>>} \cup (1 .. bounds.fuse) \X (IF IsString(o) \/ IsList(o) THEN {FALSE} ELSE BOOLEAN),
     expand \in (IF Kind(o) \in {"vector2", "string2"} THEN -1 .. 2 ELSE {-1})}

\* The watched element is at At(its place), unless that is 0; on a throw that
\* changes nothing (kept) it is where it was.
Watch(w, o, At(_), kept) ==
  LET at == At(watched.at)
  IN  watched' = IF watched.of # o THEN watched
                 ELSE IF Fine(w) /\ at # 0 THEN [watched EXCEPT !.at = at]
                 ELSE IF ~Fine(w) /\ kept THEN watched
                 ELSE Nobody

Room(n) == SizeOf(1) + SizeOf(2) + (IF handle = L!None THEN 0 ELSE 1) + n <= bounds.size

\* With the bound `both` off, calls on o find the other container without blocks.
Alone(o) == bounds.both \/ Owners(Other(o)) = {}

\* A program goes on with elements left moved-from by an exception or by a
\* merge only to clear, to assign or to destroy their container.
Whole(o) == \A i \in 1 .. SizeOf(o) : Elems(o)[i] # Moved

\* A call leaves w.  If it returns, o holds after; if it throws one of harmless,
\* what it held before.
Leaves(w, o, after, At(_), harmless) ==
  LET kept == w.thrown \in harmless
  IN  /\ Becomes(w)
      /\ promised' = [promised EXCEPT
           ![o] = IF Fine(w) THEN after ELSE IF kept \/ w.ub THEN @ ELSE ContentsOf(w, o)]
      /\ Watch(w, o, At, kept)

\* Whether elements may throw while more than one is inserted, or one at p.
MayThrow(o) == /\ IsStable(o) => "stable_throw" \in Disagreements
               /\ IsDeque(o) => "deque_throw" \in Disagreements
               /\ L!Version2(Kind(o)) => "many_throw" \in Disagreements
MayThrowAt(o, p) == MayThrow(o) \/ IsNodes(o) \/ (IsDeque(o) /\ (p # 0 \/ SizeOf(o) = 0 \/ IsSegtor(o)))

\* The same of an insertion of n elements: the rollback of a devector that
\* shifts its elements towards the end is one of the disagreements.
MayThrowOf(o, n) ==
  IsDevector(o) => ~Dv!ShiftsForward(Now, o, n) \/ "devector_throw" \in Disagreements

\* An allocation that fails between the two steps of growth leaves the pool of
\* a stable_vector larger than the room in its index.
PoolKept(w, o) ==
  IsStable(o) => S!PoolFits(w, o) \/ "stable_throw" \in Disagreements

\* The failures that leave o as it was when n elements are inserted: the nodes
\* before the one that fails stay.
AnyFailure == {"alloc", "element", "compare"}
Harmless(o, n) ==
  CASE ~IsNodes(o) -> {"alloc"}
    [] n <= 1 -> AnyFailure
    [] L!Version2(Kind(o)) -> {"alloc"}
    [] OTHER -> {}

\* Op is called on o, which may throw from its elements if throws.  A capacity
\* once reserved stays until the container is shrunk or replaced.
Call(o, Op(_), after, At(_), harmless, throws) ==
  \E w \in {Op(m) : m \in Worlds(o)} :
    /\ w.thrown = "element" => throws
    /\ PoolKept(w, o)
    /\ Leaves(w, o, after, At, harmless)
    /\ reserved' = IF reserved.of = o /\ reserved.side # "any" THEN Nothing ELSE reserved

Gone(i) == 0
Stays(i) == i

Inserted(s, p, vals) == Lead(s, p) \o vals \o Rest(s, p)
Erased(s, p, n) == Lead(s, p) \o Rest(s, p + n)

\* Where references are promised to be after n elements are inserted at p.
AfterInsert(o, p, n, i) ==
  CASE IsStable(o) \/ IsNodes(o) -> IF i <= p THEN i ELSE i + n
    [] IsDeque(o) -> IF p = SizeOf(o) THEN i
                     ELSE IF p = 0 /\ ~IsSegtor(o) THEN i + n ELSE 0
    [] IsDevector(o) -> CASE p = SizeOf(o) /\ Dv!BackFree(obj[o]) >= n -> i
                          [] p = 0 /\ Dv!FrontFree(obj[o]) >= n -> i + n
                          [] OTHER -> 0
    [] OTHER -> IF SizeOf(o) + n <= obj[o].cap /\ i <= p THEN i ELSE 0

\* The same after n elements are erased at p.
AfterErase(o, p, n, i) ==
  LET last == p + n = SizeOf(o)
  IN  CASE i \in p + 1 .. p + n -> 0
        [] IsStable(o) \/ IsNodes(o) -> IF i <= p THEN i ELSE i - n
        [] IsDeque(o) \/ IsDevector(o) -> IF last THEN i
                         ELSE IF p = 0 /\ ~IsSegtor(o) THEN i - n ELSE 0
        [] OTHER -> IF i <= p THEN i ELSE 0

-----------------------------------------------------------------------------
(* What each kind does on the calls all of them have *)

Inserting(m, o, p, vals) ==
  CASE IsStable(o) -> S!Insert(m, o, p, vals)
    [] IsDeque(o) -> D!Insert(m, o, p, vals)
    [] IsDevector(o) -> Dv!Insert(m, o, p, vals)
    [] IsList(o) -> L!InsertRange(m, o, p, vals)
    [] OTHER -> Insert(m, o, p, vals)

Emplacing(m, o, p, x) ==
  CASE IsStable(o) -> IF p = SizeOf(o) THEN S!PushBack(m, o, x) ELSE S!Insert(m, o, p, <<x>>)
    [] IsDeque(o) -> D!Emplace(m, o, p, x)
    [] IsDevector(o) -> IF p = 0 THEN Dv!EmplaceFront(m, o, x) ELSE Dv!Insert(m, o, p, <<x>>)
    [] IsString(o) -> IF p = SizeOf(o) THEN PushBackChar(m, o, x)
                      ELSE InsertChars(m, o, p, Outside(<<x>>))
    [] IsList(o) -> L!EmplaceNode(m, o, p, x)
    [] OTHER -> Emplace(m, o, p, x)

ErasingOne(m, o, p) ==
  CASE IsStable(o) -> S!Erase(m, o, p, 1)
    [] IsDeque(o) -> D!EraseOne(m, o, p)
    [] IsDevector(o) -> IF p = 0 THEN Dv!DropFront(m, o, 1) ELSE Dv!Erase(m, o, p, 1)
    [] IsString(o) -> EraseChars(m, o, p, 1)
    [] IsNodes(o) -> L!EraseRange(m, o, p, 1)
    [] OTHER -> Erase(m, o, p, 1)

Erasing(m, o, p, n) ==
  CASE IsStable(o) -> S!Erase(m, o, p, n)
    [] IsDeque(o) -> D!EraseRange(m, o, p, n)
    [] IsDevector(o) -> Dv!Erase(m, o, p, n)
    [] IsString(o) -> EraseChars(m, o, p, n)
    [] IsNodes(o) -> L!EraseRange(m, o, p, n)
    [] OTHER -> Erase(m, o, p, n)

Resizing(m, o, n, x) ==
  CASE IsStable(o) -> S!Resize(m, o, n, x)
    [] IsDeque(o) -> D!Resize(m, o, n, x)
    [] IsDevector(o) -> Dv!ResizeBack(m, o, n, x)
    [] IsString(o) -> ResizeChars(m, o, n, x)
    [] IsSlist(o) -> L!ResizeSlist(m, o, n, x)
    [] IsList(o) -> L!ResizeList(m, o, n, x)
    [] OTHER -> Resize(m, o, n, x)

Clearing(m, o) ==
  CASE IsStable(o) -> S!Clear(m, o)
    [] IsDeque(o) -> D!Clear(m, o)
    [] IsDevector(o) -> Dv!Clear(m, o)
    [] IsString(o) -> ClearChars(m, o)
    [] IsNodes(o) -> L!Clear(m, o)
    [] OTHER -> Clear(m, o)

Assigning(m, o, vals) ==
  CASE IsStable(o) -> S!Assign(m, o, vals)
    [] IsDeque(o) -> D!Assign(m, o, vals)
    [] IsDevector(o) -> Dv!Assign(m, o, vals)
    [] IsList(o) -> L!AssignList(m, o, vals)
    [] OTHER -> Assign(m, o, vals)

Reserving(m, o, n, side) ==
  CASE IsStable(o) -> S!Reserve(m, o, n)
    [] IsDeque(o) -> D!Reserve(m, o, n, side = "front")
    [] IsDevector(o) -> CASE side = "front" -> Dv!ReserveFront(m, o, n)
                          [] side = "back" -> Dv!ReserveBack(m, o, n)
                          [] OTHER -> Dv!Reserve(m, o, n)
    [] IsString(o) -> ReserveChars(m, o, n)
    [] OTHER -> Reserve(m, o, n)

Shrinking(m, o) ==
  CASE IsStable(o) -> S!ShrinkToFit(m, o)
    [] IsDeque(o) -> D!ShrinkToFit(m, o)
    [] IsDevector(o) -> Dv!ShrinkToFit(m, o)
    [] IsString(o) -> ShrinkChars(m, o)
    [] OTHER -> ShrinkToFit(m, o)

-----------------------------------------------------------------------------
(* The calls on one container *)

\* insert of a range, and of n copies.  An empty range in the middle of a deque
\* is one of the disagreements.
AtAnEnd(o, p) == p = SizeOf(o) \/ (p = 0 /\ ~IsSegtor(o))
InsertElements(o) ==
  /\ ~HasKeys(o) /\ ~IsString(o) /\ Whole(o)
  /\ \E p \in 0 .. SizeOf(o), vals \in bounds.ranges :
       /\ Room(Len(vals))
       /\ IsDeque(o) /\ vals = <<>> => AtAnEnd(o, p) \/ "empty_range" \in Disagreements
       /\ Call(o, LAMBDA m : Inserting(m, o, p, vals), Inserted(promised[o], p, vals),
               LAMBDA i : AfterInsert(o, p, Len(vals), i), Harmless(o, Len(vals)),
               MayThrow(o) /\ MayThrowOf(o, Len(vals)))

\* emplace, insert of one element, push_back and push_front
EmplaceElement(o) ==
  /\ ~HasKeys(o) /\ Whole(o) /\ Room(1)
  /\ \E p \in 0 .. SizeOf(o), x \in bounds.keys :
       Call(o, LAMBDA m : Emplacing(m, o, p, x), Inserted(promised[o], p, <<x>>),
            LAMBDA i : AfterInsert(o, p, 1, i), Harmless(o, 1),
            MayThrowAt(o, p) /\ MayThrowOf(o, 1))

\* erase of one element, pop_back and pop_front
EraseElement(o) ==
  /\ Whole(o)
  /\ \E p \in 0 .. SizeOf(o) - 1 :
       Call(o, LAMBDA m : ErasingOne(m, o, p), Erased(promised[o], p, 1),
            LAMBDA i : AfterErase(o, p, 1, i), {}, TRUE)

\* erase of a range
EraseElements(o) ==
  /\ Whole(o)
  /\ \E p \in 0 .. SizeOf(o) : \E n \in 0 .. SizeOf(o) - p :
       /\ (IsDeque(o) \/ IsDevector(o)) /\ n = 0 => AtAnEnd(o, p) \/ "empty_range" \in Disagreements
       /\ Call(o, LAMBDA m : Erasing(m, o, p, n), Erased(promised[o], p, n),
               LAMBDA i : AfterErase(o, p, n, i), {}, TRUE)

\* resize.  A slist that grows from some elements is one of the disagreements.
ResizeTo(o) ==
  /\ ~HasKeys(o) /\ Whole(o)
  /\ \E n \in 0 .. bounds.size, x \in bounds.keys :
       LET size  == SizeOf(o)
           grown == promised[o] \o Filled(Larger(0, n - size), x)
       IN  /\ Room(n - size)
           /\ IsSlist(o) => n < size \/ size = 0 \/ "slist_resize" \in Disagreements
           /\ Call(o, LAMBDA m : Resizing(m, o, n, x), Lead(grown, n),
                   LAMBDA i : IF n > size THEN AfterInsert(o, size, n - size, i)
                              ELSE AfterErase(o, n, size - n, i),
                   Harmless(o, n - size), MayThrow(o))

\* resize_front
ResizeFrontTo(o) ==
  /\ IsDevector(o) /\ Whole(o)
  /\ \E n \in 0 .. bounds.size, x \in bounds.keys :
       LET more  == Larger(0, n - SizeOf(o))
           less  == Larger(0, SizeOf(o) - n)
       IN  /\ Room(more)
           /\ Call(o, LAMBDA m : Dv!ResizeFront(m, o, n, x),
                   Filled(more, x) \o Rest(promised[o], less),
                   LAMBDA i : IF less > 0 THEN AfterErase(o, 0, less, i)
                              ELSE AfterInsert(o, 0, more, i), {"alloc"}, MayThrow(o))

\* clear
ClearAll(o) == Call(o, LAMBDA m : Clearing(m, o), <<>>, Gone, {}, TRUE)

\* assign
AssignRange(o) ==
  /\ ~HasKeys(o) /\ ~IsString(o)
  /\ \E vals \in bounds.ranges :
       /\ Room(Len(vals) - SizeOf(o))
       /\ Call(o, LAMBDA m : Assigning(m, o, vals), vals, Gone, {}, MayThrow(o))

\* A deque makes room for the elements its capacity lacks as if none of them
\* had any: the free room counts twice.
CountedTwice(o, n, front) ==
  LET free == IF front THEN D!FrontFree(obj[o]) ELSE D!BackFree(obj[o])
  IN  free > 0 /\ n > SizeOf(o) + free

\* The sides on which room is reserved: reserve, reserve_front, reserve_back
Sides(o) ==
  CASE IsDevector(o) -> {"any", "front", "back"}
    [] IsSegtor(o) -> {"back"}
    [] IsNodes(o) -> {}
    [] IsDeque(o) -> {"front", "back"}
    [] OTHER -> {"any"}

Available(o, side) ==
  CASE IsStable(o) -> Smaller(SizeOf(o) + Len(obj[o].pool), obj[o].cap - S!ExtraPointers)
    [] IsDeque(o) -> SizeOf(o) + (IF side = "front" THEN D!FrontFree(obj[o])
                                  ELSE D!BackFree(obj[o]))
    [] IsDevector(o) -> CASE side = "front" -> Dv!FrontCapacity(obj[o])
                          [] side = "back" -> Dv!BackCapacity(obj[o])
                          [] OTHER -> Dv!SharedCapacity(obj[o])
    [] IsString(o) -> obj[o].cap - 1
    [] OTHER -> obj[o].cap

\* The reserving functions.  References survive what moves no element.
ReserveRoom(o) ==
  /\ Whole(o)
  /\ \E n \in bounds.reserves, side \in Sides(o) :
       /\ IsDeque(o) => ~CountedTwice(o, n, side = "front") \/ "deque_reserve" \in Disagreements
       /\ \E w \in {Reserving(m, o, n, side) : m \in Worlds(o)} :
            /\ w.thrown = "element" => MayThrow(o)
            /\ Leaves(w, o, promised[o],
                      LAMBDA i : IF IsStable(o) \/ IsDeque(o) \/ n <= Available(o, side) THEN i
                                 ELSE 0, {"alloc"})
            /\ reserved' = IF ~Fine(w) \/ Kind(o) \in {"deque", "segtor"} THEN Nothing
                           ELSE [of |-> o, capacity |-> n, side |-> side]

\* shrink_to_fit
Shrink(o) ==
  /\ Whole(o) /\ Kind(o) # "string2" /\ ~IsNodes(o)
  /\ \E w \in {Shrinking(m, o) : m \in Worlds(o)} :
       /\ w.thrown = "element" => MayThrow(o)
       /\ Leaves(w, o, promised[o], LAMBDA i : IF IsStable(o) \/ IsDeque(o) THEN i ELSE 0, {"alloc"})
       /\ reserved' = Nothing

\* The destructor, and the default constructor of the next container.
DestroyObject(o) ==
  \E w \in {CASE IsStable(o) -> S!Destroyed(Now, o)
              [] IsDeque(o) -> D!Destroyed(Now, o)
              [] IsDevector(o) -> Dv!Destroyed(Now, o)
              [] IsString(o) -> DestroyedString(Now, o)
              [] IsNodes(o) -> L!Clear(Now, o)
              [] OTHER -> Destroyed(Now, o)} :
    /\ Leaves(w, o, <<>>, Gone, {})
    /\ reserved' = Nothing

\* A program takes a reference to an element.
TakeReference(o) ==
  /\ bounds.watching /\ ~IsFlat(o) /\ ~IsString(o) /\ Whole(o)
  /\ \E i \in 1 .. SizeOf(o) : watched' = [of |-> o, at |-> i, address |-> Address(o, i)]
  /\ UNCHANGED <<bounds, heap, obj, handle, ub, promised, reserved>>

-----------------------------------------------------------------------------
(* The calls of the strings that read a source: characters from elsewhere,  *)
(* or some of the string itself.                                            *)

Sources(o) ==
  {Outside(vals) : vals \in bounds.ranges}
  \cup {Within(Now, o, r[1], r[2]) :
           r \in {r \in (0 .. SizeOf(o)) \X (1 .. SizeOf(o)) : r[1] + r[2] <= SizeOf(o)}}

\* A string reads its own characters where they still are: before the place
\* where n are inserted, or when all are copied to a new buffer.  Other
\* sources within are one of the disagreements.
ReadUnmoved(o, s, p, n) ==
  LET room == SizeOf(o) + n < obj[o].cap
  IN  \/ s.at < 0 \/ "string_self" \in Disagreements
      \/ room /\ s.at + Len(s.chars) <= p
      \/ ~room /\ Kind(o) = "string"

\* insert of a range, of copies, and of a part of a string
InsertString(o) ==
  /\ IsString(o)
  /\ \E p \in 0 .. SizeOf(o), s \in Sources(o) :
       /\ Room(Len(s.chars)) /\ ReadUnmoved(o, s, p, Len(s.chars))
       /\ Call(o, LAMBDA m : InsertChars(m, o, p, s), Inserted(promised[o], p, s.chars),
               Gone, {"alloc"}, FALSE)

\* assign of a range of characters, of other iterators and of copies
AssignString(o) ==
  /\ IsString(o)
  /\ \E s \in Sources(o), pointers \in BOOLEAN :
       /\ Room(Len(s.chars) - SizeOf(o))
       /\ s.at < 0 \/ (pointers /\ (s.at >= Len(s.chars) \/ "string_self" \in Disagreements))
       /\ Call(o, LAMBDA m : IF pointers THEN AssignChars(m, o, s)
                            ELSE AssignIterators(m, o, s.chars), s.chars, Gone, IF pointers THEN {"alloc"} ELSE {}, FALSE)

\* replace
ReplaceString(o) ==
  /\ IsString(o)
  /\ \E p \in 0 .. SizeOf(o), s \in Sources(o) : \E len \in 1 .. SizeOf(o) - p :
       LET n     == Len(s.chars)
           apart == s.at >= p + len \/ s.at + n <= p
       IN  /\ Room(n - len)
           /\ s.at < 0 \/ "string_self" \in Disagreements
              \/ (apart /\ (n <= len \/ ReadUnmoved(o, s, p, n - len)))
           /\ Call(o, LAMBDA m : ReplaceChars(m, o, p, len, s),
                   Lead(promised[o], p) \o s.chars \o Rest(promised[o], p + len),
                   Gone, {}, FALSE)

-----------------------------------------------------------------------------
(* The calls of the flat containers; those that compare elements need them to *)
(* have values.                                                               *)

Comparable(o) == IsFlat(o) /\ Whole(o)

\* What a flat container holds after vals are inserted.
WithInserted(o, vals) ==
  LET s == promised[o]
  IN  IF Kind(o) = "flat_set"
      THEN SetToSortSeq(ToSet(s) \cup ToSet(vals), LAMBDA a, b : a < b)
      ELSE InOrder(s \o vals)

\* insert and emplace, without and with a hint
InsertKey(o) ==
  /\ Comparable(o) /\ Room(1)
  /\ \E x \in bounds.keys, hint \in 0 .. SizeOf(o), hinted \in BOOLEAN :
       Call(o, LAMBDA m :
                 CASE Kind(o) = "flat_set" /\ hinted -> InsertUniqueHint(m, o, hint, x)
                   [] Kind(o) = "flat_set" /\ ~hinted -> InsertUnique(m, o, x)
                   [] hinted -> InsertEqualHint(m, o, hint, x)
                   [] OTHER -> InsertEqual(m, o, x),
            WithInserted(o, <<x>>), Gone, {"alloc"}, TRUE)

\* insert of a range
InsertKeys(o) ==
  /\ Comparable(o)
  /\ \E vals \in bounds.ranges :
       /\ Room(Len(vals))
       /\ Call(o, LAMBDA m : IF Kind(o) = "flat_set" THEN InsertUniqueRange(m, o, vals)
                            ELSE InsertEqualRange(m, o, vals),
               WithInserted(o, vals), Gone, {"alloc"}, TRUE)

\* insert of an ordered range.  A throw leaves a flat_set out of order.
InsertOrderedKeys(o) ==
  /\ Comparable(o)
  /\ \E vals \in {v \in bounds.ranges : v = InOrder(v)} :
       LET unique == Kind(o) = "flat_set"
       IN  /\ Room(Len(vals))
           /\ unique => Cardinality(ToSet(vals)) = Len(vals)
           /\ \E w \in {IF unique THEN InsertOrderedUnique(m, o, vals)
                        ELSE InsertOrderedEqual(m, o, vals) : m \in Worlds(o)} :
                /\ Fine(w) \/ ~unique \/ "flat_throw" \in Disagreements
                /\ Leaves(w, o, WithInserted(o, vals), Gone,
                          IF unique THEN {} ELSE {"alloc"})
                /\ UNCHANGED reserved

\* erase of a key
EraseKeys(o) ==
  /\ Comparable(o)
  /\ \E x \in bounds.keys :
       Call(o, LAMBDA m : EraseKey(m, o, x), SelectSeq(promised[o], LAMBDA y : y # x),
            Gone, {}, TRUE)

-----------------------------------------------------------------------------
(* The calls on two containers *)

\* A reference to an element of either follows the buffers, or is lost.
Exchanged == IF watched.of = 0 THEN watched ELSE [watched EXCEPT !.of = Other(@)]

SwapObjects ==
  /\ Kind(1) = Kind(2) /\ Whole(1) /\ Whole(2)
  /\ \E w \in {CASE IsStable(1) -> S!Swap(m, 1, 2)
                  [] IsDeque(1) -> D!Swap(m, 1, 2)
                  [] IsDevector(1) -> Dv!Swap(m, 1, 2)
                  [] IsString(1) -> SwapStrings(m, 1, 2)
                  [] IsNodes(1) -> L!Swap(m, 1, 2)
                  [] OTHER -> Swap(m, 1, 2) : m \in Worlds(1)} :
       /\ Becomes(w)
       /\ promised' = [o \in Objects |-> IF Fine(w) THEN promised[Other(o)]
                                         ELSE ContentsOf(w, o)]
  /\ watched' = IF HasInternal(Kind(1)) THEN Nobody ELSE Exchanged
  /\ reserved' = Nothing

\* o = move(x): a container that owns no internal storage gets x's elements
\* where they are.
MoveAssignObject(o) ==
  /\ Kind(1) = Kind(2) /\ Whole(Other(o))
  /\ IsStable(1) => "stable_move" \in Disagreements
  /\ LET x == Other(o)
     IN  \E w \in {CASE IsStable(o) -> S!MoveAssign(m, o, x)
                     [] IsDeque(o) -> D!MoveAssign(m, o, x)
                     [] IsDevector(o) -> Dv!MoveAssign(m, o, x)
                     [] IsString(o) -> MoveAssignString(m, o, x)
                     [] IsNodes(o) -> L!MoveAssign(m, o, x)
                     [] OTHER -> MoveAssign(m, o, x) : m \in Worlds(o)} :
           /\ Becomes(w)
           /\ promised' = [y \in Objects |-> IF Fine(w) /\ y = o THEN promised[x]
                                             ELSE ContentsOf(w, y)]
           /\ watched' = IF watched.of = x /\ ~HasInternal(Kind(o)) THEN Exchanged ELSE Nobody
  /\ reserved' = Nothing

\* o.merge(x) of flat containers
MergeObject(o) ==
  LET x == Other(o)
  IN  /\ Comparable(o) /\ Comparable(x)
      /\ \/ Kind(o) = "flat_multiset" \/ Kind(x) = "flat_set"
         \/ "flat_duplicates" \in Disagreements
      /\ \E w \in {Merge(m, o, x) : m \in Worlds(o)} :
           /\ Fine(w) \/ Kind(o) = "flat_multiset" \/ "flat_throw" \in Disagreements
           /\ Becomes(w)
           /\ promised' = [promised EXCEPT
                ![o] = IF Fine(w) THEN WithInserted(o, promised[x]) ELSE ContentsOf(w, o),
                ![x] = ContentsOf(w, x)]
      /\ UNCHANGED <<watched, reserved>>

-----------------------------------------------------------------------------
(* The calls of lists and trees that link nodes anew *)

Everywhere == UNION {{o} \X (1 .. SizeOf(o)) : o \in Objects}
Erasure == <<0, 0>>

\* A call leaves w: the element e is now the one at Place(e), or was erased.
Relinks(w, Place(_)) ==
  LET place   == [e \in Everywhere |-> Place(e)]
      Into(o) == {e \in Everywhere : place[e][1] = o}
      At(o)   == [k \in 1 .. Cardinality(Into(o)) |->
                    LET e == CHOOSE e \in Into(o) : place[e][2] = k IN promised[e[1]][e[2]]]
      follows == place[<<watched.of, watched.at>>]
  IN  /\ Becomes(w)
      /\ promised' = [o \in Objects |-> IF Fine(w) THEN At(o) ELSE ContentsOf(w, o)]
      /\ watched' = IF watched.of = 0 THEN watched
                    ELSE IF ~Fine(w) \/ follows = Erasure THEN Nobody
                    ELSE [watched EXCEPT !.of = follows[1], !.at = follows[2]]
      /\ UNCHANGED reserved

\* The place among the elements of o that satisfy Keeps, of the one at i
Among(o, Keeps(_), i) ==
  IF Keeps(i) THEN <<o, Cardinality({j \in 1 .. i : Keeps(j)})>> ELSE Erasure

Only(o, e, place) == IF e[1] = o THEN place ELSE e

\* sort: equal elements keep their order.
SortList(o) ==
  LET s == promised[o]
      Rank(i) == Cardinality({j \in DOMAIN s : s[j] < s[i] \/ (s[j] = s[i] /\ j <= i)})
  IN  Relinks(L!Rearrange(Now, o, L!SortedPlaces(Elems(o))),
              LAMBDA e : Only(o, e, <<o, Rank(e[2])>>))

\* reverse
ReverseList(o) ==
  Relinks(L!Rearrange(Now, o, L!ReversedPlaces(Elems(o))),
          LAMBDA e : Only(o, e, <<o, SizeOf(o) + 1 - e[2]>>))

\* unique
UniqueList(o) ==
  Relinks(L!Rearrange(Now, o, L!UniquePlaces(Elems(o))),
          LAMBDA e : Only(o, e, Among(o, LAMBDA i : i = 1 \/ promised[o][i] # promised[o][i - 1],
                                         e[2])))

\* remove
RemoveFromList(o) ==
  \E x \in bounds.keys :
    Relinks(L!Rearrange(Now, o, L!RemainingPlaces(Elems(o), x)),
            LAMBDA e : Only(o, e, Among(o, LAMBDA i : promised[o][i] # x, e[2])))

\* splice
SpliceList(o) ==
  LET x == Other(o)
  IN  \E p \in 0 .. SizeOf(o), i \in 0 .. SizeOf(x) : \E n \in 0 .. SizeOf(x) - i :
        Relinks(L!Splice(Now, o, p, x, i, n),
                LAMBDA e : CASE e[1] = o -> <<o, IF e[2] <= p THEN e[2] ELSE e[2] + n>>
                             [] e[2] \in i + 1 .. i + n -> <<o, p + e[2] - i>>
                             [] OTHER -> <<x, IF e[2] <= i THEN e[2] ELSE e[2] - n>>)

\* merge of lists in order
MergeLists(o) ==
  LET a == promised[o]
      b == promised[Other(o)]
      Before(e) == IF e[1] = o THEN e[2] + Cardinality({j \in DOMAIN b : b[j] < a[e[2]]})
                   ELSE e[2] + Cardinality({j \in DOMAIN a : a[j] <= b[e[2]]})
  IN  /\ a = InOrder(a) /\ b = InOrder(b)
      /\ Relinks(L!Merge(Now, o, Other(o)), LAMBDA e : <<o, Before(e)>>)

RelinkList(o) ==
  /\ IsList(o)
  /\ \/ SortList(o) \/ ReverseList(o) \/ UniqueList(o) \/ RemoveFromList(o)
     \/ SpliceList(o) \/ MergeLists(o)

\* merge of trees: a map takes the first element of each key it lacks.
MergeTreeObject(o) ==
  LET x == Other(o)
      a == promised[o]
      b == promised[x]
      unique == Kind(o) = "map"
      goes == {j \in DOMAIN b : ~unique \/ ~(T!HasKey(a, b[j]) \/ T!HasKey(Lead(b, j - 1), b[j]))}
      Place(e) ==
        CASE e[1] = o -> <<o, e[2] + Cardinality({j \in goes : T!KeyOf(b[j]) < T!KeyOf(a[e[2]])})>>
          [] e[2] \in goes -> <<o, T!NotAbove(a, b[e[2]]) + Cardinality({j \in goes : j <= e[2]})>>
          [] OTHER -> <<x, e[2] - Cardinality({j \in goes : j < e[2]})>>
  IN  /\ IsTree(o) /\ IsTree(x)
      /\ \E w \in {T!MergeTrees(m, o, x) : m \in Worlds(o)} : Relinks(w, Place)

-----------------------------------------------------------------------------
(* The calls of trees *)

\* What a tree promises to hold when x is inserted, at place p if it has a new
\* element, and where the others are.
WithNode(o, p, x) ==
  IF Kind(o) = "map" /\ T!HasKey(promised[o], x) THEN promised[o]
  ELSE Inserted(promised[o], p, <<x>>)
PlaceWithNode(o, p, x, i) ==
  IF (Kind(o) = "map" /\ T!HasKey(promised[o], x)) \/ i <= p THEN i ELSE i + 1

\* The calls of a map that insert an element; where the key is, and where x goes
IntoMap(o, Op(_), after, x) ==
  Call(o, Op, after, LAMBDA i : PlaceWithNode(o, T!Below(promised[o], x), x, i), AnyFailure, TRUE)
WithUniqueNode(o, x) == WithNode(o, T!Below(promised[o], x), x)

\* insert, without and with a hint, and try_emplace
InsertUniqueKey(o) ==
  /\ Kind(o) = "map" /\ Room(1)
  /\ \E x \in bounds.keys :
       IntoMap(o, LAMBDA m : T!InsertUniqueNode(m, o, x), WithUniqueNode(o, x), x)

\* emplace
EmplaceUniqueKey(o) ==
  /\ Kind(o) = "map" /\ Room(1)
  /\ \E x \in bounds.keys :
       IntoMap(o, LAMBDA m : T!EmplaceUnique(m, o, x), WithUniqueNode(o, x), x)

\* insert_or_assign
InsertOrAssignKey(o) ==
  /\ Kind(o) = "map" /\ Room(1)
  /\ \E x \in bounds.keys :
       IntoMap(o, LAMBDA m : T!InsertOrAssign(m, o, x),
               IF T!HasKey(promised[o], x)
               THEN [promised[o] EXCEPT ![T!Below(promised[o], x) + 1] = x]
               ELSE WithUniqueNode(o, x), x)

\* emplace_hint in a map.  A comparison that throws is one of the disagreements.
EmplaceHintKey(o) ==
  /\ Kind(o) = "map" /\ Room(1)
  /\ \E x \in bounds.keys :
       LET p == T!Below(promised[o], x)
       IN  \E w \in {T!EmplaceHintUnique(m, o, x) : m \in Worlds(o)} :
             /\ w.thrown = "compare" => "node_throw" \in Disagreements
             /\ Leaves(w, o, WithNode(o, p, x), LAMBDA i : PlaceWithNode(o, p, x, i), AnyFailure)
             /\ UNCHANGED reserved

\* insert and emplace in a multimap, without (a hint at the end) and with a hint
InsertEqualKey(o) ==
  /\ IsTree(o) /\ Kind(o) # "map" /\ Room(1)
  /\ \E x \in bounds.keys, hint \in 0 .. SizeOf(o) :
       LET p == T!EqualPlace(promised[o], hint, x)
       IN  Call(o, LAMBDA m : T!InsertEqualNode(m, o, hint, x), WithNode(o, p, x),
                LAMBDA i : PlaceWithNode(o, p, x, i), AnyFailure, TRUE)

\* insert of a range
InsertNodeRange(o) ==
  /\ IsTree(o)
  /\ \E vals \in bounds.ranges :
       /\ Room(Len(vals))
       /\ Call(o, LAMBDA m : T!InsertNodes(m, o, vals),
               T!WithElements(Kind(o) = "map", promised[o], vals), Gone, {}, TRUE)

\* The destructor, and the constructor of the next tree from a range.
ConstructTree(o) ==
  /\ IsTree(o)
  /\ \E vals \in bounds.ranges :
       /\ Room(Len(vals) - SizeOf(o))
       /\ Call(o, LAMBDA m : T!Constructed(m, o, vals),
               T!WithElements(Kind(o) = "map", <<>>, vals), Gone, {}, MayThrow(o))

\* operator=(const tree&)
CopyAssignObject(o) ==
  /\ IsTree(o) /\ Kind(1) = Kind(2) /\ Room(SizeOf(Other(o)) - SizeOf(o))
  /\ Call(o, LAMBDA m : T!CopyAssignTree(m, o, Other(o)), promised[Other(o)], Gone, {}, TRUE)

\* erase of a key
EraseNodeKeys(o) ==
  /\ IsTree(o)
  /\ \E x \in bounds.keys :
       LET p == T!Below(promised[o], x)
           n == T!NotAbove(promised[o], x) - p
       IN  Call(o, LAMBDA m : T!EraseKey(m, o, x), Erased(promised[o], p, n),
                LAMBDA i : AfterErase(o, p, n, i), AnyFailure, TRUE)

\* extract, to the program's handle
ExtractNode(o) ==
  /\ IsTree(o)
  /\ \E p \in 0 .. SizeOf(o) - 1 :
       Call(o, LAMBDA m : L!Extract(m, o, p), Erased(promised[o], p, 1),
            LAMBDA i : AfterErase(o, p, 1, i), {}, TRUE)

\* insert of the handle.  A comparison that throws while a multimap searches is
\* one of the disagreements.
InsertHandle(o) ==
  /\ IsTree(o) /\ handle # L!None
  /\ \E hint \in (IF Kind(o) = "map" THEN {0} ELSE 0 .. SizeOf(o)) :
       LET unique == Kind(o) = "map"
           x == heap[handle][0]
           p == IF unique THEN T!Below(promised[o], x) ELSE T!EqualPlace(promised[o], hint, x)
       IN  \E w \in {IF unique THEN T!InsertUniqueHandle(m, o)
                     ELSE T!InsertEqualHandle(m, o, hint) : m \in Worlds(o)} :
             /\ w.thrown = "compare" /\ ~unique => "node_throw" \in Disagreements
             /\ Leaves(w, o, WithNode(o, p, x), LAMBDA i : PlaceWithNode(o, p, x, i), AnyFailure)
             /\ UNCHANGED reserved

\* The handle is destroyed.
DestroyHandle ==
  /\ handle # L!None
  /\ Becomes(L!DropHandle(Now))
  /\ UNCHANGED <<promised, watched, reserved>>

-----------------------------------------------------------------------------

Next ==
  \/ \E o \in {y \in bounds.called : Alone(y)} :
       \/ InsertElements(o) \/ EmplaceElement(o) \/ EraseElement(o) \/ EraseElements(o)
       \/ ResizeTo(o) \/ ResizeFrontTo(o) \/ ClearAll(o) \/ AssignRange(o) \/ ReserveRoom(o) \/ Shrink(o)
       \/ DestroyObject(o) \/ TakeReference(o)
       \/ InsertString(o) \/ AssignString(o) \/ ReplaceString(o)
       \/ InsertKey(o) \/ InsertKeys(o) \/ InsertOrderedKeys(o) \/ EraseKeys(o)
       \/ RelinkList(o) \/ InsertUniqueKey(o) \/ EmplaceUniqueKey(o) \/ InsertOrAssignKey(o)
       \/ EmplaceHintKey(o) \/ InsertEqualKey(o)
       \/ InsertNodeRange(o) \/ ConstructTree(o) \/ CopyAssignObject(o) \/ EraseNodeKeys(o)
       \/ ExtractNode(o) \/ InsertHandle(o)
       \/ MoveAssignObject(o) \/ MergeObject(o) \/ MergeTreeObject(o)
  \/ SwapObjects \/ DestroyHandle

Spec == Init /\ [][Next]_vars

OrderedBy(o, x) == IF IsTree(o) THEN T!KeyOf(x) ELSE x

-----------------------------------------------------------------------------
(* Properties *)

\* No element is built over another, assigned, moved or destroyed before it is
\* built or after it is destroyed, and the elements that live are those the
\* members of the container say: whatever is called, and wherever an element
\* or the allocator throws.
LifetimesSound ==
  /\ ~ub
  /\ \A o \in Objects : CASE IsStable(o) -> S!Sound(Now, o)
                          [] IsDeque(o) -> D!Sound(Now, o)
                          [] IsDevector(o) -> Dv!Sound(Now, o)
                          [] IsString(o) -> StringSound(Now, o)
                          [] IsNodes(o) -> L!Sound(Now, o)
                          [] OTHER -> Sound(Now, o)

\* Every block lent belongs to one of the containers or is the node of the
\* handle, and to one only: no rollback, swap or assignment loses a buffer, a map
\* or a node, or shares it.
NothingLeaked ==
  /\ {b \in DOMAIN heap : b > 0} = Owners(1) \cup Owners(2) \cup ({handle} \ {L!None})
  /\ Owners(1) \cap Owners(2) = {}

\* A container holds what its operations promise: the elements of a call that
\* returned, and those of before after an allocation failed in an operation
\* that has no effect then.
ContentsAsPromised == \A o \in Objects : Elems(o) = promised[o]

\* An element that no call was documented to move is where it was: references
\* outlive what is done to other elements, and follow a swap and a move.
ReferencesValid == watched.of # 0 => Address(watched.of, watched.at) = watched.address

\* Elements inserted up to a reserved capacity find the room and the nodes
\* they need, until the container is shrunk or replaced.
CapacityAsPromised ==
  reserved.of # 0 => Available(reserved.of, reserved.side) >= reserved.capacity

\* The elements of a flat container and of a tree are in order, and those of a
\* set or map without repetition, unless an exception has left one moved-from.
KeysOrdered ==
  \A o \in Objects :
    HasKeys(o) /\ Whole(o) => \A i \in 1 .. SizeOf(o) - 1 :
      LET x == OrderedBy(o, Elems(o)[i])
          y == OrderedBy(o, Elems(o)[i + 1])
      IN  x < y \/ (x = y /\ Kind(o) \notin {"flat_set", "map"})

\* Every node of a stable_vector, and its end node, points back to its own
\* place in the index, which iterators rely on (priv_invariant), and the chain of
\* spare nodes has room behind the index, as capacity() asserts.
StableLinked ==
  \A o \in Objects : IsStable(o) => S!Linked(Now, o) /\ S!PoolFits(Now, o)

=============================================================================
