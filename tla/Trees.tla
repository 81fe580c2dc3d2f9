-------------------------------- MODULE Trees --------------------------------
(***************************************************************************)
(* detail/tree.hpp: set, multiset, map and multimap on a search tree of    *)
(* nodes, seen as the sequence of its nodes in order.                      *)
(*                                                                         *)
(* An element stands for a key and a mapped value: two of them share a key *)
(* (KeyOf).  A set is a map of one element for each key.  A map has unique *)
(* keys, the other kinds do not.                                           *)
(* Comparisons may throw (w.movesThrow): the first of a search does.       *)
(***************************************************************************)
EXTENDS NodeHolder

LOCAL INSTANCE SequencesExt

KeyOf(x) == (x + 1) \div 2

Unique(w, o) == w.obj[o].kind = "map"

\* How many elements of s have a key below that of x, and not above it.
Below(s, x)    == Cardinality({i \in DOMAIN s : KeyOf(s[i]) < KeyOf(x)})
NotAbove(s, x) == Cardinality({i \in DOMAIN s : KeyOf(s[i]) <= KeyOf(x)})
HasKey(s, x)   == Below(s, x) < NotAbove(s, x)

\* Where an equal insertion with a hint links x: before the hint if it may be
\* there, and else as near to it as it may.
EqualPlace(s, hint, x) ==
  CASE hint < Below(s, x) -> Below(s, x)
    [] hint > NotAbove(s, x) -> NotAbove(s, x)
    [] OTHER -> hint

\* The elements s, and those of vals that insertion adds.
WithElement(unique, s, x) ==
  IF unique /\ HasKey(s, x) THEN s
  ELSE Lead(s, NotAbove(s, x)) \o <<x>> \o Rest(s, NotAbove(s, x))
WithElements(unique, s, vals) == FoldLeft(LAMBDA r, x : WithElement(unique, r, x), s, vals)

\* A search in a tree that is not empty compares.
Compared(w, o) ==
  IF ~Fine(w) \/ ~w.movesThrow \/ w.obj[o].nodes = <<>> THEN w
  ELSE IF Fails(w, 1) THEN Threw(w, "compare") ELSE Spent(w, 1)

-----------------------------------------------------------------------------
(* Insertion of one element *)

\* insert_unique_commit: create_node, and the tree's insert_unique_commit
Commit(w, o, x) ==
  LET b == Fresh(w)
  IN  Then(CreateNode(w, x),
           LAMBDA m : Link(m, o, Below(Contents(w, o), x), <<b>>))

\* insert_unique_convertible and insert_unique_hint_convertible; try_emplace
InsertUniqueNode(w, o, x) ==
  Then(Compared(w, o), LAMBDA m : IF HasKey(Contents(w, o), x) THEN m ELSE Commit(m, o, x))

\* insert_or_assign: the mapped value of an element with the key is assigned.
InsertOrAssign(w, o, x) ==
  LET s == Contents(w, o)
      Assigned(m) == CopyAssign(m, <<x>>, w.obj[o].nodes[Below(s, x) + 1], 0)
  IN  Then(Compared(w, o), LAMBDA m : IF HasKey(s, x) THEN Assigned(m) ELSE Commit(m, o, x))

\* emplace_unique: the node is created first, and destroyed if its key is there
\* already or the search throws.
EmplaceUnique(w, o, x) ==
  LET b == Fresh(w)
      s == Contents(w, o)
      Placed(m) == IF HasKey(s, x) THEN DestroyNode(m, b) ELSE Link(m, o, Below(s, x), <<b>>)
  IN  Then(CreateNode(w, x),
           LAMBDA built : Outcome(Compared(built, o), Placed, LAMBDA m : DestroyNode(m, b)))

\* emplace_hint_unique: nobody owns the node while the search compares.
EmplaceHintUnique(w, o, x) ==
  LET b == Fresh(w)
      s == Contents(w, o)
      Placed(m) == IF HasKey(s, x) THEN DestroyNode(m, b) ELSE Link(m, o, Below(s, x), <<b>>)
  IN  Then(CreateNode(w, x), LAMBDA built : Then(Compared(built, o), Placed))

\* emplace_equal, emplace_hint_equal, insert_equal_convertible, ...: the node is
\* created first, and destroyed if the search throws.
InsertEqualNode(w, o, hint, x) ==
  LET b == Fresh(w)
      p == EqualPlace(Contents(w, o), hint, x)
  IN  Then(CreateNode(w, x),
           LAMBDA built : Outcome(Compared(built, o), LAMBDA m : Link(m, o, p, <<b>>),
                                  LAMBDA m : DestroyNode(m, b)))

InsertNode(w, o, x) ==
  IF Unique(w, o) THEN InsertUniqueNode(w, o, x) ELSE InsertEqualNode(w, o, Size(w, o), x)

-----------------------------------------------------------------------------
(* Ranges, construction and copies *)

\* insert_unique_range and insert_equal_range
InsertNodes(w, o, vals) ==
  FoldLeft(LAMBDA m, x : Then(m, LAMBDA v : InsertNode(v, o, x)), w, vals)

\* tree_construct after the destructor of the last tree: one element after the
\* other at the end, or all nodes at once in version 2.  The holder clears on a
\* throw.
Constructed(w, o, vals) ==
  LET Fill(m) == IF Version2(m.obj[o].kind)
                 THEN AllocateManyAndConstruct(m, o, 0, WithElements(FALSE, <<>>, vals))
                 ELSE InsertNodes(m, o, vals)
  IN  Outcome(Fill(Clear(w, o)), LAMBDA m : m, LAMBDA m : Clear(m, o))

\* RecyclingCloner: the nodes of o are assigned before new ones are created, and
\* those not used are destroyed.
Recycled(w, o, x) ==
  LET vals   == Contents(w, x)
      common == Smaller(Len(vals), Size(w, o))
      over   == FoldLeft(LAMBDA m, i : CopyAssign(m, <<vals[i]>>, w.obj[o].nodes[i], 0),
                         w, [i \in 1 .. common |-> i])
  IN  Then(InsertEach(over, o, common, Rest(vals, common)),
           LAMBDA m : EraseRange(m, o, Len(vals), Size(m, o) - Len(vals)))

\* operator=(const tree&).  A throw leaves o empty: the cloner destroys the nodes
\* to be recycled, and clone_from the rest.
CopyAssignTree(w, o, x) ==
  Outcome(Recycled(w, o, x), LAMBDA m : m, LAMBDA m : Clear(m, o))

-----------------------------------------------------------------------------
(* Erasure, the handle and merge *)

\* erase of a key
EraseKey(w, o, x) ==
  LET s == Contents(w, o)
  IN  Then(Compared(w, o),
           LAMBDA m : EraseRange(m, o, Below(s, x), NotAbove(s, x) - Below(s, x)))

\* insert_unique_node: the handle keeps the node if its key is there already.
InsertUniqueHandle(w, o) ==
  LET s == Contents(w, o)
      x == Cell(w, w.handle)
      Placed(m) == [Link(m, o, Below(s, x), <<w.handle>>) EXCEPT !.handle = None]
  IN  IF w.handle = None THEN w
      ELSE Then(Compared(w, o), LAMBDA m : IF HasKey(s, x) THEN m ELSE Placed(m))

\* insert_equal_node: the handle releases the node before the search compares.
InsertEqualHandle(w, o, hint) ==
  LET x == Cell(w, w.handle)
      p == EqualPlace(Contents(w, o), hint, x)
  IN  IF w.handle = None THEN w
      ELSE Then(Compared([w EXCEPT !.handle = None], o),
                LAMBDA m : Link(m, o, p, <<w.handle>>))

\* merge_unique and merge_equal move the nodes of x one by one, those with a key
\* that is in a map o excepted.  A comparison that throws leaves the rest in x.
MergeOne(w, o, x, b) ==
  LET s  == Contents(w, o)
      at == CHOOSE i \in 1 .. Size(w, x) : w.obj[x].nodes[i] = b
  IN  IF Unique(w, o) /\ HasKey(s, Cell(w, b)) THEN w
      ELSE Link(Unlink(w, x, at - 1, 1), o, NotAbove(s, Cell(w, b)), <<b>>)

MergeTrees(w, o, x) ==
  FoldLeft(LAMBDA m, b : Then(Compared(m, o), LAMBDA v : MergeOne(v, o, x, b)),
           w, w.obj[x].nodes)

=============================================================================
