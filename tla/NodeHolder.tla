----------------------------- MODULE NodeHolder -----------------------------
(***************************************************************************)
(* detail/node_alloc_holder.hpp and node_handle.hpp: the nodes of list,    *)
(* slist, set, map and their multi forms.  Every element has a node of its *)
(* own, a block of one cell, linked in an intrusive container.             *)
(*                                                                         *)
(* An object has the members                                               *)
(*   kind    its kind; those that end in 2 have an allocator of version 2, *)
(*           which lends the nodes of a range all at once                  *)
(*   nodes   the nodes that are linked, in the order of the elements       *)
(* The node handle of the program is w.handle: a node, or None.            *)
(*                                                                         *)
(* The intrusive containers of Boost.Intrusive link and unlink nodes and   *)
(* never throw, but through the comparisons of a tree.                     *)
(***************************************************************************)
EXTENDS Elements

LOCAL INSTANCE SequencesExt

None == 0

EmptyNodes(kind) == [kind |-> kind, nodes |-> <<>>]

Version2(kind) == kind \in {"list2", "slist2", "multimap2"}

Size(w, o) == Len(w.obj[o].nodes)
Cell(w, b) == w.heap[b][0]
Contents(w, o) == [i \in 1 .. Size(w, o) |-> Cell(w, w.obj[o].nodes[i])]

WithNodes(w, o, nodes) == [w EXCEPT !.obj[o].nodes = nodes]

\* The intrusive container's insert and erase of the n nodes after p
Link(w, o, p, new) ==
  LET old == w.obj[o].nodes IN WithNodes(w, o, Lead(old, p) \o new \o Rest(old, p))
Unlink(w, o, p, n) ==
  LET old == w.obj[o].nodes IN WithNodes(w, o, Lead(old, p) \o Rest(old, p + n))
NodesAt(w, o, p, n) == SubSeq(w.obj[o].nodes, p + 1, p + n)

-----------------------------------------------------------------------------
(* One node *)

\* create_node and create_node_from_it build in the node Fresh(w), which a
\* scoped deallocator gives back if the constructor throws.
CreateNode(w, x) ==
  LET b == Fresh(w)
  IN  Then(Allocate(w, 1),
           LAMBDA lent : DeallocatedOnThrow(lent, LAMBDA m : UninitializedCopy(m, <<x>>, b, 0), b))

\* destroy_node, the disposer Destroyer, scoped_node_destroy_deallocator and
\* the handle's destroy_deallocate_node
DestroyNode(w, b) == Deallocate(Destroy(w, b, 0, 1), b)

DestroyNodes(w, nodes) == FoldLeft(DestroyNode, w, nodes)

-----------------------------------------------------------------------------
(* Many nodes *)

\* The ranges of allocators of version 1: a node is created and linked for one
\* element after the other.
InsertEach(w, o, p, vals) ==
  FoldLeft(LAMBDA m, i : Then(CreateNode(m, vals[i]),
                              LAMBDA built : Link(built, o, p + i - 1, <<Fresh(m)>>)),
           w, [i \in 1 .. Len(vals) |-> i])

\* allocate_many_and_construct: the nodes are lent at once, built and linked one
\* by one.  If a constructor throws, those not reached are given back, but not
\* the node it throws in: the deallocator that should do so has no node.  (The
\* comparisons of a tree's inserter, which throw with the same effect, do not
\* throw here.)
AllocateManyAndConstruct(w, o, p, vals) ==
  LET n     == Len(vals)
      new   == FreshBlocks(w, n)
      Built(m, k) ==
        Link(FoldLeft(LAMBDA v, i : Write(v, new[i], 0, <<vals[i]>>), m, [i \in 1 .. k |-> i]),
             o, p, Lead(new, k))
      Construct(m) ==
        IF Fails(m, n)
        THEN FoldLeft(Deallocate, Threw(Built(m, m.fuse - 1), "element"), Rest(new, m.fuse))
        ELSE Built(Spent(m, n), n)
  IN  IF n = 0 THEN w ELSE Then(AllocateMany(w, n, 1), Construct)

\* clear and erase_range: the nodes of version 2 are given back in a chain.
EraseRange(w, o, p, n) == DestroyNodes(Unlink(w, o, p, n), NodesAt(w, o, p, n))
Clear(w, o) == EraseRange(w, o, 0, Size(w, o))

-----------------------------------------------------------------------------
(* Two holders, and the handle *)

Swap(w, o, x) == WithNodes(WithNodes(w, o, w.obj[x].nodes), x, w.obj[o].nodes)

\* priv_move_assign when resources can be stolen
MoveAssign(w, o, x) == Swap(Clear(w, o), o, x)

\* The handle's destructor and its assignment destroy the node it has.
DropHandle(w) ==
  IF w.handle = None THEN w ELSE [DestroyNode(w, w.handle) EXCEPT !.handle = None]

\* extract, assigned to the program's handle
Extract(w, o, p) ==
  [DropHandle(Unlink(w, o, p, 1)) EXCEPT !.handle = w.obj[o].nodes[p + 1]]

OwnedBlocks(w, o) == ToSet(w.obj[o].nodes)

\* Every linked node, and the handle's, holds an element, and is linked once.
Sound(w, o) ==
  /\ \A b \in OwnedBlocks(w, o) \cup ({w.handle} \ {None}) :
       b \in DOMAIN w.heap /\ Cell(w, b) # Raw
  /\ Cardinality(OwnedBlocks(w, o)) = Size(w, o)
  /\ w.handle \notin OwnedBlocks(w, o)

=============================================================================
