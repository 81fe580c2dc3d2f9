-------------------------- MODULE AdaptiveNodePool --------------------------
(***************************************************************************)
(* private_adaptive_node_pool_impl_common, the pool behind adaptive_pool   *)
(* (include/boost/container/detail/adaptive_node_pool_impl.hpp), with the  *)
(* flags adaptive_pool uses: each block keeps its own free nodes, and the  *)
(* blocks with free nodes are in a multiset ordered by their number and    *)
(* then by address.  Nodes are taken from the first, fullest, block, and   *)
(* wholly free blocks beyond a maximum go back to the segment manager.     *)
(*                                                                         *)
(* A block is its address.  shared_adaptive_node_pool runs each operation  *)
(* under its mutex, so an operation is one step.  The segment manager is   *)
(* external: it lends a block that is not lent, or throws.                 *)
(***************************************************************************)
EXTENDS Naturals, SequencesExt

CONSTANTS
  BlockIds,         \* the addresses of the blocks the manager can lend
  RealNumNode,      \* nodes in a block
  MaxFreeBlocks,    \* MaxFreeBlocks, the template argument
  Batches           \* the n callers ask allocate_nodes for

ASSUME AdaptivePoolAssumption ==
  /\ BlockIds \subseteq Nat
  /\ RealNumNode \in Nat \ {0}
  /\ MaxFreeBlocks \in Nat
  /\ Batches \subseteq Nat \ {0}

VARIABLES
  alive,
  container,     \* m_block_container, in its order
  freeNodes,     \* block_info_t::free_nodes, by lent block
  totallyFree,   \* m_totally_free_blocks
  held           \* the nodes callers hold

vars == <<alive, container, freeNodes, totallyFree, held>>

NoBlocks == [b \in {} |-> <<>>]

Node(b, k) == [block |-> b, index |-> k]

\* The pool's members as one record, for the functions below.
Pool == [container |-> container, free |-> freeNodes, total |-> totallyFree]

Becomes(s) == container' = s.container /\ freeNodes' = s.free /\ totallyFree' = s.total

Init ==
  /\ alive = FALSE
  /\ container = <<>> /\ freeNodes = NoBlocks /\ totallyFree = 0
  /\ held = {}

Construct ==
  /\ ~alive /\ alive' = TRUE
  /\ UNCHANGED <<container, freeNodes, totallyFree, held>>

-----------------------------------------------------------------------------
(* The multiset of blocks *)

Count(s, b) == Len(s.free[b])

\* less_func: by the number of free nodes, then by address
Before(s, a, b) == Count(s, a) < Count(s, b) \/ (Count(s, a) = Count(s, b) /\ a < b)

\* multiset::insert: in front of the first block that is greater
Insert(s, b) ==
  LET i == SelectInSeq(s.container, LAMBDA x : Before(s, b, x))
  IN  [s EXCEPT !.container = IF i = 0 THEN Append(@, b) ELSE InsertAt(@, i, b)]

Swapped(seq, i) == [seq EXCEPT ![i] = seq[i + 1], ![i + 1] = seq[i]]

\* Faulty form: one swap, however far the block has to move.
ReinsertBySwap(s, b) ==
  LET i == SelectInSeq(s.container, LAMBDA x : x = b)
  IN  IF i < Len(s.container) /\ Before(s, s.container[i + 1], b)
      THEN [s EXCEPT !.container = Swapped(@, i)] ELSE s

\* reinsert_was_used: a swap when the block passes its neighbour only.
ReinsertWasUsed(s, b) ==
  LET i == SelectInSeq(s.container, LAMBDA x : x = b)
      passes(k) == k <= Len(s.container) /\ Before(s, s.container[k], b)
  IN  IF ~passes(i + 1) THEN s
      ELSE IF ~passes(i + 2) THEN [s EXCEPT !.container = Swapped(@, i)]
      ELSE Insert([s EXCEPT !.container = RemoveAt(@, i)], b)

\* priv_reinsert_block
Reinsert(s, b, wasEmpty) ==
  LET t == [s EXCEPT !.total = @ + (IF Count(s, b) = RealNumNode THEN 1 ELSE 0)]
  IN  IF wasEmpty THEN Insert(t, b) ELSE ReinsertWasUsed(t, b)

-----------------------------------------------------------------------------
(* Allocation *)

\* One turn of priv_allocate_nodes' loop: what block b, the first, can give.
TakeFrom(s, b, n) ==
  LET left == n - Len(s.chain)
      k    == IF left < Count(s, b) THEN left ELSE Count(s, b)
  IN  IF left = 0 THEN s
      ELSE [chain     |-> s.chain \o SubSeq(s.free[b], 1, k),
            free      |-> [s.free EXCEPT ![b] = SubSeq(@, k + 1, Len(@))],
            container |-> IF k = Count(s, b) THEN Tail(s.container) ELSE s.container,
            total     |-> s.total - (IF Count(s, b) = RealNumNode THEN 1 ELSE 0)]

TakenFromBlocks(n) ==
  FoldLeft(LAMBDA s, b : TakeFrom(s, b, n),
           [container |-> container, free |-> freeNodes, total |-> totallyFree, chain |-> <<>>],
           container)

BlocksNeeded(s, n) ==
  IF Len(s.chain) < n THEN (n - Len(s.chain) - 1) \div RealNumNode + 1 ELSE 0

\* priv_append_from_new_blocks, one turn: the chain first, then the block's
\* free list.
WithBlock(s, b, n) ==
  LET left  == n - Len(s.chain)
      k     == IF RealNumNode < left THEN RealNumNode ELSE left
      rest  == [j \in 1 .. RealNumNode - k |-> Node(b, k + j - 1)]
      lent  == DOMAIN s.free \cup {b}
  IN  [chain     |-> s.chain \o [j \in 1 .. k |-> Node(b, j - 1)],
       free      |-> [x \in lent |-> IF x = b THEN rest ELSE s.free[x]],
       container |-> IF rest = <<>> THEN s.container ELSE <<b>> \o s.container,
       total     |-> s.total + (IF Len(rest) = RealNumNode THEN 1 ELSE 0)]

WithBlocks(s, seq, n) == FoldLeft(LAMBDA t, b : WithBlock(t, b, n), s, seq)

\* The blocks the manager may lend one after another.
LentNext(k) ==
  {q \in [1 .. k -> BlockIds \ DOMAIN freeNodes] : \A i, j \in 1 .. k : q[i] = q[j] => i = j}

\* allocate_nodes; allocate_node does the same as allocate_nodes of one.
AllocateNodes(n) ==
  /\ alive
  /\ LET s == TakenFromBlocks(n) IN
     \E seq \in LentNext(BlocksNeeded(s, n)) :
       LET t == WithBlocks(s, seq, n) IN
       /\ Becomes(t)
       /\ held' = held \cup ToSet(t.chain)
  /\ UNCHANGED alive

-----------------------------------------------------------------------------
(* Deallocation *)

\* A run of nodes of one block joins the block's free nodes.
GiveRun(s, run) ==
  LET b == run[1].block
  IN  Reinsert([s EXCEPT !.free[b] = @ \o run], b, s.free[b] = <<>>)

\* Faulty form: the last run is not reinserted.
FlushNothing(s) == s.pool

Flush(s) == IF s.run = <<>> THEN s.pool ELSE GiveRun(s.pool, s.run)

\* priv_deallocate_nodes' loop: a node of another block ends the run.
GiveNode(s, node) ==
  IF s.run # <<>> /\ s.run[1].block # node.block
  THEN [pool |-> Flush(s), run |-> <<node>>]
  ELSE [s EXCEPT !.run = Append(@, node)]

\* Faulty form: one wholly free block more is kept.
LimitedOneMore(s, max) ==
  LET n == IF s.total > max + 1 THEN s.total - max - 1 ELSE 0
      gone == {s.container[i] : i \in Len(s.container) - n + 1 .. Len(s.container)}
  IN  [container |-> SubSeq(s.container, 1, Len(s.container) - n),
       free      |-> [b \in DOMAIN s.free \ gone |-> s.free[b]],
       total     |-> s.total - n]

\* priv_deallocate_free_blocks: the last blocks of the multiset go back.
Limited(s, max) ==
  LET n    == IF s.total > max THEN s.total - max ELSE 0
      gone == {s.container[i] : i \in Len(s.container) - n + 1 .. Len(s.container)}
  IN  [container |-> SubSeq(s.container, 1, Len(s.container) - n),
       free      |-> [b \in DOMAIN s.free \ gone |-> s.free[b]],
       total     |-> s.total - n]

\* priv_deallocate_nodes
Deallocated(s, chain) ==
  Limited(Flush(FoldLeft(GiveNode, [pool |-> s, run |-> <<>>], chain)), MaxFreeBlocks)

\* deallocate_nodes; deallocate_node does the same as a chain of one.
DeallocateNodes(chain) ==
  /\ alive
  /\ Becomes(Deallocated(Pool, chain))
  /\ held' = held \ ToSet(chain)
  /\ UNCHANGED alive

Chains ==
  {c \in UNION {[1 .. n -> held] : n \in Batches} : \A i, j \in DOMAIN c : c[i] = c[j] => i = j}

\* The catch clause of priv_allocate_nodes: the nodes gathered so far are
\* deallocated.
RolledBack(s) ==
  IF s.chain = <<>> THEN [container |-> s.container, free |-> s.free, total |-> s.total]
  ELSE Deallocated([container |-> s.container, free |-> s.free, total |-> s.total], s.chain)

\* The segment manager throws at some block of the batch.
AllocateThrows(n) ==
  /\ alive
  /\ LET s == TakenFromBlocks(n) IN
     \E k \in 0 .. BlocksNeeded(s, n) - 1 : \E seq \in LentNext(k) :
       Becomes(RolledBack(WithBlocks(s, seq, n)))
  /\ UNCHANGED <<alive, held>>

\* deallocate_free_blocks
DeallocateFreeBlocks ==
  /\ alive
  /\ Becomes(Limited(Pool, 0))
  /\ UNCHANGED <<alive, held>>

\* priv_clear, by the destructor: every node has come back.
Destroy ==
  /\ alive /\ held = {}
  /\ alive' = FALSE
  /\ Becomes([container |-> <<>>, total |-> 0,
              free |-> [b \in DOMAIN freeNodes \ ToSet(container) |-> freeNodes[b]]])
  /\ UNCHANGED held

-----------------------------------------------------------------------------
Next ==
  \/ Construct
  \/ \E n \in Batches : AllocateNodes(n) \/ AllocateThrows(n)
  \/ \E c \in Chains : DeallocateNodes(c)
  \/ DeallocateFreeBlocks
  \/ Destroy

Spec == Init /\ [][Next]_vars

-----------------------------------------------------------------------------
(* Properties *)

Lent == DOMAIN freeNodes

\* priv_invariants: the blocks are in order, each has a free node, and
\* m_totally_free_blocks counts those that are wholly free.
BlocksOrdered ==
  /\ \A i \in 1 .. Len(container) - 1 : Before(Pool, container[i], container[i + 1])
  /\ \A i \in DOMAIN container : Count(Pool, container[i]) \in 1 .. RealNumNode
  /\ totallyFree = Cardinality({b \in Lent : Count(Pool, b) = RealNumNode})

\* Each node of a lent block is once in its block's free list or held by one
\* caller, also after a batch that threw half-way.
NodesConserved ==
  /\ \A b \in Lent :
       /\ ToSet(freeNodes[b]) \cup {x \in held : x.block = b} = {Node(b, k) : k \in 0 .. RealNumNode - 1}
       /\ ToSet(freeNodes[b]) \cap held = {}
       /\ Cardinality(ToSet(freeNodes[b])) = Len(freeNodes[b])
  /\ \A x \in held : x.block \in Lent

\* A block with a free node is in the multiset, once: no block's nodes are
\* forgotten, and after destruction the segment manager has everything back.
BlocksReachable ==
  /\ ToSet(container) = {b \in Lent : freeNodes[b] # <<>>}
  /\ Cardinality(ToSet(container)) = Len(container)
  /\ ~alive => Lent = {}

\* priv_invariants, and what it leaves out: between two operations the blocks
\* are in order and counted, none is forgotten and no node is lost or doubled.
PoolInvariants == BlocksOrdered /\ NodesConserved /\ BlocksReachable

\* "check if we've reached the free nodes limit": wholly free blocks never
\* number more than MaxFreeBlocks between two operations.
FreeBlocksLimited == totallyFree <= MaxFreeBlocks

\* What callers hold nodes of.
Nodes == [block : BlockIds, index : 0 .. RealNumNode - 1]

\* The pool is a NodeSource.
FreeCount == FoldFunctionOnSet(LAMBDA list, n : Len(list) + n, 0, freeNodes, Lent)
Source == INSTANCE NodeSource WITH count <- RealNumNode * Cardinality(Lent) - FreeCount
ImplementsNodeSource == Source!Spec
=============================================================================
