------------------------------ MODULE NodePool ------------------------------
(***************************************************************************)
(* private_node_pool_impl, the single segregated storage behind            *)
(* node_allocator (include/boost/container/detail/node_pool_impl.hpp):     *)
(* blocks of equal nodes, a list of blocks and a list of free nodes.       *)
(* shared_node_pool runs each of these operations under its mutex, so an   *)
(* operation is one step.                                                  *)
(*                                                                         *)
(* The log2 of the alignment is packed into spare bits of three words, two *)
(* of their high ends and one low end.  The segment manager is external:   *)
(* it lends a block that is not lent, or throws.  Intrusive's slist is      *)
(* external too: it counts what it is told it gains and loses, and empty() *)
(* asks its links, not the count.                                          *)
(***************************************************************************)
EXTENDS SizeT, SequencesExt

CONSTANTS
  BlockIds,       \* blocks the segment manager can lend
  SegmentBits,    \* list_node_align_bits, log2 of the alignment of list_node_t
  ListNodeSize,   \* sizeof(list_node_t)
  Layouts,        \* the pools made: [size, align, perBlock]
  Batches         \* the n callers ask allocate_nodes for

ASSUME NodePoolAssumption ==
  /\ SegmentBits \in Nat \ {0} /\ 3 * SegmentBits <= Width
  /\ ListNodeSize \in Nat \ {0}
  /\ \A l \in Layouts :
       /\ l.size \in Nat \ {0} /\ l.perBlock \in 1 .. 2 ^ (Width - SegmentBits) - 1
       /\ l.align \in Pow2s
  /\ Batches \subseteq Nat \ {0}

\* Counts fit beside a segment (the assertions of set_high1 and set_high2):
\* a node has more than the 2 ^ SegmentBits bytes of an aligned list_node_t.
ASSUME CountsFit ==
  /\ IsFiniteSet(BlockIds)
  /\ \A l \in Layouts : Cardinality(BlockIds) * l.perBlock < 2 ^ (Width - SegmentBits)

VARIABLES
  layout,     \* the parameters the pool was constructed with, or NoLayout
  nodeSizeWord, perBlockWord, allocatedWord,
              \* m_real_node_size, m_nodes_per_block, m_allocated, packed
  blocks,     \* m_blocklist
  free,       \* m_freelist, as it is linked: [block, index]
  freeSize,   \* m_freelist.size()
  pastEnd,    \* allocate_nodes has followed the list's last link, which is null
  lent,       \* the segment manager's record: [bytes, align] by live block
  held        \* the nodes callers hold

vars == <<layout, nodeSizeWord, perBlockWord, allocatedWord, blocks, free, freeSize, pastEnd, lent, held>>

NoLayout == [size |-> 0, align |-> 0, perBlock |-> 0]
NothingLent == [b \in {} |-> 0]

-----------------------------------------------------------------------------
(* packed_3n_bits_ref *)

Segment == 2 ^ SegmentBits
Top     == 2 ^ (Width - SegmentBits)

\* set_low_unpacked and set_segment0: the value above, the segment below;
\* set_high1_unpacked and set_segment1: the segment above, the value below.
PackLow(value, segment)  == value + segment

PackHigh(value, segment) == segment * Top + value

\* load()
Load(low, high1, high2) ==
  (low % Segment) + (high1 \div Top) * Segment + (high2 \div Top) * Segment * Segment

RealNodeSize  == nodeSizeWord - (nodeSizeWord % Segment)
NodesPerBlock == perBlockWord % Top
Allocated     == allocatedWord % Top

\* Faulty form: the count is stored over the segment.
SetAllocatedOverAll(n) == allocatedWord' = n

SetAllocated(n) == allocatedWord' = PackHigh(n, allocatedWord \div Top)

-----------------------------------------------------------------------------
Init ==
  /\ layout = NoLayout
  /\ nodeSizeWord = 0 /\ perBlockWord = 0 /\ allocatedWord = 0
  /\ blocks = <<>> /\ free = <<>> /\ freeSize = 0
  /\ lent = NothingLent
  /\ held = {}
  /\ pastEnd = FALSE

RoundedSize(size, to) == ((size - 1) \div to + 1) * to

\* The constructor's adjustments of node_size.
FixedSize(l) ==
  LET size == RoundedSize(Larger(l.size, ListNodeSize), Segment)
  IN  IF l.align > Segment THEN RoundedSize(size, l.align) ELSE size

AlignedShift(l) == CeilLog2(Larger(l.align, Segment) \div Segment)

\* "Unsupported alignment": three segments must hold the shift.
ASSUME AlignmentsSupported == \A l \in Layouts : AlignedShift(l) < Segment * Segment * Segment

Construct ==
  /\ layout = NoLayout
  /\ \E l \in Layouts :
       LET shift == AlignedShift(l) IN
       /\ layout' = l
       /\ nodeSizeWord' = PackLow(FixedSize(l), shift % Segment)
       /\ perBlockWord' = PackHigh(l.perBlock, (shift \div Segment) % Segment)
       /\ allocatedWord' = PackHigh(0, (shift \div (Segment * Segment)) % Segment)
  /\ UNCHANGED <<blocks, free, freeSize, pastEnd, lent, held>>

-----------------------------------------------------------------------------
(* Allocation *)

BlockSize == RealNodeSize * NodesPerBlock

\* A new block's nodes, as pushing each in front leaves them.
NodesOf(b) == [k \in 1 .. NodesPerBlock |-> [block |-> b, index |-> NodesPerBlock - k]]

Now == [blocks |-> blocks, free |-> free, size |-> freeSize, lent |-> lent]

\* priv_alloc_block: one turn of the loop.
WithBlock(s, b) ==
  [blocks |-> <<b>> \o s.blocks,
   free   |-> NodesOf(b) \o s.free,
   size   |-> s.size + NodesPerBlock,
   lent   |-> [x \in DOMAIN s.lent \cup {b} |->
                 IF x # b THEN s.lent[x]
                 ELSE [bytes |-> BlockSize + ListNodeSize,
                       align |-> Segment * 2 ^ Load(nodeSizeWord, perBlockWord, allocatedWord)]]]

\* The segment manager lends blocks one after another.
BlockSequences(k) == {s \in [1 .. k -> BlockIds \ DOMAIN lent] : \A i, j \in 1 .. k : s[i] = s[j] => i = j}

WithBlocks(seq) == FoldLeft(WithBlock, Now, seq)

\* Faulty form: the count is rounded down.
BlocksNeededDown(n) == Larger((n - freeSize) \div NodesPerBlock, 1)

\* How many blocks allocate_nodes asks for: it goes by the list's count.
BlocksNeeded(n) == IF freeSize < n THEN ((n - freeSize) - 1) \div NodesPerBlock + 1 ELSE 0

\* Faulty form: one node too few leaves the free list.
RestAfterLeavingOne(list, n) == SubSeq(list, n, Len(list))

RestAfter(list, n) == SubSeq(list, n + 1, Len(list))

\* The first n of the free list are the caller's.
Give(s, n) ==
  /\ blocks' = s.blocks /\ lent' = s.lent
  /\ free' = RestAfter(s.free, n) /\ freeSize' = s.size - n
  /\ held' = held \cup {s.free[k] : k \in 1 .. n}
  /\ SetAllocated(Allocated + n)

\* allocate_node: it asks whether a node is linked.  If the segment manager
\* throws, nothing has changed.
AllocateNode ==
  /\ layout # NoLayout
  /\ \E seq \in BlockSequences(IF free = <<>> THEN 1 ELSE 0) : Give(WithBlocks(seq), 1)
  /\ UNCHANGED <<layout, nodeSizeWord, perBlockWord, pastEnd>>

AllocateNodes(n) ==
  /\ layout # NoLayout
  /\ \E seq \in BlockSequences(BlocksNeeded(n)) :
       LET s == WithBlocks(seq) IN n <= Len(s.free) /\ Give(s, n)
  /\ UNCHANGED <<layout, nodeSizeWord, perBlockWord, pastEnd>>

\* Fewer nodes are linked than the list counts: the iterator that is to reach
\* the last of n leaves the list, and nothing is promised from there on.
WalksPastEnd(n) ==
  /\ layout # NoLayout
  /\ \E seq \in BlockSequences(BlocksNeeded(n)) :
       LET s == WithBlocks(seq) IN
       /\ n > Len(s.free)
       /\ blocks' = s.blocks /\ lent' = s.lent /\ free' = s.free /\ freeSize' = s.size
  /\ pastEnd' = TRUE
  /\ UNCHANGED <<layout, nodeSizeWord, perBlockWord, allocatedWord, held>>

\* The segment manager throws at some block: those before it stay.
AllocateThrows(n) ==
  /\ layout # NoLayout
  /\ \E k \in 0 .. BlocksNeeded(n) - 1 : \E seq \in BlockSequences(k) :
       LET s == WithBlocks(seq) IN
       blocks' = s.blocks /\ lent' = s.lent /\ free' = s.free /\ freeSize' = s.size
  /\ UNCHANGED <<layout, nodeSizeWord, perBlockWord, allocatedWord, pastEnd, held>>

-----------------------------------------------------------------------------
(* Deallocation *)

\* deallocate_nodes of a chain, and deallocate_node with a chain of one.
DeallocateNodes(chain) ==
  /\ layout # NoLayout
  /\ free' = Reverse(chain) \o free /\ freeSize' = freeSize + Len(chain)
  /\ held' = held \ ToSet(chain)
  /\ SetAllocated(Allocated - Len(chain))
  /\ UNCHANGED <<layout, nodeSizeWord, perBlockWord, blocks, lent, pastEnd>>

Chains == {c \in UNION {[1 .. n -> held] : n \in Batches} : \A i, j \in DOMAIN c : c[i] = c[j] => i = j}

\* remove_and_dispose_if: the nodes of block b leave the list, and
\* push_in_list puts each in front of those before it.
Part(s, x, b) ==
  IF x.block = b THEN [s EXCEPT !.mine = <<x>> \o @] ELSE [s EXCEPT !.rest = Append(@, x)]

Parted(list, b) == FoldLeft(LAMBDA s, x : Part(s, x, b), [mine |-> <<>>, rest |-> <<>>], list)

\* Faulty form: off by one.
BlockIsFreeBeyond(list) == Len(list) > NodesPerBlock

BlockIsFree(list) == Len(list) = NodesPerBlock

\* Faulty form: the test of the free list is the wrong way round.
LastFoundDrained(s, parted) ==
  IF s.backup = <<>> /\ parted.rest = <<>> THEN parted.mine # <<>> ELSE s.last

\* Whether backup_list_last is the last node of the backup list.  Until it is,
\* it stands before the list's begin, or before the begin of a free_nodes that
\* its turn has destroyed.
LastFound(s, parted) ==
  IF s.backup = <<>> /\ parted.rest # <<>> THEN parted.mine # <<>> ELSE s.last

\* deallocate_free_blocks, one turn of its loop
Sweep(s, b) ==
  LET parted == Parted(s.free, b)
  IN  IF BlockIsFree(parted.mine)
      THEN [s EXCEPT !.free = parted.rest]
      ELSE [free   |-> parted.rest,
            kept   |-> Append(s.kept, b),
            backup |-> parted.mine \o s.backup,
            last   |-> LastFound(s, parted)]

Swept == FoldLeft(Sweep, [free |-> free, kept |-> <<>>, backup |-> <<>>, last |-> FALSE], blocks)

\* The last splice moves what lies up to backup_list_last, and counts all of
\* the backup list.  Where backup_list_last is not its last node, the range is
\* empty or none, the count is wrong and Intrusive promises nothing: the nodes
\* come along, or go with the local list.
Spliced ==
  IF Swept.last THEN {Swept.backup} ELSE {Swept.backup, <<>>}

DeallocateFreeBlocks ==
  /\ layout # NoLayout
  /\ blocks' = Swept.kept
  /\ \E moved \in Spliced : free' = moved \o Swept.free
  /\ freeSize' = freeSize - (Len(free) - Len(Swept.free)) + Len(Swept.backup)
  /\ lent' = [b \in ToSet(Swept.kept) |-> lent[b]]
  /\ UNCHANGED <<layout, nodeSizeWord, perBlockWord, allocatedWord, pastEnd, held>>

PurgedFree == <<>>

\* purge_blocks: its precondition is that nobody holds a node.
PurgeBlocks ==
  /\ layout # NoLayout /\ held = {}
  /\ blocks' = <<>> /\ free' = PurgedFree /\ freeSize' = 0
  /\ lent' = [b \in DOMAIN lent \ ToSet(blocks) |-> lent[b]]
  /\ UNCHANGED <<layout, nodeSizeWord, perBlockWord, allocatedWord, pastEnd, held>>

\* The destructor is purge_blocks.
Destroy ==
  /\ layout # NoLayout /\ held = {}
  /\ layout' = NoLayout
  /\ nodeSizeWord' = 0 /\ perBlockWord' = 0 /\ allocatedWord' = 0
  /\ blocks' = <<>> /\ free' = <<>> /\ freeSize' = 0
  /\ lent' = [b \in DOMAIN lent \ ToSet(blocks) |-> lent[b]]
  /\ UNCHANGED <<pastEnd, held>>

-----------------------------------------------------------------------------
Operation ==
  \/ Construct
  \/ AllocateNode
  \/ \E n \in Batches : AllocateNodes(n) \/ WalksPastEnd(n) \/ AllocateThrows(n)
  \/ \E c \in Chains : DeallocateNodes(c)
  \/ DeallocateFreeBlocks
  \/ PurgeBlocks
  \/ Destroy

\* Nothing is said of the program once it has left the list.
Next == (~pastEnd /\ Operation) \/ (pastEnd /\ UNCHANGED vars)

Spec == Init /\ [][Next]_vars

-----------------------------------------------------------------------------
(* Properties *)

\* The nodes of the listed blocks that are neither linked nor held.
Lost == {[block |-> b, index |-> k] : b \in ToSet(blocks), k \in 0 .. NodesPerBlock - 1}
          \ (ToSet(free) \cup held)

\* A node of a block is linked once, held by one caller or lost, through
\* batches, partly failed batches, chains and sweeps, and no other node is
\* linked or held; m_freelist.size() counts the linked and the lost ones; only
\* lost ones lead allocate_nodes past the end; and the block list is what the
\* segment manager has lent, also after a batch that threw, so that
\* destruction gives back every block, and no block twice.
NodesConserved ==
  /\ ToSet(free) \cup held \subseteq
       {[block |-> b, index |-> k] : b \in ToSet(blocks), k \in 0 .. NodesPerBlock - 1}
  /\ ToSet(free) \cap held = {}
  /\ Cardinality(ToSet(free)) = Len(free)
  /\ freeSize = Len(free) + Cardinality(Lost)
  /\ pastEnd => Lost # {}
  /\ ToSet(blocks) = DOMAIN lent /\ Cardinality(DOMAIN lent) = Len(blocks)

\* Of all operations only deallocate_free_blocks loses nodes, only those of one
\* block, and only where it leaves the free list empty.
NodesKept ==
  [][Lost' \subseteq Lost
     \/ /\ DeallocateFreeBlocks /\ free' = <<>>
        /\ \A x, y \in Lost' \ Lost : x.block = y.block]_vars

\* What was packed into the spare bits survives the counting: every block is
\* asked for with the nodes' alignment, and their size is a multiple of it.
NodesAligned ==
  layout # NoLayout =>
    /\ RealNodeSize >= layout.size /\ RealNodeSize % layout.align = 0
    /\ \A b \in DOMAIN lent :
         /\ lent[b].align = Larger(layout.align, Segment)
         /\ lent[b].bytes = layout.perBlock * RealNodeSize + ListNodeSize

\* deallocate_free_blocks "Deallocates all the free blocks of memory": none
\* is left whose nodes all were in the free list.
SweepIsComplete ==
  [][DeallocateFreeBlocks => \A b \in ToSet(blocks') : \E x \in held \cup Lost : x.block = b]_vars

\* What callers hold nodes of.
Nodes == [block : BlockIds, index : 0 .. Top]

\* The pool is a NodeSource, and m_allocated is what it gave.
Source == INSTANCE NodeSource WITH count <- Allocated, Batches <- Batches \cup {1}
ImplementsNodeSource == Source!Spec

=============================================================================
