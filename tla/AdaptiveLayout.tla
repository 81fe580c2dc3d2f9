--------------------------- MODULE AdaptiveLayout ---------------------------
(***************************************************************************)
(* How adaptive_pool lays out a block: candidate_power_of_2_rt and its     *)
(* compile-time twin, calculate_alignment_ct, the constructor of           *)
(* private_adaptive_node_pool_impl_rt, and the carving of a block in       *)
(* priv_append_from_new_blocks                                             *)
(* (include/boost/container/detail/adaptive_node_pool_impl.hpp).           *)
(*                                                                         *)
(* A block is one or more sub-blocks of "alignment" bytes.  The last one   *)
(* starts with the block's header and the others with the distance to it,  *)
(* so that a node's block is found from its address.                       *)
(***************************************************************************)
EXTENDS SizeT, FiniteSets

CONSTANTS
  InfoSize,       \* sizeof(block_info_t)
  OffsetSize,     \* sizeof(hdr_offset_holder)
  PtrAlign,       \* alignment_of<void_pointer>
  Payload,        \* PayloadPerAllocation
  Requests        \* the pools made: [size, align, perBlock, overhead]

ASSUME LayoutAssumption ==
  /\ InfoSize \in Nat \ {0} /\ OffsetSize \in 1 .. InfoSize
  /\ PtrAlign \in Pow2s /\ Payload \in Nat
  /\ \A r \in Requests :
       /\ r.size \in Nat \ {0} /\ r.align \in Pow2s
       /\ r.perBlock \in Nat \ {0} /\ r.overhead \in Nat

VARIABLES
  request,      \* the arguments of the constructor
  alignment,    \* initial_alignment, 0 before it is computed
  layout        \* what the constructor stores, or NoLayout

layoutVars == <<request, alignment, layout>>

NoLayout == [subblocks |-> 0, nodes |-> 0]

Rounded(n, to) == ((n - 1) \div to + 1) * to

UpperPow2(n) == CHOOSE p \in Pow2s : n <= p /\ \A q \in Pow2s : n <= q => p <= q

\* Euclid's loop, by what it computes.
Gcd(a, b) == CHOOSE d \in 1 .. a : a % d = 0 /\ b % d = 0
                               /\ \A e \in d + 1 .. a : a % e # 0 \/ b % e # 0
Lcm(a, b) == (a \div Gcd(a, b)) * b

\* upper_power_of_2 doubles a size_t until it is large enough: there is a power
\* of two for the sub-block of one node.
ASSUME RequestsFit ==
  \A r \in Requests :
    r.overhead # 0 =>
      LET align == Larger(r.align, PtrAlign)
      IN  Rounded(InfoSize, align) + Payload + Lcm(r.size, align) <= HighBit

NodeAlign == Larger(request.align, PtrAlign)

RealNodeSize  == Lcm(request.size, NodeAlign)
HdrSize       == Rounded(InfoSize, NodeAlign)
HdrOffSize    == Rounded(OffsetSize, NodeAlign)
AlignOnly     == request.overhead = 0

-----------------------------------------------------------------------------
(* The nodes of each kind of sub-block *)

\* Faulty form: the allocator's payload is not left out.
HdrElementsWithPayload == (alignment - HdrSize) \div RealNodeSize

HdrElements == (alignment - HdrSize - Payload) \div RealNodeSize
MidElements == (alignment - HdrOffSize) \div RealNodeSize
EndElements == (alignment - HdrOffSize - Payload) \div RealNodeSize

\* num_b_subblock: the sub-blocks besides the header's
OtherSubblocks ==
  IF HdrElements >= request.perBlock THEN 0
  ELSE IF HdrElements + EndElements >= request.perBlock THEN 1
  ELSE 2 + (request.perBlock - HdrElements - EndElements - 1) \div MidElements

TotalNodes ==
  IF OtherSubblocks = 0 THEN HdrElements
  ELSE HdrElements + (OtherSubblocks - 1) * MidElements + EndElements

OverheadSatisfied ==
  LET size == alignment * (OtherSubblocks + 1)
  IN  ((size - TotalNodes * RealNodeSize) * 100) \div size < request.overhead

-----------------------------------------------------------------------------
LayoutInit ==
  /\ request \in Requests
  /\ alignment = 0
  /\ layout = NoLayout

\* align_only: one sub-block, as large as the header and the nodes.  The
\* subtraction wraps.
AlignOnlyLayout ==
  /\ AlignOnly /\ alignment = 0
  /\ alignment' = UpperPow2(HdrSize + RealNodeSize * request.perBlock)
  /\ layout' = [subblocks |-> 1,
                nodes |-> MinusWrap(alignment', Payload + HdrSize) \div RealNodeSize]
  /\ UNCHANGED request

FirstAlignment ==
  /\ ~AlignOnly /\ alignment = 0
  /\ alignment' = Larger(UpperPow2(HdrSize + Payload + RealNodeSize), NodeAlign)
  /\ UNCHANGED <<request, layout>>

\* Faulty form: the same candidate again.
NextAlignmentSame == alignment

NextAlignment == 2 * alignment

\* One turn of candidate_power_of_2_rt's loop.
TryAlignment ==
  /\ ~AlignOnly /\ alignment # 0 /\ layout = NoLayout
  /\ IF OverheadSatisfied
     THEN /\ layout' = [subblocks |-> OtherSubblocks + 1, nodes |-> TotalNodes]
          /\ UNCHANGED alignment
     ELSE alignment' = NextAlignment /\ UNCHANGED layout
  /\ UNCHANGED request

LayoutNext == AlignOnlyLayout \/ FirstAlignment \/ TryAlignment

\* The constructor has returned.
Done == layout # NoLayout

-----------------------------------------------------------------------------
(* priv_append_from_new_blocks carves a block from offset 0 *)

BlockSize == alignment * layout.subblocks - Payload
HeaderAt  == alignment * (layout.subblocks - 1)

\* The number of nodes carved from sub-block s.
ElementsOf(s) ==
  IF AlignOnly THEN layout.nodes
  ELSE IF s = layout.subblocks - 1 THEN HdrElements
  ELSE IF s = layout.subblocks - 2 THEN EndElements
  ELSE MidElements

FirstNode(s) == s * alignment + (IF s = layout.subblocks - 1 THEN HdrSize ELSE HdrOffSize)

Carved == {n \in (0 .. layout.subblocks - 1) \X (0 .. layout.nodes) : n[2] < ElementsOf(n[1])}

Address(n) == FirstNode(n[1]) + n[2] * RealNodeSize

\* What the sub-block's first word holds: the distance to the header.
HeaderDistance(s) == HeaderAt - s * alignment

\* priv_block_from_node
BlockFromNode(address) ==
  LET s == address \div alignment IN s * alignment + HeaderDistance(s)

-----------------------------------------------------------------------------
(* Properties *)

HasLayout == layout # NoLayout /\ ~AlignOnly

\* Each node is aligned, lies between its sub-block's header and the end of
\* the sub-block and of the memory asked of the segment manager, and leads
\* priv_block_from_node to the block's header; and there are exactly as many as
\* the pool reckons with (real_num_node), or the block would never look free,
\* and no fewer than asked: "NodesPerBlock is the number of nodes allocated at
\* once", when an overhead is given.
NodesInside ==
  HasLayout =>
    /\ Cardinality(Carved) = layout.nodes /\ layout.nodes >= request.perBlock
    /\ \A n \in Carved :
         /\ Address(n) % NodeAlign = 0
         /\ Address(n) + RealNodeSize <= Smaller((n[1] + 1) * alignment, BlockSize)
         /\ BlockFromNode(Address(n)) = HeaderAt

=============================================================================
