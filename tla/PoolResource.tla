---------------------------- MODULE PoolResource ----------------------------
(***************************************************************************)
(* dtl::pool_resource, the engine of unsynchronized_pool_resource and      *)
(* synchronized_pool_resource (src/src/pool_resource.cpp), with the        *)
(* block_list of oversized requests and the block_slist of chunks.         *)
(*                                                                         *)
(* Pools are made at the first allocation.  Pool i serves blocks of        *)
(* MinimumPoolBlock * 2^i bytes, cut from chunks asked of upstream, which  *)
(* is external: it hands out a region that is not live, or throws.  A      *)
(* pointer is a record [block, offset]: a region and a distance into it.   *)
(***************************************************************************)
EXTENDS SizeT, SequencesExt

CONSTANTS
  RegionIds,           \* regions upstream can hand out
  NoRegion,            \* the null pointer
  HeaderSize,          \* block_list and block_slist header_size
  PoolDataSize,        \* sizeof(pool_data_t)
  MinimumMaxBlocks,    \* pool_options_minimum_max_blocks_per_chunk
  DefaultMaxBlocks,    \* pool_options_default_max_blocks_per_chunk
  MinimumPoolBlock,    \* pool_options_minimum_largest_required_pool_block
  DefaultPoolBlock,    \* pool_options_default_largest_required_pool_block
  Options,             \* the pool_options callers construct with
  Sizes                \* the "bytes" callers ask for

ASSUME PoolAssumption ==
  /\ NoRegion \notin RegionIds
  /\ HeaderSize \in Nat \ {0} /\ HeaderSize <= SizeMax
  /\ PoolDataSize \in Nat \ {0}
  /\ MinimumMaxBlocks \in SizeType \ {0} /\ DefaultMaxBlocks \in SizeType
  /\ MinimumMaxBlocks <= DefaultMaxBlocks
  /\ MinimumPoolBlock \in Pow2s /\ DefaultPoolBlock \in Pow2s
  /\ MinimumPoolBlock <= DefaultPoolBlock
  /\ Options \subseteq [maxBlocks : SizeType, largest : SizeType]
  /\ Sizes \subseteq SizeType

VARIABLES
  alive,        \* the resource has been constructed and not yet destroyed
  options,      \* m_options, after priv_fix_options
  poolData,     \* m_pool_data: the region of the array of pools, or NoRegion
  pools,        \* the array: [chunks, free, next] by pool index
  oversized,    \* m_oversized_list: [block, size], the last allocated first
  lent,         \* upstream's own record: size by live region
  outstanding   \* extents [at, bytes] allocated and not deallocated

vars == <<alive, options, poolData, pools, oversized, lent, outstanding>>

NoOptions == [maxBlocks |-> 0, largest |-> 0]
NoPools   == [i \in {} |-> 0]
NothingLent == [r \in {} |-> 0]

Lend(l, r, size) == [x \in DOMAIN l \cup {r} |-> IF x = r THEN size ELSE l[x]]

\* Upstream's record after the regions of a list went back, each with the
\* size in its header.
GiveBack(l, list) ==
  [x \in {r \in DOMAIN l :
            ~ \E i \in DOMAIN list : list[i] = [block |-> r, size |-> l[r]]} |-> l[x]]

-----------------------------------------------------------------------------
(* Options and sizes *)

\* priv_limit_option
LimitOption(val, min, max) ==
  IF val = 0 THEN max ELSE IF val < min THEN min ELSE Smaller(val, max)

\* priv_fix_options
FixOptions(o) ==
  [maxBlocks |-> LimitOption(o.maxBlocks, MinimumMaxBlocks, DefaultMaxBlocks),
   largest   |-> CeilPow2(LimitOption(o.largest, MinimumPoolBlock, DefaultPoolBlock))]

\* Faulty form: the block size is rounded down.
PoolIndexRoundingDown(bytes) ==
  LET n == Larger(bytes, MinimumPoolBlock)
  IN  CeilLog2(FloorPow2(n)) - CeilLog2(MinimumPoolBlock)

\* priv_pool_index
PoolIndex(bytes) ==
  CeilLog2(Larger(bytes, MinimumPoolBlock)) - CeilLog2(MinimumPoolBlock)

\* priv_pool_block
PoolBlock(index) == MinimumPoolBlock * 2 ^ index

Oversized(bytes) == bytes > options.largest

-----------------------------------------------------------------------------
(* Construction *)

Init ==
  /\ alive = FALSE
  /\ options = NoOptions
  /\ poolData = NoRegion
  /\ pools = NoPools
  /\ oversized = <<>>
  /\ lent = NothingLent
  /\ outstanding = {}

Construct ==
  /\ ~alive
  /\ alive' = TRUE
  /\ \E o \in Options : options' = FixOptions(o)
  /\ UNCHANGED <<poolData, pools, oversized, lent, outstanding>>

-----------------------------------------------------------------------------
(* do_allocate *)

\* The pools do_allocate works with: those there are, or, in the first call,
\* the ones priv_init_pools makes when upstream gives it the array.
PoolCount == PoolIndex(options.largest) + 1

InitialPools ==
  [i \in 0 .. PoolCount - 1 |-> [chunks |-> <<>>, free |-> <<>>, next |-> MinimumMaxBlocks]]

Ready ==
  IF poolData # NoRegion
  THEN {[data |-> poolData, pools |-> pools, lent |-> lent]}
  ELSE {[data |-> r, pools |-> InitialPools, lent |-> Lend(lent, r, PoolDataSize * PoolCount)] :
          r \in RegionIds \ DOMAIN lent}

Free(s) == RegionIds \ DOMAIN s.lent

\* priv_init_pools throws.
InitPoolsThrows ==
  /\ alive /\ poolData = NoRegion
  /\ UNCHANGED vars

\* m_oversized_list.allocate: linked with its header in front.
AllocateOversized(s, bytes) ==
  /\ Oversized(bytes)
  /\ bytes <= SizeMax - HeaderSize
  /\ \E r \in Free(s) :
       /\ lent' = Lend(s.lent, r, bytes + HeaderSize)
       /\ oversized' = <<[block |-> r, size |-> bytes + HeaderSize]>> \o oversized
       /\ outstanding' = outstanding \cup
            {[at |-> [block |-> r, offset |-> HeaderSize], bytes |-> bytes]}
  /\ poolData' = s.data /\ pools' = s.pools

\* allocate_block: the head of the free list.
Take(pool) == [pool EXCEPT !.free = Tail(@)]

AllocateCached(s, bytes) ==
  /\ ~Oversized(bytes)
  /\ LET i == PoolIndex(bytes) IN
     /\ s.pools[i].free # <<>>
     /\ outstanding' = outstanding \cup {[at |-> Head(s.pools[i].free), bytes |-> bytes]}
     /\ pools' = [s.pools EXCEPT ![i] = Take(@)]
  /\ poolData' = s.data /\ lent' = s.lent
  /\ UNCHANGED oversized

\* replenish: how many blocks the next chunk has
BlocksPerChunk(next, block) ==
  Smaller(Smaller(options.maxBlocks, next), SizeMax \div block)

\* Faulty form: the blocks are one byte apart.
CutTight(r, n, block) ==
  [k \in 1 .. n |-> [block |-> r, offset |-> HeaderSize + (n - k)]]

\* The blocks of a chunk, as replenish leaves them in the free list: each is
\* linked at the front, so the last one is first.
Cut(r, n, block) ==
  [k \in 1 .. n |-> [block |-> r, offset |-> HeaderSize + (n - k) * block]]

NextBlocks(n) == IF options.maxBlocks \div 2 < n THEN options.maxBlocks ELSE 2 * n

Replenished(pool, r, n, block) ==
  [chunks |-> <<[block |-> r, size |-> n * block + HeaderSize]>> \o pool.chunks,
   free   |-> Cut(r, n, block) \o pool.free,
   next   |-> NextBlocks(n)]

\* The free list is empty: replenish, then allocate_block again.
AllocateReplenish(s, bytes) ==
  /\ ~Oversized(bytes)
  /\ LET i == PoolIndex(bytes)
         n == BlocksPerChunk(s.pools[i].next, PoolBlock(i))
     IN  /\ s.pools[i].free = <<>>
         /\ n * PoolBlock(i) <= SizeMax - HeaderSize
         /\ \E r \in Free(s) :
              LET full == Replenished(s.pools[i], r, n, PoolBlock(i)) IN
              /\ lent' = Lend(s.lent, r, n * PoolBlock(i) + HeaderSize)
              /\ outstanding' = outstanding \cup {[at |-> Head(full.free), bytes |-> bytes]}
              /\ pools' = [s.pools EXCEPT ![i] = Take(full)]
  /\ poolData' = s.data
  /\ UNCHANGED oversized

\* A throw by the header's overflow test or by upstream; pools made in this
\* call stay.
AllocateThrows(s, bytes) ==
  /\ \/ Oversized(bytes)
     \/ ~Oversized(bytes) /\ s.pools[PoolIndex(bytes)].free = <<>>
  /\ poolData' = s.data /\ pools' = s.pools /\ lent' = s.lent
  /\ UNCHANGED <<oversized, outstanding>>

Allocate(bytes) ==
  /\ alive
  /\ \E s \in Ready :
       \/ AllocateOversized(s, bytes)
       \/ AllocateCached(s, bytes)
       \/ AllocateReplenish(s, bytes)
       \/ AllocateThrows(s, bytes)
  /\ UNCHANGED <<alive, options>>

-----------------------------------------------------------------------------
(* do_deallocate *)

\* The header before p is a node of the list, with the size of the region.
DeallocateOversized(e) ==
  /\ Oversized(e.bytes)
  /\ \E k \in DOMAIN oversized :
       /\ oversized[k].block = e.at.block
       /\ lent' = GiveBack(lent, <<oversized[k]>>)
       /\ oversized' = RemoveAt(oversized, k)
  /\ UNCHANGED pools

DeallocatePooled(e) ==
  /\ ~Oversized(e.bytes)
  /\ pools' = [pools EXCEPT ![PoolIndex(e.bytes)].free = <<e.at>> \o @]
  /\ UNCHANGED <<oversized, lent>>

Deallocate(e) ==
  /\ alive
  /\ outstanding' = outstanding \ {e}
  /\ DeallocateOversized(e) \/ DeallocatePooled(e)
  /\ UNCHANGED <<alive, options, poolData>>

-----------------------------------------------------------------------------
(* release and destruction *)

\* Upstream's record after m_oversized_list.release and every pool's release.
AllReleased ==
  LET lists == {oversized} \cup {pools[i].chunks : i \in DOMAIN pools}
  IN  [x \in {r \in DOMAIN lent : \A l \in lists : r \in DOMAIN GiveBack(lent, l)} |-> lent[x]]

\* Faulty form: the free list survives its chunks.
ReleasedKeepingFree(pool) == [pool EXCEPT !.chunks = <<>>, !.next = MinimumMaxBlocks]

\* pool_data_t::release
Released(pool) == [chunks |-> <<>>, free |-> <<>>, next |-> MinimumMaxBlocks]

Release ==
  /\ alive
  /\ lent' = AllReleased
  /\ oversized' = <<>>
  /\ pools' = [i \in DOMAIN pools |-> Released(pools[i])]
  /\ outstanding' = {}
  /\ UNCHANGED <<alive, options, poolData>>

\* Faulty form: the array of pools is not given back.
ArrayForgotten(l) == l

\* The destructor's deallocate of the array, after release().
ArrayGivenBack(l) ==
  IF poolData = NoRegion THEN l
  ELSE GiveBack(l, <<[block |-> poolData, size |-> PoolDataSize * PoolCount]>>)

Destroy ==
  /\ alive
  /\ alive' = FALSE
  /\ lent' = ArrayGivenBack(AllReleased)
  /\ options' = NoOptions /\ poolData' = NoRegion /\ pools' = NoPools
  /\ oversized' = <<>> /\ outstanding' = {}

-----------------------------------------------------------------------------
Next ==
  \/ Construct
  \/ InitPoolsThrows
  \/ \E bytes \in Sizes : Allocate(bytes)
  \/ \E e \in outstanding : Deallocate(e)
  \/ Release
  \/ Destroy

Spec == Init /\ [][Next]_vars

-----------------------------------------------------------------------------
(* Properties *)

\* The blocks of one chunk, and of all the chunks of a pool.
ChunkBlocks(c, block) ==
  {[block |-> c.block, offset |-> HeaderSize + k * block] :
     k \in 0 .. ((c.size - HeaderSize) \div block) - 1}

BlocksOf(i) ==
  UNION {ChunkBlocks(pools[i].chunks[j], PoolBlock(i)) : j \in DOMAIN pools[i].chunks}

FreeOf(i) == {pools[i].free[k] : k \in DOMAIN pools[i].free}
HeldOf(i) == {e.at : e \in {x \in outstanding : ~Oversized(x.bytes) /\ PoolIndex(x.bytes) = i}}

\* Each block of a chunk is either once in its pool's free list or held by
\* one caller: allocate_block, deallocate_block, replenish and release lose
\* no block, duplicate none and mix up no pools.
BlocksConserved ==
  \A i \in DOMAIN pools :
    /\ FreeOf(i) \cup HeldOf(i) = BlocksOf(i)
    /\ FreeOf(i) \cap HeldOf(i) = {}
    /\ \A j, k \in DOMAIN pools[i].free : pools[i].free[j] = pools[i].free[k] => j = k
    /\ \A e, f \in outstanding : e.at = f.at => e = f

\* A block is large enough for the request it serves, and lies between the
\* header and the end of a region upstream still has on loan.
HeldFits ==
  \A e \in outstanding :
    /\ e.at.block \in DOMAIN lent
    /\ HeaderSize <= e.at.offset
    /\ e.at.offset + (IF Oversized(e.bytes) THEN e.bytes ELSE PoolBlock(PoolIndex(e.bytes)))
         <= lent[e.at.block]
    /\ ~Oversized(e.bytes) => e.bytes <= PoolBlock(PoolIndex(e.bytes))

\* The lists of regions the resource keeps: the chunks of each pool and, at
\* the index pool_index() gives to requests no pool serves, the oversized ones.
ListsOf(ps, large) ==
  [i \in DOMAIN ps \cup {PoolCount} |-> IF i \in DOMAIN ps THEN ps[i].chunks ELSE large]

\* All regions on loan are the array, a chunk of one pool or an oversized
\* block, each listed once and with upstream's size: release() and the
\* destructor give back all of it, nothing twice, each with its size.
NothingLeaked ==
  LET lists == ListsOf(pools, oversized) IN
  /\ \A i, j \in DOMAIN lists : \A k \in DOMAIN lists[i], l \in DOMAIN lists[j] :
       lists[i][k].block = lists[j][l].block => i = j /\ k = l
  /\ \A i \in DOMAIN lists : \A k \in DOMAIN lists[i] :
       LET c == lists[i][k] IN
       c.block \in DOMAIN lent /\ lent[c.block] = c.size /\ c.block # poolData
  /\ \A r \in DOMAIN lent :
       r = poolData \/ \E i \in DOMAIN lists : \E k \in DOMAIN lists[i] : lists[i][k].block = r
  /\ poolData # NoRegion => poolData \in DOMAIN lent /\ lent[poolData] = PoolDataSize * PoolCount
  /\ ~alive => lent = NothingLent

\* What the resource promises as a memory_resource.
Promise == INSTANCE MemoryResource
ImplementsMemoryResource == Promise!Spec
=============================================================================
