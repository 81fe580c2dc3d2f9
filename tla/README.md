# A TLA+ model of Boost.Container

Boost.Container is a library of containers and of the memory resources and
allocators under them. Most of it is templates instantiated in the caller's
program; the parts compiled into the library are in `src/src`. This project models
the code that keeps state of its own and where a mistake is silent: the polymorphic
memory resources, the node pools behind the extended allocators, the batch
allocation protocol, the containers (from `vector` to `map`) with their behaviour
when an element, a comparison or the allocator throws, the container `hub`, whose
block structure is the most intricate one the repository implements itself, and the
segmented algorithms.

Paths are relative to the repository; `I/` stands for
`src/include/boost/container/`. In the modules, a definition bears the name of the
function or member it translates; PROJECT.json's `map` gives the lines.

## 1. Inventory

### Memory resources (`src/src/*.cpp`, `I/pmr`)

| Component | State | Operations | What makes it correct |
|---|---|---|---|
| `monotonic_buffer_resource` with `block_slist` | the list of upstream buffers, current pointer and room left, size of the next buffer, the caller's first buffer | construct (three ways), `do_allocate`, `do_deallocate` (nothing), `release`, destroy | storage is aligned, disjoint, inside a live buffer, past its header; every buffer goes back to upstream with its own size; sizes grow geometrically and saturate; a throw by upstream changes nothing that matters |
| `pool_resource`, the engine of both pool resources, with `block_list` | the options, the array of pools (chunks, free list, blocks of the next chunk), the oversized blocks | construct, `do_allocate` (makes the pools when first called), `do_deallocate`, `release`, destroy | a block is free or held, once; it fits the request; only the array of pools stays with upstream after release, and nothing after destruction; chunks grow up to the maximum |
| `unsynchronized_pool_resource` | one `pool_resource` | forwards | as above |
| `synchronized_pool_resource` | one `pool_resource`, a mutex | forwards under the lock; observers without it | to its callers, a pool resource in one step; the lock is always released |
| default resource (`global_resource.cpp`) | a static pointer, dlmalloc's spin lock | `set_default_resource`, `get_default_resource` | an atomic exchange and load, also before `main` |
| `memory_resource`, `polymorphic_allocator`, `resource_adaptor` | none, or one pointer | forwarding | the contract of the interface |

The pool resources and the monotonic resource call an *upstream* resource, which
may throw at any call; nothing they do is undone by it except by the code's own
order of steps.

### Extended allocators (`node_allocator`, `adaptive_pool`, `allocator`)

| Component | State | Operations | What makes it correct |
|---|---|---|---|
| node pool (`I/detail/node_pool_impl.hpp`) | block list, free list, three words with packed alignment bits | allocate one or many, deallocate one or a chain, sweep free blocks, purge | each node of a live block is free or held, once, but for those a sweep may lose (section 4); a sweep frees the blocks whose nodes are all in the free list; the packed bits survive every update |
| adaptive pool (`I/detail/adaptive_node_pool_impl.hpp`) | a multiset of blocks by number of free nodes, number of wholly free blocks | the same | the multiset stays ordered under each update in place; a limit on wholly free blocks; the header of a block is found from any node |
| layout of an adaptive pool's block (same file) | block size, sub-blocks, nodes | computed once per pool | the search ends; nodes lie inside; the count is what is carved |
| batch allocation (`allocate_many`, `multiallocation_chain`, `src/src/dlmalloc_ext_2_8_6.c`) | a chain with cached first, last and size | make a batch, pop, give back a chain | first, last and size agree with the links; no buffer is lost when dlmalloc runs out in the middle |
| dlmalloc (`src/src/dlmalloc_2_8_6.c`, `dlmalloc_ext_2_8_6.c`) | headers, bins, dv, top, segments, mapped chunks | malloc, free, memalign, trim; grow on both sides, shrink in place | free neighbours are joined, each free chunk is in one bin, sizes and bits agree, memory of the system is given back whole |

`shared_node_pool` and `shared_adaptive_node_pool` run each operation under a
mutex of a process-wide singleton.

### Containers

| Component | State | Hard part, and what makes it correct |
|---|---|---|
| `vector`, `small_vector`, `static_vector` (`I/vector.hpp`) | a buffer, size, capacity; perhaps an internal buffer | insertion without and with reallocation, with a block expanded forwards or backwards by a version 2 allocator; each has its own rollback. Elements live exactly in `[0, size)` after every throw |
| `flat_set`, `flat_map` and multi forms (`I/detail/flat_tree.hpp`) | a vector kept in order | hints, ordered and unordered ranges, merge: the order must survive each |
| `string` (`I/string.hpp`) | a short or a long representation in one union | insertion from the string itself while the buffer moves |
| `stable_vector` | an index of pointers to nodes, up-pointers in the nodes, a pool of nodes kept in the tail of the index | a node has one owner, the index and the nodes point at each other |
| `deque`, `segtor` (`I/detail/deque_impl.hpp`) | a map of blocks, a start and a finish | insertion in the middle in either direction with a rollback for each part; room at both ends; blocks freed when they hold nothing |
| `devector` | a buffer with room at both ends | elements slide inside the buffer or move to another |
| `list`, `slist` (`I/detail/node_alloc_holder.hpp`) | nodes linked by Intrusive | nodes made one by one or many at once; nothing leaks when a constructor throws |
| `set`, `map` and multi forms (`I/detail/tree.hpp`), `node_handle` | nodes ordered by Intrusive | reuse of nodes by assignment; a node in a handle; a comparison that throws |
| `hub` | two lists over blocks of 64 slots with a mask | every operation relinks; throws at each element and allocation; `compact` relinks while it walks |
| segmented algorithms (`I/experimental/segmented_*.hpp`) | none | what is carried from one segment into the next |
| `nest` | like hub | experimental, not modelled |

The containers meet the memory layer through the allocator only, so their
models have an allocator that lends a block or throws.

### What is hard to test here

There is little concurrency (two components), and much failure handling: almost
every operation calls upstream, an allocator or an element's constructor in the
middle of its work. PROJECT.json lists the hazards at their lines. Three groups:

* a throw between two updates (`partial_failure`), the largest group;
* state cached in several places that several functions update (`stale_state`,
  `ordering`, `protocol_sequence`): packed words, chains with a cached size, two
  lists and a count over the same blocks;
* arithmetic at a boundary of `size_t` (`numeric_edge`).

## 2. Modules

```
SizeT                 size_t of Width bits, powers of two           SizeT_proofs
ListFacts             lemmas: folds, induction up to n, lists without repetition
MemoryResource        abstract: what a memory_resource promises
  MonotonicBuffer       keeps its promise, storage nobody else has  MonotonicBuffer_proofs
  PoolResource          implements it                               PoolResource_proofs
    SyncPoolResource    PoolResource under a mutex, implements it   PoolResource_proofs, its end
DefaultResource       abstract: an atomic exchange and load
  GlobalResource        implements it                               GlobalResource_proofs
NodeSource            abstract: n nodes nobody holds
  NodePool              implements it                               NodePool_proofs
  AdaptivePool          AdaptiveLayout makes the pool AdaptiveNodePool runs;
                        implements it                               AdaptivePool_proofs
Dlmalloc              the heap: malloc, free, memalign, growth and shrinking in place
  BulkAllocation        callers of it: one buffer, batches and chains, memory running out
Hub                   hubs that share memory                        Hub_proofs
Containers            two containers of any kind under every history of calls
  Elements              cells, blocks, throws; the element loops and their rollbacks
  Expansion             insertion into room, a block that grows, a new block
  Vector <- FlatTree    vector and its kinds; an ordered vector
  BasicString           string
  StableVector, Deque, Devector
  NodeHolder            nodes one by one and many at once; a node handle
  Lists, Trees          list and slist; set, map and multi forms
SegmentedAlgorithms   each segmented algorithm on every pair of ends, against the same
                        algorithm over a sequence
  SegmentedSearches     what segment_iterator_traits offers; the algorithms that read
  SegmentedChanges      those that write: copies, removals, partitions, merges
```

`MC<module>` adds symmetry sets and inputs for TLC; GlobalResource needs none and is
checked as it is.

### How state and actions correspond to the code

**MonotonicBuffer.** A pointer is a buffer and an offset; `lent` is upstream's
record and `extents` the callers'. `m_current_buffer`, `m_current_buffer_size`
and `m_next_buffer_size` are `current`, `currentSize`, `nextSize`. `do_allocate`
is one action per path: it fits; a new buffer; `length_error` for a size whose
header does not fit; upstream throws, after `m_next_buffer_size` was raised.
The caller's buffer has an address modulo `max_align`, so alignment waste at its
start is real. The subtraction of size_t wraps (`MinusWrap`), it does not stop
at zero.

**PoolResource.** `do_allocate` is one action per path too, with upstream's throw
when the array of pools is made, when a chunk is made and when an oversized block
is made. A free list is a sequence of blocks; a chunk is prepended block by block
as the code does, so the order in which blocks come out is the code's. `ListsOf` is every
list of blocks of upstream the engine keeps, the chunks of each pool and the oversized
blocks; a caller that gives back an oversized block is `DeallocateOversized`.

**SyncPoolResource.** Extends PoolResource with threads. Inside the lock a free
list is read in one step and written in another, and the pools are published
before their count, so a missing lock would show. `pool_cached_blocks` walks the
list one node at a time without the lock.

**GlobalResource.** One step is one access to shared memory: the try of the lock,
a turn of the spin, the read, the write, the release. The static initialization
of the pointer is an action, with calls before it.

**NodePool.** The three packed words are integers of Width bits with the
alignment's segments in their spare bits. The free list is what is linked (`free`) and what it
counts (`freeSize`), two variables because a sweep can part them: `AllocateNode` asks
whether a node is linked, `AllocateNodes` whether the count suffices, and where it does but the
links do not, `WalksPastEnd` ends the history. A sweep follows the code's turns over
the list of blocks and three lists of nodes (`Parted` is `remove_and_dispose_if` with
`push_in_list`, in one pass as there, `LastFound` is `backup_list_last`); its result is one step.
`Spliced` is the last splice: the whole backup list if `backup_list_last` is its last node, and
if it is not, all of it or nothing, because the iterators and the count then contradict each
other and what Intrusive makes of them is not in this repository.

**AdaptiveNodePool.** A block is its address. The multiset is a sequence ordered
by (free nodes, address); an update in place moves a block only as the code's
shortcuts do, so the order is something to check, not a given.

**AdaptiveLayout, AdaptivePool.** The constructor's search for a block size, one
step per size tried, for each of the pools in `Requests`; AdaptivePool is the
composition: when the search has ended, the pool starts with the counts it found.

**Dlmalloc.** An `mstate` is a record: headers and footers by address, bins, dv, top,
segments, counters. Sizes are in words of eight bytes. Each function is an operator from one
state to the next, with the branches of the code in its order; the pages mapped and where
mmap finds memory stand for the system. **BulkAllocation.** The callers: links are the first
words of the buffers; a chain is (first, last, size) and `Walk` is what a reader of the links
would see. Between calls, memory that a user writes over is forgotten (`Settled`), and what
was never written may hold any bit (`noise`).

**Hub.** `hubs[h]` has the active and the available list, `num_blocks` and
`size_`; `mask` and `data` belong to the blocks. The circular links are sequences
without the header block. Each member function is an operator on a record of one
hub with memory (`Place`, `Erased`, `Compacted`, ...), and an action applies it.
The throw of a constructor, an assignment or an allocation is an action of its
own, with what the code has done up to it; `NewBlockThrows` is the second allocation of a
block that throws when the first is made, which is given back.

**Elements.** The ground of the containers. A block is a function from offsets to
cells, and a cell is `Raw` (no object), a value, or `Moved` (an object one may only
destroy or assign to). A call runs as a chain of operators on a record `w` that holds
the blocks (`heap`), the members of the containers (`obj`), a `fuse` (how many
operations that may throw are left before one does) and what was thrown. Each loop of
`detail/copy_move_algo.hpp` and each rollback object of `detail/destroyers.hpp` is an
operator that checks the cells it touches: a construction over a live object, an
assignment to, a move from or the destruction of a raw cell, and an access outside the
block set `ub`. So a rollback that destroys too much is found at once and one that
destroys too little shows as a leak.

**Vector, FlatTree, BasicString.** `start`, `size`, `cap`; the internal buffer of
small_vector, static_vector and short strings is a block of its own that is never
lent. The kinds `vector` and `vector2` have allocators of version 1 and 2; with the
second, Expansion also grows a block forwards or backwards in place. FlatTree has the
hinted and unhinted insertions, the ranges that are ordered first and then merged, and
`merge` of two containers. BasicString reads its source from elsewhere or from itself.

**StableVector.** `nodes` is the index, `pool` the chain kept after the last element
with its cached size `poolSize`; the block of a node holds the element and the
up-pointer. **Deque.** `slots` is the map, `start` and `finish` are offsets as in the
code (`m_start_off`, `m_finish_off`); the kinds are `deque` and `segtor` (single-ended),
each also in the reservable form. **Devector.** `front`, `back` and the block.

**NodeHolder, Lists, Trees.** A list or a tree is the sequence of its nodes, in
order; the links and the balancing are Boost.Intrusive's, which is not in this
repository. What remains is this library's: making, reusing, handing out and disposing
of nodes, the position an insertion is told to take and what happens to a node when a
constructor or a comparison throws. Kinds that end in `2` have a version 2 allocator,
with which nodes are made many at once.

**Containers.** Two objects; each member function is an action that runs its operator
from the present state with every fuse. Beside the code's state it keeps what the
documentation promises: `promised`, the elements a container should have (after a throw:
what the guarantee of that function allows); `watched`, a reference to an element that
the documentation says stays valid; `reserved`, the capacity promised by the last call.

**Segmented*.** A range is a pair of places in a memory of blocks; the
algorithms walk from segment to segment as the code does, with what they carry over
(a run of values, a place in the pattern, where the destination stands). SegmentedAlgorithms
defines each algorithm over the sequence of elements, from the comment at the head of
its header (`I/experimental/segmented_*.hpp`) and the standard algorithm it names.

## 3. Runs

Counts of distinct states are TLC's (of a violation, those found before it). Deadlock
is checked in every run: each system can always go on.

| Run | Shows | Instance | States |
|---|---|---|---|
| `monotonic` | Every history of constructions, allocations (fitting, needing a new buffer, too large, over-aligned, refused by upstream), releases and destructions hands out aligned, disjoint, in-bounds storage and leaks nothing. | 3 upstream buffers, 4-bit size_t, max_align 4, a caller's buffer at residue 1 of 3 bytes and one of 5; sizes 2, 3, 9; alignments 1 to 8 | 130,571 |
| `monotonic_zero` (violation) | A request of zero bytes whose alignment waste exceeds the room left wraps m_current_buffer_size, and the next request is given bytes past the end of the buffer. | the same with size 0 | 2,609 |
| `sync_pool` | Two threads construct, allocate from two pools and beyond them, deallocate, release and observe, with throws at every call of upstream and free lists read and written in two steps: the pool resource keeps each block once, is to its callers an unsynchronized pool resource, and never stays locked. | 2 threads, 3 regions, 5-bit size_t, three sets of options, sizes 1, 3, 5, 31 | 228,573 |
| `global` | Threads exchange and read the default resource under the spin lock, after static initialization or before it: an atomic exchange and load. | 3 threads, 3 resources | 18,874 |
| `node_pool` | Every history of batches allocated and deallocated, throws by the segment manager inside a batch, sweeps and purges: nodes are conserved, and lost by a sweep alone, as section 4 says; two layouts are overaligned, with the alignment's bits split over three words. | 3 blocks, 24-bit words, four layouts, batches of 1 to 3 | 12,565 |
| `adaptive_pool` | 300 pools search for a block layout, which ends with a block carved into exactly the counted nodes, each of which finds the header; one of them runs every history of batches that span blocks, chains given back in any order of blocks, throws inside a batch with the rollback, sweeps and destruction. | 5 sizes, 3 alignments, 5 counts, 4 overheads; 3 blocks of 3 nodes, one wholly free block kept, batches of 1, 2, 4 | 4,809 |
| `bulk` | Histories of single buffers that grow forwards and backwards, shrink and are freed, aligned and mapped ones among them, and of chains made, popped and given back, with dlmalloc running out inside a batch: the heap stays as `check_malloc_state` wants it, each buffer fits its request, and nothing is lost. | 3 granules of 24 words, four uses of 2 or 3 buffers, mmap at the lowest or highest place or nowhere | 52,341 |
| `hub` | Every history of insertions, erasures, assignments, reservations, trims, compactions, sorts, splices, swaps and moves of two hubs with equal and unequal allocators, with a throw at every allocation and element. | 2 hubs, 3 blocks of 3 slots, 4 elements of 2 values | 45,734 |
| `containers` | Every history of calls of two containers of every kind, where any construction, assignment, move, comparison or allocation may throw: elements live exactly where the members say, nothing leaks, contents, references and capacity are as documented, keys stay ordered. | 36 instances, see below | 48,133 |
| `deque_reserve` (violation) | After reserve_front(n) of a reservable deque fewer than n elements fit. | one of them | 62 |
| `segmented` | Each segmented algorithm on every pair of ends and every contents gives the result and the contents its flat counterpart gives. | six elements, blocks of 2, 3 and 4 cells | 89,309 |
| `search_n` (violation) | segmented_search_n counts one element too many in the last segment. | the same with runs that cross segments | 6,251 |

### The properties

* *Memory resources.* `ExtentsInBuffers`, `ExtentsDisjoint`, `ExtentsAligned`,
  `RoomAccounted` (room left always ends where the buffer ends), `NothingLeaked`
  (list and upstream agree on blocks and sizes);
  `BlocksConserved` (each block of each chunk is in the free list or held, once),
  `HeldFits`; the pool resource implements `MemoryResource`, whose promise the monotonic
  resource's `ExtentsDisjoint` is.
* *Threads.* SyncPoolResource implements PoolResource's own specification, so
  that each call of a thread is one atomic step of the unsynchronized resource;
  when someone waits for the mutex, someone enters (`SomeoneEnters`; not a particular
  thread, for the mutex is not fair). GlobalResource implements DefaultResource, and
  while some thread waits for the spin lock some thread gets to release it (`Progress`).
* *Pools.* `NodesConserved` (a node of a block is linked once, held once or lost, the list counts
  the linked and the lost, and nobody walks past its end while none is lost); `NodesKept` (only a
  sweep loses nodes, those of one block, and then the free list is left empty);
  `NodesAligned`; `SweepIsComplete` (after a sweep each block has a node that is held or was
  lost); `PoolInvariants` (order and count of the multiset),
  `FreeBlocksLimited`; both implement `NodeSource`. `NodesInside` (each node lies in
  its sub-block, is aligned and finds the header), `Terminates` (of the search).
* *dlmalloc and batches.* `HeapSound`: what `check_malloc_state` asserts (chunks tile their
  segment, free neighbours are joined, sizes, bits and footers agree, each free chunk is dv
  or in its bin, pages mapped are those of segments and mapped chunks) and `BuffersFit`, each
  buffer has the words its owner counts on and its alignment. `NothingLeaked`: what is in use
  is what the caller holds, `s_allocated_memory` is its size, and the chain is whole
  (`ChainWhole`: links, first, last and size agree).
* *hub.* `StructureSound`: a block is active iff its mask is not empty, available
  iff it is not full, reserved blocks are last, counts are sums. `NothingLeaked`:
  what the allocator has lent is what the hubs reach. `ElementsStay`: insertion,
  erasure and trimming move no other element (iterators stay valid).
  `ContentsAsPromised`: each operation against its definition over the sequence of
  values. `CapacityAsPromised`: `reserve`, `trim_capacity`, `shrink_to_fit` and a
  throw leave the number of blocks they should.
* *Containers.* `LifetimesSound`: no operation, in particular no rollback, ever
  touches a cell in the wrong state, and after each call exactly the cells the members
  name are live. `NothingLeaked`: each lent block has one owner. `ContentsAsPromised`:
  what a call returns with is what the documentation says it does, and a throw with the
  strong guarantee changes nothing. `ReferencesValid`: an element that no call is
  documented to move stays where it is. `CapacityAsPromised`: what was reserved can be
  inserted. `KeysOrdered`: flat containers and trees. `StableLinked`: up-pointers and
  the pool of stable_vector.
* *Segmented algorithms.* `ResultAsFlat`, `ContentsAsFlat`.

Each property of a passing run has a mutant: a definition of the model is
replaced by the "Faulty form" above it, a plausible bug in that function, and TLC
then finds the property violated.

### Bounds, and why they are enough

*Widths.* 4 and 5 bits of `size_t` let every saturation, wrap and overflow of the
resources happen with sizes of one digit; NodePool needs 24 bits for three packed
segments and an alignment of 2^19, which fills all three; AdaptiveLayout has the
header sizes of a 32-bit build.
*Buffers.* Three upstream buffers are a list with a first, a middle and a last.
Pools have the array of pools, chunks of two pools and an oversized block.
*dlmalloc.* Three granules of 24 words hold two segments and a mapped chunk or a segment in
the middle of two; the thresholds (`MinLarge` 12, `MmapThreshold` 14, `TrimThreshold` 30,
`ReleaseRate` 2) put small, large and mapped chunks, trimming and releasing within reach. Each
branch of the module but one (a mapped chunk that keeps its size in mremap) is reached.
*Node blocks.* Three blocks, batches that span two: a sweep sees a free
block before, between and after used ones, and a first kept block that empties the free
list, that has no free node or that has one with more behind it; the adaptive pool's shortcuts see
blocks on both sides. *hub.* Three blocks of three slots: a block can be full,
partly used, with a hole at the start, middle or end, reserved or absent at once, and a third
block is needed for `compact` to have a neighbour it does not touch. At most four elements
are inserted (`MaxSize`), which fills one block and part of another or, with
erasures and splices, leaves holes in all three. Two values suffice for `sort`, `unique` and `erase_if`.
*Threads.* Two for the pool resource (one inside, one out) and three for the spin
lock (one inside, two that race). Symmetry is used only in runs without liveness.

*Containers.* An instance (`Instances`, defined in MCContainers) has the kinds of the
two objects; the values (`keys`), where one value is enough unless order matters,
because the place of each element shows in the cells; the ranges that are inserted and
assigned (empty, of equal and of different values, ordered and not); the reserved
capacities; how many elements the two have together (`size`: a vector of four grows
twice, a deque with blocks of two spans three, an insertion in the middle has elements
on both sides); the cells of a devector (`cells`), for `resize_back` after `pop_front`
grows it without end; how late in a call the throw may come (`fuse`, enough to reach the
last operation of the longest loop of that size); whether both objects may own storage
(`both`), so that swaps and merges of two full containers are tried where the sizes are
small; which objects are called (`called`), and whether references are taken
(`watching`). Internal storage has two elements (three characters, one for the
terminator), so that the step from internal to allocated storage lies inside the bounds.
TLC compares states by `VIEW Shapes`: blocks are replaced by what they hold, since an
allocator that lends one block rather than another makes no difference to any operator
(none compares or orders blocks), and the record of promises stays in the view.

*Segmented algorithms.* Segments of 2, 3 and 4 cells for the three ranges give ends that
fall together and ends that do not; six elements are three segments of `a` and two of
`b`, so there is a first, a middle and a last. Every contents of two values in one range
meets 0,0,1,0,1,1 and its parts in the other (a pattern with a repeated start, which a
search must go back on), and every ordered contents of three values meets an ordered
range, for the merges and set operations.

### What is assumed of the caller

Where the code and its documentation disagree, the passing runs keep off the call, and
`Disagreements` says which these are; a run that names one finds the violation. The names
are: `stable_throw` (a throw in an operation of stable_vector), `stable_move` (its move
assignment), `deque_throw` (a throw in an insertion into a deque), `empty_range` (an
empty range inserted into, or an empty range erased from, a deque or devector in the
middle), `deque_reserve` (reserve_front, reserve_back), `devector_throw` (a throw while
elements shift forward), `flat_throw` (a throw that leaves a flat set unsorted),
`flat_duplicates` (a flat set that takes a multiset's repeated keys), `string_self` (a
string inserted into or replaced by a part of itself, in place), `slist_resize`
(`resize(n, x)` of slist), `many_throw` (a throw among nodes made many at once),
`node_throw` (a throwing comparison in an insertion that already owns its node). Section
4 gives the lines.

### Fairness

* SyncPoolResource: weak fairness of each thread *inside* the mutex (a member
  function of the resource has no wait in it) and of *someone* taking a free mutex
  that is wanted. No thread is assumed to get the mutex, to call, or to return.
* GlobalResource: weak fairness of each thread's steps from `acquire` on: a thread that
  runs goes on running. Which thread wins the lock is left open; a thread that
  loses for ever is allowed, and `Progress` does not promise otherwise.
* AdaptivePool: weak fairness of the search: a sequential loop.

No other run has a liveness property; everything else is safety of sequential code.

## 4. Disagreements between code and documentation

Three runs expect a violation.

* `monotonic_zero`: `do_allocate(0, alignment)` when the alignment's waste
  exceeds the room left. `remaining_storage` returns 0, `0 < 0` is false, and
  `m_current_buffer_size` wraps. The next request is served past the end of the
  buffer. The passing run and the theorems assume callers that ask for at least
  one byte.
* `deque_reserve`: `reserve_front` and `reserve_back` of a reservable deque subtract the
  free room, and the function they call subtracts it again
  (`I/detail/deque_impl.hpp:1622-1641`, `2688-2720`; segtor the same, `I/segtor.hpp:336`).
* `search_n`: the count of the last segment starts one too high
  (`I/experimental/segmented_search_n.hpp:206-209`): in segments 0,0 | 0,1 | 1 the search
  for two ones fails.

Others the model reaches when the name in `Disagreements` is given, or that were
noted while modelling. Each is stated as the code has it; what a build does beyond that
depends on the element type.

*Nodes.* With a version 2 allocator, `allocate_many_and_construct`
(`I/detail/node_alloc_holder.hpp:455-500`) guards the current node with a deallocator that
is never given a node, so that a throw loses its memory (`many_throw`).
`emplace_hint_unique_node` (`I/detail/tree.hpp:960-973`) has no guard where
`emplace_unique_node` has one, and `insert_equal_node` (1283-1304) empties the handle
before it compares (`node_throw`). `slist::resize(n, x)` (`I/slist.hpp:655-660`) inserts n
elements instead of n less the size (`slist_resize`). `slist::insert_after` of a range
returns the first new element with a version 2 allocator and the last with version 1.

*stable_vector.* Move assignment frees the index together with the chain of spare
nodes in its tail (1843-1858, `stable_move`). A throw leaves a node both deallocated and
in the pool (2117-2139 with 1898-1925), or spare nodes counted with no index to hold
them, which the assertion at 1204 names (`stable_throw`).

*deque.* `emplace_front` that throws at the boundary of a block frees the block of live
elements (2461, 1807); rollbacks of insertions in the middle (2361, 2295, 2315) and of
the segmented loops (2419, 2515) destroy or free too much (`deque_throw`). An insertion of
an empty range and `erase(p, p)` in the middle assign elements to themselves (2301, 2345,
2066; devector 2084, 2097; `empty_range`).

*devector.* The rollback of a forward move steps backwards (`I/detail/copy_move_algo.hpp:1993`,
2018; `devector_throw`). Its input-iterator constructor catches and does not rethrow
(363-373). `clear()` leaves the front index although its documentation promises a front
capacity of zero. `resize_back` may reallocate although `reserve` was called.

*flat containers.* `flat_set::merge` of a multiset with repeated keys takes all of them
(`I/vector.hpp:2576-2608`, `flat_duplicates`); a throw in `merge_unique` (2473) or in the
moves of `erase` leaves keys unordered (`flat_throw`). `vector::merge` into a new buffer
moves also the rest of the source that it does not take (2640).

*string.* Insertion and replacement from the string itself, done in place, read characters
that have already been shifted (`string_self`); `reserve` asks for more than needed
(3217); `shrink_to_fit` swallows a failed allocation (3276), and with a version 2
allocator it does not compile (3292).

*node pool.* The last splice of `deallocate_free_blocks` does not do what the comment above it
says, "Now pass all the node to the free list again" (`I/detail/node_pool_impl.hpp:398`).
`backup_list_last` is set only while other nodes are left in the free list (381), so when the
first block that keeps free nodes has the last of them it still stands before the backup list's
begin; and when the first block kept has no free node it is the begin of a loop-local list
that is gone (363, 382). Then the splice is given an empty range, or none, with the backup
list's size as the number of its nodes. One block of two nodes with one held is enough. The
free node may be lost, and what is lost stays in `m_freelist.size()`: its block is never again
found wholly free, so that no sweep returns it before `purge_blocks`, and `allocate_nodes`,
which is to "Preallocate all needed blocks to fulfill the request" (298), trusts the size,
preallocates too little and walks past the last node (303-313). The passing run `node_pool`
has all of this, and its properties say how far it goes. There is no run that expects
a violation, because what a splice outside of its contract does is Intrusive's, whose
source is not here: the model lets it move everything or nothing. It may do worse
with the iterator into the list that is gone, which would need Intrusive's links.

*Memory.* `pool_cached_blocks()` of the synchronized resource walks a
free list, and `pool_count()` reads a count, without the lock, although the header says
that the class is thread-safe; neither is in the passing run. `node_allocator`'s
`allocate_many` passes the last buffer as the first (`I/node_allocator.hpp:275`), so that
only the last gets into the chain, and with sizes it reads an uninitialized chain
(285); the passing run has the other two allocators. With
`ADP_only_alignment` the payload is not part of the block's size.

*dlmalloc's extensions* (`src/src/dlmalloc_ext_2_8_6.c`). `internal_multialloc_arrays` counts
on before it uses a size (1091), so that each array but the last of a contiguous piece gets
the size of the next one: "Allocates n_elements elements, each one of size elem_sizes[i]"
(`I/allocator.hpp:308`) fails with a buffer too short. With `Contiguous = 12` in the run `bulk`
one batch of sizes 5 and 3 violates `BuffersFit`; the run has pieces for one array of that
size. When dlmalloc runs out, arrays are freed from the front of the caller's chain
(1065-1078) and nodes freed by `internal_node_multialloc` stay linked in it (852-865); in the
run only `allocator`, whose chain is dropped then, sees it. A mapped chunk is shrunk when
`do_commit` is false, and not when it is true (702), and the size reported counts the padding
(`shrinks` is FALSE in the run). Where growth is to "take all next space" before it goes
backwards it asks for the size the chunk has (603-612) and takes nothing; `prevsize &
USE_MMAP_BIT` (572) never recognises a mapped chunk, which alone the sizes of objects that are
multiples of their alignment keep from growing backwards. A segment whose record stands where top
was is never released (`src/src/dlmalloc_2_8_6.c:4257`).

## 5. Theorems

All are for every value of the constants that satisfies the named assumptions of the
modules: widths, sets of buffers, regions, blocks, threads and resources of any size. A
theorem of the form `Spec => []P` comes from an inductive invariant, the refinements from
the same invariant in the state before and after a step.

| Module | Theorem | Property |
|---|---|---|
| MonotonicBuffer_proofs | MonotonicTypeCorrect | `TypeOK` |
| | MonotonicExtentsInBuffers | `ExtentsInBuffers` |
| | MonotonicExtentsDisjoint | `ExtentsDisjoint` |
| | MonotonicExtentsAligned | `ExtentsAligned` |
| | MonotonicRoomAccounted | `RoomAccounted` |
| | MonotonicNothingLeaked | `NothingLeaked` |
| PoolResource_proofs | PoolNothingLeaked | `NothingLeaked` |
| | PoolBlocksConserved | `BlocksConserved` |
| | PoolHeldFits | `HeldFits` |
| | PoolImplementsMemoryResource | `ImplementsMemoryResource` (refinement) |
| | SyncImplementsPoolResource | `ImplementsPoolResource` (refinement) |
| | SyncPoolSafe | the three of PoolResource, of the shared one |
| | SyncImplementsMemoryResource | `ImplementsMemoryResource` (refinement) |
| GlobalResource_proofs | GlobalInvariant | mutual exclusion and what the lock protects |
| | GlobalImplementsDefaultResource | `ImplementsDefaultResource` (refinement) |
| NodePool_proofs | NodePoolInvariant | the inductive invariant |
| | NodePoolNodesConserved | `NodesConserved` |
| | NodePoolNodesKept | `NodesKept` (an action property) |
| | NodePoolNodesAligned | `NodesAligned` |
| | NodePoolSweepIsComplete | `SweepIsComplete` (an action property) |
| | NodePoolImplementsNodeSource | `ImplementsNodeSource` (refinement) |
| AdaptivePool_proofs | AdaptivePoolInvariant | the inductive invariant |
| | AdaptivePoolInvariants | `PoolInvariants` |
| | AdaptivePoolFreeBlocksLimited | `FreeBlocksLimited` |
| | AdaptivePoolImplementsNodeSource | `ImplementsNodeSource` (refinement) |
| | LayoutInvariant | the inductive invariant of the constructor's search |
| | AdaptiveNodesInside | `NodesInside` |
| Hub_proofs | HubsInvariant | the inductive invariant |
| | StructureHolds | `StructureSound` |
| | NothingLeakedHolds | `NothingLeaked` |
| | ElementsStayHolds | `ElementsStay` |
| | CapacityHolds | `CapacityAsPromised` |

**MonotonicBuffer.** One hypothesis is added, `NoZeroSizes == 0 \notin Sizes`, because of
`monotonic_zero` above: without it the theorems are false. The lemma `FitsDoesNotWrap` is
where it enters: the subtraction in `allocate_from_current` does not wrap when
`remaining_storage` was at least the bytes asked for. `ExtentsAligned` has a second one,
`AlignedHeader`: the size of `block_slist_header` is a multiple of each alignment up to
`memory_resource::max_align`, as `header_size` is by its rounding in the source.
None of the properties is inductive. That a new extent overlaps
no older one needs that all older extents in the current buffer end before
`m_current_buffer` (`ExtentsBelowCurrent`); that it lies in the buffer needs that
room left plus offset is the buffer's size (`RoomAccounted`) and that the current
pointer is past the header (`CurrentAfterHeader`); that a block from upstream is
fresh needs that list and upstream agree (`NothingLeaked`), and `release()`
giving everything back needs the same; construction needs that a dead resource
has nothing (`DeadIsEmpty`), and `release()` that the caller's buffer is
consistent (`InitialConsistent`). `IInv` is their conjunction with the type
invariant and the properties; `InitIInv` and `NextIInv` have a lemma per action.

**PoolResource.** A live resource has fixed options, a dead one has nothing (`Vacant`), and
otherwise the members are `Sound`: typed; whatever upstream has lent is the array, a chunk of
one pool or an oversized block, each listed once (`Tracked`: the induction is over any family
of lists, so that one lemma serves all pools); the blocks of each chunk are in the free list
of its pool or held, once, and a chunk is a whole number of blocks (`Conserved`,
`ChunksWhole`); no two holders have one block (`HeldOnce`); an oversized block held is one
listed (`OversizedListed`); and where something is outstanding there are pools. `HeldFits` is
the arithmetic of `priv_pool_index` and `priv_pool_block` for every width. Free lists are
sequences, so each action has a lemma that says what of the list stays: `Prepended`,
`Tailed`, `Removed`. A replenishment adds as many blocks as fit, and the lemma about `Cut`
says they are disjoint and tile the chunk.

**SyncPoolResource.** The invariant adds to that of the engine that a thread's call matches
where it is, that whoever is between lock and unlock owns the mutex, that no
call is running on a dead resource, that a free list that was read and is about to be
written still is what was read (`ReadStands`), and that each block given back is
outstanding until the one call that gives it back does (`GivenOnce`). Every step then is one
of the engine or a stutter: `InitPools`, up to the assignment of `m_pool_data`, is what the
engine leaves after an allocation that throws once the pools are made; the write of
`m_pool_count` and the reading of a free list are stutters (the model keeps the count beside
the engine's variables), the write of the list is the allocation or deallocation. The refinements compose: `SyncPoolSafe` and
`SyncImplementsMemoryResource` follow from the engine's theorems about its own specification.

**GlobalResource.** `GlobalInvariant` is that a thread past `ACQUIRE_LOCK` has the word
set and is alone, that each thread has a request between call and return, that what was
read is still the default when it is overwritten, and that the pointer is null until static
initialization. The refinement has the hypothesis `NoEarlySet`: nobody calls
`set_default_resource` before that initialization, which would undo the call.

**NodePool.** `NodePoolInvariant`: a pool has the layout it was made with or is
empty; the three packed words hold the layout's numbers and, below the alignment, the number
of nodes held (`Packed`); the list of blocks is what the manager has on loan, without
repetition, with that layout's size and alignment (`LentAs`); nodes that are linked are
linked once, belong to a listed block and are not held, and the list counts them and those of
listed blocks that are neither linked nor held (`Conserved`); and who has walked past the end
has lost some. The packed count stays below the
alignment because no more nodes can be held than there are (`HeldCounted`), from `CountsFit`.
`deallocate_free_blocks` partitions the free list once for each block and `allocate_nodes`
adds one block at a time: `SweepCollects` and `WithBlocksSound` follow those loops turn by
turn, with the lemmas of ListFacts that say what a fold does after n turns. Of a sweep the
first says that the free list is empty at its end, that each node of a block kept that was
linked is in the backup list, once, and that where `backup_list_last` was not found these
are of one block. `SpliceCounts` is that the count stays right under either outcome of the splice:
what did not come along is lost. That is `NodesKept` for a sweep, and every other operation leaves
`Lost` as it was (`OtherSteps`). A sweep only frees a block with all of its nodes linked,
so `SweepIsComplete` needs that a block with none held and none lost has them all (`WholeBlock`).

**AdaptivePool.** `PoolInvariants` and `FreeBlocksLimited` are all but inductive: the
invariant `Sound` says the same of a container, free lists, a count and the nodes outside
of the lists as parameters, because inside an operation those are records on their way
through three loops, with nodes in a chain that are neither free nor held. `ReinsertWasUsedSound`
is the order: a block that gained nodes and passes no neighbour stays, one that passes one is
swapped, and one that passes more is taken out and inserted, whatever the counts
(`InsertSound`, `SwappedAt`). `WholeAreLast` is why `priv_deallocate_free_blocks` may take blocks from
the end: the wholly free ones are the last of the order, so exactly they go and the count
stays right. `GiveTurn`, `TakeTurn` and `WithTurn` are one turn each of the loops over a
chain, over the multiset and over new blocks; `LoopTurns` makes a fold a sequence of turns.
A turn over the multiset needs that the blocks before it are spent while the batch is short,
one over a new block that all are. A batch that throws is `DeallocatedSound` applied to what
was gathered. The refinement's count is a fold over the blocks; `CountIs` says that
every function that satisfies its recursion has the number of nodes nobody holds.

**AdaptiveLayout.** `NodesInside` is arithmetic, for every size, alignment, overhead and
number of nodes. The invariant `LayoutSound` says of the search that each candidate is a
multiple of the node's alignment and has room for the header, the payload and one node
(`Roomy`; the first because a power of two divides the larger ones, the next by doubling), and
of the result that it is the one its alignment makes. With it each sub-block's nodes end before
the bytes left out at its end (`NodeSits`), addresses are sums of multiples, the quotient by
the alignment is the sub-block's number (`NodeFound`), and the nodes counted for the three kinds of
sub-block are as many as are carved (`NamesCount`) and no fewer than asked (`Enough`).

**Hub.** `HubsInvariant` has any number of hubs, blocks and slots in a block. `Good(s, B, F)`
says of one hub, as the record `s` a member function works on, that it owns the blocks `B`
and other hubs the blocks `F`: a slot has a value exactly if its bit is set (`Memory`), the
active list is the blocks of `B` with elements and the available list those with room, each
once and the empty ones last (`ReservedLast`), `num_blocks` is the number of `B` and `size_`
the number of set bits in `B`, and what is lent is `B` and `F` together. `AllGood` is that
for each hub against the others. The owned blocks are a parameter because no list has them
all in the middle of a function, and the others' because a member function must not touch
them (`Framed`), which is how a step of one hub keeps the invariant of all. Each loop of
the code has a lemma about one turn and one about all turns (`PlaceTurn`, `ErasedEachGood`,
`EmptiedEachGood`, `AssignedEachGood`, `NewBlocksGood`, ...); the bound of the loop is a variable,
so what is carried through it is what the code relies on: that there is room for what is
left to insert (`Inserting`), that the positions still to erase have their bits set
(`ErasedUpTo`), that the blocks still to delete are empty. In `compact` the block `pbx` is
moved behind the full ones before it is filled, and a block that gave all its elements
leaves the active list for the back of the available one: a turn keeps `Good`, whether or not
it ends the loop. `splice` and the moves change who owns which block and keep the union.
`NothingLeaked` and `StructureSound` are read off the invariant; `ElementsStay` from what
the lemmas say of the memory besides: an insertion only adds to the masks (`Grows`), an erasure
only takes away (`Shrinks`), neither moves a value. `CapacityAsPromised` needs in addition
what each loop achieves. `trim_capacity` deletes as many reserved blocks as its surplus, or
all there are (`TrimmedIs`). For `shrink_to_fit`, `compact` must end with all blocks full but
one: the blocks before `pbx` are always full (`BeforeFull`), and each turn leaves fewer
blocks from `pbx` on (`PassTurn`, over `Ahead`), because it passes a full block, vacates one
or ends the loop; so twice as many turns as there are blocks are enough, which is the
bound Hub.tla gives the fold (`CompactedPacked`). `StructureSound` alone is not
inductive: that a new block has an empty mask needs `Memory`, which says so of all blocks
that are not lent, and that `splice` lists no block twice needs the disjoint ownership.

*Lemmas used by all.* SizeT_proofs: saturating and wrapping arithmetic, powers of two,
`CeilPow2`, `CeilLog2`, rounding, quotients and remainders. ListFacts: a left fold as turns,
induction with a set as parameter (the library's, which has an operator as parameter, cannot
be used), sequences without repetition and their lengths.

*Assumptions about constants.* Those of the modules, which TLC evaluates on every run:
`WidthAssumption`, `PowersAssumption` and `ExponentsAdd` (2^k is a positive integer for k
below the width, and exponents add: the provers know neither), `MonotonicAssumption`,
`PoolAssumption`, `SyncAssumption`, `GlobalAssumption`, `NodePoolAssumption`, `AdaptivePoolAssumption`,
`LayoutAssumption`, `RequestsFit` (a power of two holds the header, the payload and one
node of each pool made, or `upper_power_of_2` had none to return), `HubAssumption` (there are finitely many blocks, since a count is kept of them), `CountsFit`
(there are fewer nodes than the packed counter can count) and `AlignmentsSupported` (what
`node_pool_impl.hpp:257` asserts).

*Only model-checked.* Liveness (`SomeoneEnters`, `Progress`, `Terminates`), since TLAPS
has no rule for fairness here; dlmalloc and the callers of BulkAllocation; Hub's `ContentsAsPromised`, which compares what whole loops compute with a
sequence and needs the order of the elements through every loop; the containers and the
segmented algorithms, whose operators are chains of folds over a record, so that each loop
would need its own induction over data; the three violations.

## 6. What is not modelled

* The components PROJECT.json lists as not modelled, with reasons: type aliases, compile-time
  selection, stateless forwarding, `nest`.
* In dlmalloc: the tries inside a tree bin (a search gives the smallest chunk that fits, as
  the code's does), mspaces a user makes, calloc and realloc, footers, morecore, statistics
  and the checks against corruption. `node_allocator`'s `allocate_many`, see section 4.
* In hub: links as pointers (`block_list`'s moves that repoint first and last), the cycle
  walk of `proxy_sort` (sort is modelled by its result), throws inside `compact` and `sort`,
  swap and copy assignment with propagating allocators that are unequal.
* In synchronized_pool_resource: the observers of the number of pools and of cached blocks,
  which race with `do_allocate`.
* In the containers: links and balancing, which are Boost.Intrusive's; input iterators and
  ranges of unknown length other than as repeated insertion; allocators with fancy pointers;
  conversion, formatting, iterators' comparison operators.

## 7. Plan

The system is modelled as far as section 6 says. What is left is to prove more of it,
in this order:

1. `ChainWhole` of BulkAllocation for the operations that take and give single buffers.
2. `ContentsAsPromised` of Hub: that an insertion and an erasure of one element change the
   sequence of positions by one, then the loops.
