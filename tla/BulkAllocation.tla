--------------------------- MODULE BulkAllocation ---------------------------
(***************************************************************************)
(* The version 2 interface of allocator and adaptive_pool over the heap of *)
(* Dlmalloc: allocation_command for one buffer, with growth on both sides  *)
(* and shrinking in place, and allocate_many and deallocate_many.          *)
(*                                                                         *)
(* dlmalloc_multialloc_nodes or _arrays makes many buffers, linked through *)
(* their first words, and a multiallocation_chain (first, last and a       *)
(* cached size) of the caller receives them.  allocator has a chain of its *)
(* own made and then incorporates it in front of the caller's chain;       *)
(* adaptive_pool hands the caller's chain itself to dlmalloc, which        *)
(* appends to it.  node_allocator passes the last buffer as the first, or  *)
(* an uninitialized chain, and is not modelled.                            *)
(***************************************************************************)
EXTENDS Dlmalloc

CONSTANTS
  Contiguous,    \* INTERNAL_MULTIALLOC_DEFAULT_CONTIGUOUS_MEM
  Uses           \* what a caller does with a heap:
                 \*   class     "allocator" or "adaptive_pool"
                 \*   object    the size of its objects, and their alignment
                 \*   requests  for one buffer: the limit and the preferred size
                 \*   ways      what else allocation_command may do: sets of
                 \*             "expand_fwd", "expand_bwd" and "allocate_new"
                 \*   batches   the sizes of the buffers allocated at a time
                 \*   runsOut   whether the caller sees dlmalloc run out of memory
                 \*   shrinks   whether it shrinks mapped buffers, too
                 \*   held      how many buffers the caller has at most

ASSUME BulkAssumption ==
  /\ Contiguous \in Nat
  /\ \A u \in Uses :
       /\ u.class \in {"allocator", "adaptive_pool"} /\ {u.runsOut, u.shrinks} \subseteq BOOLEAN /\ u.held \in Nat
       /\ u.ways \subseteq SUBSET {"expand_fwd", "expand_bwd", "allocate_new"}
       /\ u.batches \subseteq Seq(Nat \ {0})
       /\ {u.object, u.alignment} \subseteq Nat \ {0}
       /\ u.object % u.alignment = 0 \/ u.alignment <= Alignment
       /\ \A c \in u.requests : /\ {c.limit, c.preferred} \subseteq Nat \ {0} /\ c.limit <= c.preferred
                                /\ c.limit % u.object = 0 /\ c.preferred % u.object = 0

VARIABLES
  use,       \* one of Uses
  heap,      \* dlmalloc's state
  next,      \* the first word of each buffer in a chain
  chain,     \* the caller's chain: first, last and size, and what the caller
             \* knows of it, the words it asked for, in the order it did
  singles    \* the caller's other buffers: buffer -> the words it counts on,
             \* those it asked for and those it was told it has

vars == <<use, heap, next, chain, singles>>

EmptyChain == [first |-> Null, last |-> Null, size |-> 0, asked |-> <<>>]

Init ==
  /\ use \in Uses
  /\ heap = EmptyHeap
  /\ next = <<>>
  /\ chain = EmptyChain
  /\ singles = <<>>

\* What a walk from "first" to a null visits, in order; memory that is no
\* buffer of the chain any more ends it.
Walk(links, first) ==
  LET visited[k \in 0 .. use.held + 1] ==
        IF k = 0 THEN <<>>
        ELSE LET s == visited[k - 1]
                 b == IF s = <<>> THEN first
                      ELSE IF Last(s) \in DOMAIN links THEN links[Last(s)] ELSE Null
             IN  IF b = Null THEN s ELSE Append(s, b)
  IN  visited[use.held + 1]

Without(f, set) == [b \in DOMAIN f \ set |-> f[b]]

ChainBuffers == ToSet(Walk(next, chain.first))
Held == DOMAIN singles \cup ChainBuffers

\* The heap as the next call finds it: of headers and prev_foot only what no
\* user of memory writes over.
Settled(m, held) ==
  LET chunks == UNION {ToSet(Chunks(m, s.base)) : s \in ToSet(m.seg)}
      heads  == (chunks \cup held \cup {m.top + m.topsize}) \cap DOMAIN m.head
      feet   == {p + SizeAt(m, p) : p \in {q \in chunks : ~IsInuse(m, q) /\ q # m.top}}
                  \cup {p \in held : IsMmapped(m, p)}
  IN  Returns([EmptyHeap EXCEPT !.head = [p \in heads |-> m.head[p]],
                                !.foot = [p \in feet |-> FootOf(m, p)],
                                !.bins = m.bins, !.dv = m.dv, !.dvsize = m.dvsize, !.top = m.top,
                                !.topsize = m.topsize, !.seg = m.seg, !.footprint = m.footprint,
                                !.checks = m.checks, !.trim = m.trim, !.allocated = m.allocated,
                                !.pages = m.pages], Null)

\* The heap in each environment: where mmap finds memory, and what was in it.
Heaps == {[heap EXCEPT !.place = e[1], !.noise = e[2]] :
            e \in {<<"low", FALSE>>, <<"high", TRUE>>, <<"nowhere", FALSE>>}}

Becomes(m, links, ch, mine) ==
  LET held == DOMAIN mine \cup ToSet(Walk(links, ch.first))
  IN  /\ Cardinality(held) <= use.held
      /\ heap' = Settled(m, held)
      /\ next' = links /\ chain' = ch /\ singles' = mine
      /\ UNCHANGED use

Counted(m, words) == [m EXCEPT !.allocated = @ + words]

\* Free of a buffer, as every caller of mspace_free_lockless in
\* dlmalloc_ext_2_8_6.c counts it
Returned(m, p) == Free(Counted(m, -SizeAt(m, p)), p)

-----------------------------------------------------------------------------
(* One buffer *)

\* boost_cont_allocation_command with a buffer to grow: first so far as is
\* preferred, and when no new one can be had, at least to the limit
CountedNew(m) == IF m.mem = Null THEN m ELSE Counted(m, SizeAt(m, m.mem))

Grown(m, p, c, ways, onlyPreferred) ==
  CountedNew(GrowBothSides(Counted(m, -SizeAt(m, p)), p, "expand_fwd" \in ways, "expand_bwd" \in ways,
                           c.limit, c.preferred, use.object, onlyPreferred))

AllocatedNew(m, c) ==
  CountedNew(OrElse(Allocate(m, use.alignment, c.preferred), Allocate(m, use.alignment, c.limit)))

\* The caller has a buffer for all its words.
Receives(m, mine, c) ==
  /\ m.mem # Null
  /\ Becomes(m, next, chain, (m.mem :> Max({c.limit, Usable(m, m.mem)})) @@ mine)

\* boost_cont_malloc, allocate of the allocators
AllocateNew(c) == \E m \in Heaps : Receives(AllocatedNew(m, c), singles, c)

\* allocation_command with expand_fwd or expand_bwd and perhaps allocate_new
Expands(p, c, first, fresh, second) ==
  IF first.mem = Null /\ fresh.mem # Null THEN Receives(fresh, singles, c)
  ELSE Receives(OrElse(first, second), Without(singles, {p}), c)

Expand(p, c, ways) ==
  \E m \in Heaps :
    Expands(p, c, Grown(m, p, c, ways, TRUE),
            IF "allocate_new" \in ways THEN AllocatedNew(m, c) ELSE Returns(m, Null),
            Grown(m, p, c, ways, FALSE))

\* allocation_command with shrink_in_place or try_shrink_in_place, to at least
\* min words; the caller believes the size it receives once it has committed.
Shrunk(p, s, commit) ==
  /\ s.heap.mem # Null
  /\ Becomes(s.heap, next, chain, IF commit THEN (p :> s.received) @@ singles ELSE singles)

ShrinkInPlace(p, min, commit) ==
  /\ use.shrinks \/ ~IsMmapped(heap, p)
  /\ Shrunk(p, Shrink(heap, p, min, singles[p], commit), commit)

\* boost_cont_free
Deallocate(p) == Becomes(Returned(heap, p), next, chain, Without(singles, {p}))

\* boost_cont_trim
Trim == heap.top # Null /\ Becomes(SysTrim(heap, 0), next, chain, singles)

-----------------------------------------------------------------------------
(* Many buffers *)

SumOf(sizes) == FoldLeft(+, 0, sizes)

\* The groups that are allocated together: as many nodes as fit into a
\* contiguous piece, and arrays as long as they fit
NodeGroups(requests) ==
  LET per == Max({Contiguous \div requests[1], 1})
      n   == Len(requests)
  IN  [k \in 1 .. (n + per - 1) \div per |-> SubSeq(requests, (k - 1) * per + 1, Min({k * per, n}))]

ArrayGroups(requests) ==
  FoldLeft(LAMBDA groups, r :
             IF groups = <<>> \/ Contiguous - Overhead - SumOf(Last(groups)) < r THEN Append(groups, <<r>>)
             ELSE Front(groups) \o <<Append(Last(groups), r)>>,
           <<>>, requests)

\* A chunk is split into buffers; the last has what is left of it.  Each of
\* the others gets the size of the one after it: internal_multialloc_arrays
\* counts on before it asks for a size, and nodes are all of one size.
SplitOut(m, p, group) ==
  LET at[k \in 1 .. Len(group)] == p + SumOf(SubSeq(group, 2, k))
      whole == SizeAt(m, p)
      cut(k, acc) == SetSizeOfInuse(acc, at[k], IF k < Len(group) THEN group[k + 1] ELSE p + whole - at[k])
  IN  [heap |-> FoldSet(cut, m, DOMAIN group), made |-> [k \in DOMAIN group |-> at[k]]]

\* The loop of internal_node_multialloc and internal_multialloc_arrays, with
\* mmap disabled: what was made until a group can not be had
Joined(acc, split) == [heap |-> split.heap, made |-> acc.made \o split.made, failed |-> FALSE]

AllocateGroup(acc, got, group) ==
  IF acc.failed \/ got.mem = Null THEN [acc EXCEPT !.failed = TRUE]
  ELSE Joined(acc, SplitOut(CountedNew(got), got.mem, group))

Multialloc(m, groups) ==
  FoldLeft(LAMBDA acc, group : AllocateGroup(acc, Malloc(acc.heap, SumOf(group)), group),
           [heap |-> [m EXCEPT !.maps = FALSE], made |-> <<>>, failed |-> FALSE], groups)

\* MEMCHAIN_PUSH_BACK or INCORPORATE_AFTER of each buffer made
Links(made) == [b \in ToSet(made) |-> LET i == CHOOSE i \in DOMAIN made : made[i] = b
                                      IN  IF i = Len(made) THEN Null ELSE made[i + 1]]

\* Faulty form of Incorporated, used to test the invariants: the last is always
\* taken from the batch.
IncorporatedAsLast(made, asked) ==
  [next  |-> (made[Len(made)] :> chain.first) @@ Links(made) @@ next,
   chain |-> [first |-> made[1], last |-> Last(made), size |-> chain.size + Len(made),
             asked |-> asked \o chain.asked]]

\* slist::incorporate_after(before_begin(), first, last, n)
Incorporated(made, asked) ==
  [next  |-> (made[Len(made)] :> chain.first) @@ Links(made) @@ next,
   chain |-> [first |-> made[1],
              last  |-> IF chain.first = Null THEN Last(made) ELSE chain.last,
              size  |-> chain.size + Len(made), asked |-> asked \o chain.asked]]

\* Faulty form of Appended, used to test the invariants: what the chain had is
\* not linked to the batch.
AppendedAlone(made, asked) ==
  IF made = <<>> THEN [next |-> next, chain |-> chain]
  ELSE [next  |-> Links(made) @@ next,
        chain |-> [first |-> made[1], last |-> Last(made), size |-> Len(made), asked |-> asked]]

\* The first PUSH_BACK links what the chain had to the batch.
Appended(made, asked) ==
  IF made = <<>> THEN [next |-> next, chain |-> chain]
  ELSE [next  |-> IF chain.first = Null THEN Links(made)
                  ELSE (chain.last :> made[1]) @@ Links(made) @@ next,
        chain |-> [first |-> IF chain.first = Null THEN made[1] ELSE chain.first,
                   last  |-> Last(made), size |-> chain.size + Len(made), asked |-> chain.asked \o asked]]

\* What is freed when a group can not be had: internal_node_multialloc frees
\* the buffers it made, internal_multialloc_arrays as many from the chain's front.
FreedNodes(made) == made
FreedArrays(made) ==
  IF use.class = "adaptive_pool" THEN SubSeq(Walk(Appended(made, <<>>).next, Appended(made, <<>>).chain.first), 1, Len(made))
  ELSE made

RolledBack(m, freed) == FoldLeft(Returned, m, freed)

Groups(sizes, nodes) ==
  LET requests == [k \in DOMAIN sizes |-> RequestSize(sizes[k])]
  IN  IF nodes THEN NodeGroups(requests) ELSE ArrayGroups(requests)

\* allocate_many of nodes of one size, or of arrays.  When dlmalloc runs out, a
\* chain of allocator's own is dropped, and the caller's keeps the links.
AllocatesMany(r, sizes) ==
  LET made == IF use.class = "adaptive_pool" THEN Appended(r.made, sizes) ELSE Incorporated(r.made, sizes)
  IN  ~r.failed /\ Becomes(r.heap, made.next, made.chain, singles)

AllocateMany(sizes, nodes) == \E m \in Heaps : AllocatesMany(Multialloc(m, Groups(sizes, nodes)), sizes)

RunsOut(r, freed, left) ==
  /\ r.failed /\ (use.runsOut \/ r.made = <<>>)
  /\ IF use.class = "adaptive_pool"
     THEN Becomes(RolledBack(r.heap, freed), Without(left.next, ToSet(freed)), left.chain, singles)
     ELSE Becomes(RolledBack(r.heap, freed), next, chain, singles)

FailsMany(r, nodes) ==
  RunsOut(r, IF nodes THEN FreedNodes(r.made) ELSE FreedArrays(r.made), Appended(r.made, <<>>))

AllocateManyThrows(sizes, nodes) == \E m \in Heaps : FailsMany(Multialloc(m, Groups(sizes, nodes)), nodes)

\* slist::pop_front
Popped ==
  [first |-> next[chain.first],
   last  |-> IF next[chain.first] = Null THEN Null ELSE chain.last,
   size  |-> chain.size - 1,
   asked |-> Tail(chain.asked)]

\* The caller takes an element out of the chain, to use it.
PopFront ==
  /\ chain.first # Null
  /\ Becomes(heap, Without(next, {chain.first}), Popped,
             (chain.first :> Max({chain.asked[1], Usable(heap, chain.first)})) @@ singles)

\* deallocate_many: internal_multialloc_free walks to the null and asks
\* nothing of the size.  The caller's chain is not used again.
DeallocateMany ==
  /\ chain.first # Null
  /\ Becomes(FoldLeft(Returned, heap, Walk(next, chain.first)), <<>>, EmptyChain, singles)

Next ==
  \/ \E c \in use.requests : AllocateNew(c)
  \/ \E p \in DOMAIN singles, c \in use.requests, ways \in use.ways : Expand(p, c, ways)
  \/ \E p \in DOMAIN singles, commit \in BOOLEAN : \E c \in use.requests : c.limit <= singles[p] /\ ShrinkInPlace(p, c.limit, commit)
  \/ \E p \in DOMAIN singles : Deallocate(p)
  \/ Trim
  \/ \E sizes \in use.batches, nodes \in BOOLEAN :
       /\ nodes => \A k \in DOMAIN sizes : sizes[k] = sizes[1]
       /\ AllocateMany(sizes, nodes) \/ AllocateManyThrows(sizes, nodes)
  \/ PopFront
  \/ DeallocateMany

Spec == Init /\ [][Next]_vars

-----------------------------------------------------------------------------
(* Properties *)

AllChunks == UNION {ToSet(Chunks(heap, s.base)) : s \in ToSet(heap.seg)}
FreeChunks == {p \in AllChunks : SizeAt(heap, p) > 1 /\ ~HeadOf(heap, p).cinuse /\ p # heap.top}
Binned == UNION {ToSet(heap.bins[size]) : size \in DOMAIN heap.bins}

\* Each buffer has at least the words its owner counts on, in a chain by its
\* order, and stays aligned for its objects however it grows (allocate_many
\* knows nothing of alignments beyond malloc's own).
BuffersFit ==
  /\ LET walk == Walk(next, chain.first)
     IN  \A k \in DOMAIN walk \cap DOMAIN chain.asked : chain.asked[k] <= Usable(heap, walk[k])
  /\ \A p \in DOMAIN singles :
       /\ singles[p] <= Usable(heap, p)
       /\ (use.alignment <= Alignment \/ use.batches = {}) => (p + 2) % use.alignment = 0

\* What check_malloc_state asserts, after any history of calls: the chunks of
\* a segment follow each other to its end, know whether the one before is in
\* use and where it begins, no two neighbours are free, each free chunk is dv or in the
\* bin of its size, once, and segments and mapped chunks are what the operating
\* system has mapped.  And the buffers fit.
HeapSound ==
  /\ BuffersFit
  /\ \A s \in ToSet(heap.seg) :
       LET walk == Chunks(heap, s.base)
           free(p) == p \in FreeChunks
       IN  /\ \A k \in 1 .. Len(walk) - 1 :
                /\ HeadOf(heap, walk[k + 1]).pinuse = ~free(walk[k])
                /\ free(walk[k]) => /\ HeadOf(heap, walk[k]).pinuse
                                    /\ FootOf(heap, walk[k + 1]) = SizeAt(heap, walk[k])
           /\ HeadOf(heap, s.base).pinuse
           /\ IF Last(walk) = heap.top THEN heap.top + heap.topsize + TopFoot = s.base + s.size
              ELSE s.at # Null /\ Last(walk) = s.at + RecordSize /\ Holds(s, s.at)
  /\ FreeChunks = Binned \cup ({heap.dv} \ {Null}) /\ heap.dv \notin Binned
  /\ heap.dv # Null => heap.dvsize = SizeAt(heap, heap.dv)
  /\ heap.top # Null => heap.topsize = SizeAt(heap, heap.top)
  /\ \A size \in DOMAIN heap.bins : LET bin == heap.bins[size]
                                    IN  IsInjective(bin) /\ \A p \in ToSet(bin) : SizeAt(heap, p) = size
  /\ heap.pages = UNION ({PagesOf(s.base, s.size) : s \in ToSet(heap.seg)}
                           \cup {PagesOf(p - FootOf(heap, p), SizeAt(heap, p) + FootOf(heap, p) + MmapFootPad)
                                   : p \in {q \in Held : IsMmapped(heap, q)}})
  /\ heap.footprint = Granule * Cardinality(heap.pages)

\* A walk of the chain finds as many different elements as its cached size
\* says and ends at its cached last, whatever order batches were added,
\* popped and failed in.
ChainWhole ==
  LET walk == Walk(next, chain.first) IN
  /\ Len(walk) = chain.size /\ IsInjective(walk)
  /\ chain.last = IF walk = <<>> THEN Null ELSE Last(walk)

\* "Elements must be individually deallocated with deallocate()": what
\* dlmalloc has lent is in the caller's hands or in the caller's chain, which
\* is whole, and s_allocated_memory, which boost_cont_all_deallocated asks, is
\* its size.
NothingLeaked ==
  /\ ChainWhole
  /\ {p \in AllChunks : HeadOf(heap, p).cinuse /\ SizeAt(heap, p) > 1}
       = {p \in Held : ~IsMmapped(heap, p)} \cup ({s.at : s \in ToSet(heap.seg)} \ {Null})
  /\ DOMAIN singles \cap ChainBuffers = {}
  /\ heap.allocated = FoldSet(LAMBDA p, sum : sum + SizeAt(heap, p), 0, Held)

=============================================================================
