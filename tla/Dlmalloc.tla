------------------------------ MODULE Dlmalloc ------------------------------
(***************************************************************************)
(* The heap behind allocator, node_allocator and adaptive_pool:            *)
(* src/dlmalloc_2_8_6.c as src/dlmalloc_ext_2_8_6.c configures and extends *)
(* it (a global mstate, no morecore, no footers, 64-bit).                  *)
(*                                                                         *)
(* Sizes and addresses are counted in words of eight bytes, and a buffer   *)
(* is named by the address of its chunk.  An operation maps an mstate m to *)
(* the next one, whose mem is what the function returns, 0 for null:       *)
(*   head       the headers: address -> [size, cinuse, pinuse]             *)
(*   foot       prev_foot, of what follows a free chunk and of a mapped    *)
(*              chunk                                                      *)
(*   bins       small and tree bins: size -> chunks.  A small bin is in    *)
(*              the order of its fd links; in a tree bin the first is the  *)
(*              node of the tree, the others follow it by fd               *)
(*   dv, dvsize, top, topsize, footprint, checks (release_checks), trim    *)
(*              (trim_check) as in the code                                *)
(*   seg        the segments, the most recent first                        *)
(*   allocated  s_allocated_memory                                         *)
(*   pages      what the operating system has mapped: the base addresses   *)
(*              of granules                                                *)
(*   maps       use_mmap                                                   *)
(*   place      where mmap finds memory: at the lowest or highest free     *)
(*              address, or nowhere                                        *)
(*   noise      the pinuse bit of a header that was never written          *)
(***************************************************************************)
EXTENDS Integers, SequencesExt, FiniteSetsExt

CONSTANTS
  Granule,        \* mparams.granularity and page_size
  Space,          \* the words that mmap can give, from address Granule on
  MinLarge,       \* MIN_LARGE_SIZE
  MmapThreshold, TrimThreshold, ReleaseRate   \* in words, and in frees

ASSUME DlmallocAssumption ==
  /\ {Granule, Space, MinLarge, MmapThreshold, TrimThreshold, ReleaseRate} \subseteq Nat \ {0}
  /\ Granule % 2 = 0 /\ Space % Granule = 0 /\ MinLarge % 2 = 0

\* MALLOC_ALIGNMENT, MIN_CHUNK_SIZE, CHUNK_OVERHEAD, MMAP_CHUNK_OVERHEAD,
\* MMAP_FOOT_PAD, pad_request(sizeof(malloc_segment)) and TOP_FOOT_SIZE
Alignment    == 2
MinChunk     == 4
Overhead     == 1
MmapOverhead == 2
MmapFootPad  == 4
RecordSize   == 6
TopFoot      == RecordSize + MinChunk

Null == 0

RoundUp(n, unit) == ((n + unit - 1) \div unit) * unit

\* request2size
RequestSize(words) == Max({MinChunk, RoundUp(words + Overhead, Alignment)})

IsSmall(size) == size < MinLarge

EmptyHeap ==
  [head |-> <<>>, foot |-> <<>>, bins |-> <<>>, dv |-> Null, dvsize |-> 0, top |-> Null,
   topsize |-> 0, seg |-> <<>>, footprint |-> 0, checks |-> 0, trim |-> TrimThreshold,
   allocated |-> 0, pages |-> {}, maps |-> TRUE, place |-> "low", noise |-> FALSE, mem |-> Null]

Returns(m, mem) == [m EXCEPT !.mem = mem]

\* What is tried first, or if it gives nothing the second
OrElse(first, second) == IF first.mem # Null THEN first ELSE second

-----------------------------------------------------------------------------
(* Headers *)

Header(size, cinuse, pinuse) == [size |-> size, cinuse |-> cinuse, pinuse |-> pinuse]

HeadOf(m, p) == IF p \in DOMAIN m.head THEN m.head[p] ELSE Header(0, m.noise, m.noise)
SizeAt(m, p) == HeadOf(m, p).size
FootOf(m, p) == IF p \in DOMAIN m.foot THEN m.foot[p] ELSE 0

IsMmapped(m, p) == ~HeadOf(m, p).cinuse /\ ~HeadOf(m, p).pinuse
IsInuse(m, p)   == HeadOf(m, p).cinuse \/ ~HeadOf(m, p).pinuse

\* DL_SIZE_IMPL: what the caller may use of a chunk
Usable(m, p) == SizeAt(m, p) - (IF IsMmapped(m, p) THEN MmapOverhead ELSE Overhead)

PutHead(m, p, h) == [m EXCEPT !.head = (p :> h) @@ @]
PutFoot(m, p, size) == [m EXCEPT !.foot = (p :> size) @@ @]

SetPinuse(m, p)   == PutHead(m, p, [HeadOf(m, p) EXCEPT !.pinuse = TRUE])
ClearPinuse(m, p) == PutHead(m, p, [HeadOf(m, p) EXCEPT !.pinuse = FALSE])

\* set_inuse, set_inuse_and_pinuse, set_size_and_pinuse_of_inuse_chunk
SetInuse(m, p, size) == SetPinuse(PutHead(m, p, Header(size, TRUE, HeadOf(m, p).pinuse)), p + size)
SetInuseAndPinuse(m, p, size) == SetPinuse(PutHead(m, p, Header(size, TRUE, TRUE)), p + size)
SetSizeOfInuse(m, p, size) == PutHead(m, p, Header(size, TRUE, TRUE))

\* set_size_and_pinuse_of_free_chunk, set_free_with_pinuse
SetSizeOfFree(m, p, size) == PutFoot(PutHead(m, p, Header(size, FALSE, TRUE)), p + size, size)
SetFree(m, p, size) == SetSizeOfFree(ClearPinuse(m, p + size), p, size)

\* Chunks from p on: of a segment up to top or the first fencepost
Chunks(m, base) ==
  LET most == Space \div MinChunk
      walk[n \in 0 .. most] ==
        IF n = 0 THEN <<base>>
        ELSE LET s == walk[n - 1]
             IN  IF Last(s) = m.top \/ SizeAt(m, Last(s)) <= 1 THEN s
                 ELSE Append(s, Last(s) + SizeAt(m, Last(s)))
  IN  walk[most]

-----------------------------------------------------------------------------
(* Bins *)

Bin(m, size) == IF size \in DOMAIN m.bins THEN m.bins[size] ELSE <<>>

WithBin(m, size, chunks) ==
  [m EXCEPT !.bins = IF chunks = <<>> THEN [s \in DOMAIN @ \ {size} |-> @[s]]
                     ELSE (size :> chunks) @@ @]

\* insert_small_chunk puts a chunk first, insert_large_chunk behind the node.
InsertChunk(m, p, size) ==
  LET bin == Bin(m, size)
  IN  WithBin(m, size, IF IsSmall(size) \/ bin = <<>> THEN <<p>> \o bin
                       ELSE <<bin[1], p>> \o Tail(bin))

\* unlink_small_chunk; unlink_large_chunk, where the chunk at the node's bk
\* takes the place of the node.
UnlinkChunk(m, p, size) ==
  LET bin  == Bin(m, size)
      rest == SelectSeq(bin, LAMBDA q : q # p)
  IN  WithBin(m, size, IF IsSmall(size) \/ rest = <<>> \/ bin[1] # p THEN rest
                       ELSE <<Last(rest)>> \o Front(rest))

\* Faulty form of ReplaceDv, used to test the invariants: the old dv is dropped.
ReplaceDvDropping(m, p, size) == [m EXCEPT !.dv = p, !.dvsize = size]

\* replace_dv
ReplaceDv(m, p, size) ==
  [(IF m.dvsize = 0 THEN m ELSE InsertChunk(m, m.dv, m.dvsize)) EXCEPT !.dv = p, !.dvsize = size]

NoDv(m) == [m EXCEPT !.dv = Null, !.dvsize = 0]

\* A free chunk that is, or becomes, dv
AsDv(m, p, size) == [SetSizeOfFree(m, p, size) EXCEPT !.dv = p, !.dvsize = size]

\* A chunk joined with what top was
AsTop(m, p, size) == [PutHead(m, p, Header(size, FALSE, TRUE)) EXCEPT !.top = p, !.topsize = size]

-----------------------------------------------------------------------------
(* The operating system *)

PagesOf(base, size) == {base + k * Granule : k \in 0 .. (size \div Granule) - 1}

FreeAt(m, base, size) ==
  base + size <= Granule + Space /\ PagesOf(base, size) \cap m.pages = {}

\* Where mmap can put a region
Places(m, size) ==
  IF m.place = "nowhere" THEN {}
  ELSE {b \in PagesOf(Granule, Space) : FreeAt(m, b, size)}

PlaceFor(m, size) == IF m.place = "low" THEN Min(Places(m, size)) ELSE Max(Places(m, size))

Mapped(m, base, size) ==
  [m EXCEPT !.pages = @ \cup PagesOf(base, size), !.footprint = @ + size]

Unmapped(m, base, size) ==
  [m EXCEPT !.pages = @ \ PagesOf(base, size), !.footprint = @ - size]

\* The words mmap_alloc asks for: SIX_SIZE_T_SIZES and CHUNK_ALIGN_MASK more
MmapSize(nb) == RoundUp(nb + 6 + Alignment, Granule)

\* mmap_alloc
MmapAlloc(m, nb) ==
  LET size == MmapSize(nb)
      p    == PlaceFor(m, size)
  IN  Returns(PutFoot(PutHead(Mapped(m, p, size), p, Header(size - MmapFootPad, FALSE, FALSE)), p, 0), p)

\* mmap_resize, which may not move the chunk: mremap finds the pages behind it
\* free, or fails.
MmapResize(m, p, nb) ==
  LET old     == SizeAt(m, p)
      base    == p - FootOf(m, p)
      oldSize == old + FootOf(m, p) + MmapFootPad
      size    == MmapSize(nb)
      resized == PutHead(Mapped(Unmapped(m, base, oldSize), base, size), p,
                         Header(size - FootOf(m, p) - MmapFootPad, FALSE, FALSE))
  IN  CASE IsSmall(nb) -> Returns(m, Null)
        [] ~IsSmall(nb) /\ old > nb /\ old - nb <= 2 * Granule -> Returns(m, p)
        [] OTHER -> IF FreeAt(Unmapped(m, base, oldSize), base, size) THEN Returns(resized, p)
                    ELSE Returns(m, Null)

-----------------------------------------------------------------------------
(* Segments *)

Segment(base, size, at) == [base |-> base, size |-> size, at |-> at]
Holds(s, p) == p >= s.base /\ p < s.base + s.size

\* The place in the list of the first segment of a kind, or 0
FirstSegment(m, Is(_)) ==
  LET found == {i \in DOMAIN m.seg : Is(m.seg[i])}
  IN  IF found = {} THEN 0 ELSE Min(found)

\* init_top: the word behind top says how much is kept there.
InitTop(m, p, size) ==
  [AsTop(PutHead(m, p + size, Header(TopFoot, FALSE, FALSE)), p, size) EXCEPT !.trim = TrimThreshold]

\* add_segment: the record of the segment that was the first is written at its
\* end, behind what is left of top, and followed by fenceposts.
RecordIn(s, oldTop) ==
  LET end == s.base + s.size - TopFoot IN IF end < oldTop + MinChunk THEN oldTop ELSE end

WithRecord(m, base, size, record) ==
  LET topped == SetSizeOfInuse(InitTop(m, base, size - TopFoot), record, RecordSize)
      fenced == PutHead(topped, record + RecordSize, Header(1, TRUE, TRUE))
  IN  [fenced EXCEPT !.seg = <<Segment(base, size, Null), [@[1] EXCEPT !.at = record]>> \o Tail(@)]

BinRest(m, oldTop, rest) == IF rest = 0 THEN m ELSE InsertChunk(SetFree(m, oldTop, rest), oldTop, rest)

AddSegment(m, base, size) ==
  LET record == RecordIn(m.seg[FirstSegment(m, LAMBDA s : Holds(s, m.top))], m.top)
  IN  BinRest(WithRecord(m, base, size, record), m.top, record - m.top)

\* prepend_alloc: a chunk at the new base, and the rest joined with the first
\* chunk of the segment behind it.
PrependAlloc(m, base, oldfirst, nb) ==
  LET q     == base + nb
      rest  == oldfirst - q
      taken == Returns(SetSizeOfInuse(m, base, nb), base)
      nsize == SizeAt(m, oldfirst)
  IN  CASE oldfirst = m.top -> AsTop(taken, q, m.topsize + rest)
        [] oldfirst = m.dv  -> AsDv(taken, q, m.dvsize + rest)
        [] OTHER -> IF IsInuse(m, oldfirst) THEN InsertChunk(SetFree(taken, q, rest), q, rest)
                    ELSE InsertChunk(SetFree(UnlinkChunk(taken, oldfirst, nsize), q, rest + nsize),
                                     q, rest + nsize)

\* nb words from the start of top, which must have more
FromTop(m, nb) ==
  Returns(SetSizeOfInuse(AsTop(m, m.top + nb, m.topsize - nb), m.top, nb), m.top)

FromTopIfRoom(m, nb) == IF nb < m.topsize THEN FromTop(m, nb) ELSE Returns(m, Null)

\* sys_alloc with a region of mmap: the first segment, appended to the segment
\* of top, prepended to a segment, or a segment of its own
Extended(m, base, size, nb) ==
  LET grown  == Mapped(m, base, size)
      before == FirstSegment(m, LAMBDA s : s.base + s.size = base)
      behind == FirstSegment(m, LAMBDA s : s.base = base + size)
  IN  CASE m.top = Null ->
             FromTopIfRoom(InitTop([grown EXCEPT !.seg = <<Segment(base, size, Null)>>, !.checks = ReleaseRate],
                                   base, size - TopFoot), nb)
        [] m.top # Null /\ before # 0 /\ Holds(m.seg[Max({before, 1})], m.top) ->
             FromTopIfRoom(InitTop([grown EXCEPT !.seg[before].size = @ + size], m.top, m.topsize + size), nb)
        [] OTHER ->
             IF behind # 0
             THEN PrependAlloc([grown EXCEPT !.seg[behind] = Segment(base, @.size + size, @.at)],
                               base, base + size, nb)
             ELSE FromTopIfRoom(AddSegment(grown, base, size), nb)

SysAlloc(m, nb) ==
  LET asize == RoundUp(nb + TopFoot + Alignment, Granule)
  IN  IF m.maps /\ nb >= MmapThreshold /\ m.topsize # 0 /\ Places(m, MmapSize(nb)) # {}
      THEN MmapAlloc(m, nb)
      ELSE IF Places(m, asize) = {} THEN Returns(m, Null)
      ELSE Extended(m, PlaceFor(m, asize), asize, nb)

\* release_unused_segments: those behind the first whose one chunk is free up
\* to the record
Unused(m, i) ==
  LET s == m.seg[i]
  IN  ~IsInuse(m, s.base) /\ s.base + SizeAt(m, s.base) >= s.base + s.size - TopFoot

ReleaseSegment(m, i) ==
  LET s == m.seg[i]
  IN  Unmapped(IF s.base = m.dv THEN NoDv(m) ELSE UnlinkChunk(m, s.base, SizeAt(m, s.base)), s.base, s.size)

ReleaseUnused(m) ==
  LET gone == {i \in 2 .. Len(m.seg) : Unused(m, i)}
  IN  [FoldSet(LAMBDA i, acc : ReleaseSegment(acc, i), m, gone)
         EXCEPT !.seg = [k \in 1 .. Len(m.seg) - Cardinality(gone) |->
                           m.seg[SetToSortSeq(DOMAIN m.seg \ gone, <)[k]]],
                !.checks = Max({Len(m.seg) - 1, ReleaseRate})]

\* sys_trim: whole granules are taken off top, unless the segment holds the
\* record of another.
ShrinkTop(m, pad) ==
  LET extra == ((m.topsize - pad + Granule - 1) \div Granule - 1) * Granule
      i     == FirstSegment(m, LAMBDA s : Holds(s, m.top))
      s     == m.seg[i]
  IN  IF m.topsize <= pad \/ s.size < extra \/ extra = 0
         \/ \E k \in DOMAIN m.seg : m.seg[k].at # Null /\ Holds(s, m.seg[k].at)
      THEN m
      ELSE InitTop(Unmapped([m EXCEPT !.seg[i].size = @ - extra], s.base + s.size - extra, extra),
                   m.top, m.topsize - extra)

SysTrim(m, pad) ==
  IF m.top = Null THEN m
  ELSE LET released == ReleaseUnused(ShrinkTop(m, pad + TopFoot))
       IN  IF released.footprint = m.footprint /\ m.topsize > m.trim
           THEN [released EXCEPT !.trim = Space] ELSE released

-----------------------------------------------------------------------------
(* free *)

\* Where a chunk begins once it is joined with what is free before it
Start(m, p) == IF HeadOf(m, p).pinuse THEN p ELSE p - FootOf(m, p)

\* dispose_chunk: joined with its free neighbours, a chunk becomes part of top
\* or dv, or goes into a bin.
JoinNext(m, q, next, isDv) ==
  LET size  == next - q
      whole == size + SizeAt(m, next)
  IN  CASE HeadOf(m, next).cinuse ->
             IF isDv THEN AsDv(ClearPinuse(m, next), q, size) ELSE InsertChunk(SetFree(m, q, size), q, size)
        [] ~HeadOf(m, next).cinuse /\ next = m.top -> AsTop(IF isDv THEN NoDv(m) ELSE m, q, size + m.topsize)
        [] ~HeadOf(m, next).cinuse /\ next = m.dv -> AsDv(m, q, size + m.dvsize)
        [] OTHER -> IF isDv THEN AsDv(UnlinkChunk(m, next, whole - size), q, whole)
                    ELSE InsertChunk(SetSizeOfFree(UnlinkChunk(m, next, whole - size), q, whole), q, whole)

DisposeChunk(m, p, size) ==
  LET q    == Start(m, p)
      next == p + size
  IN  IF IsMmapped(m, p) THEN Unmapped(m, q, next - q + MmapFootPad)
      ELSE JoinNext(IF q = p \/ q = m.dv THEN m ELSE UnlinkChunk(m, q, p - q), q, next, q # p /\ q = m.dv)

\* mspace_free_lockless, which besides trims a top that has grown too large and
\* now and then, when large chunks are freed, releases unused segments
AfterFree(m, q) ==
  CASE q = m.top -> IF m.topsize > m.trim THEN SysTrim(m, 0) ELSE m
    [] q # m.top /\ q # m.dv /\ SizeAt(m, q) >= MinLarge ->
         IF m.checks = 1 THEN ReleaseUnused(m) ELSE [m EXCEPT !.checks = @ - 1]
    [] OTHER -> m

Free(m, p) ==
  IF IsMmapped(m, p) THEN DisposeChunk(m, p, SizeAt(m, p))
  ELSE AfterFree(DisposeChunk(m, p, SizeAt(m, p)), Start(m, p))

-----------------------------------------------------------------------------
(* malloc *)

\* A chunk out of a bin, whole or split; the rest becomes dv or is binned.
SplitChunk(m, p, size, nb, restIsDv) ==
  LET split == SetSizeOfFree(SetSizeOfInuse(m, p, nb), p + nb, size - nb)
  IN  IF size < nb + MinChunk THEN SetInuseAndPinuse(m, p, size)
      ELSE IF restIsDv THEN ReplaceDv(split, p + nb, size - nb)
      ELSE InsertChunk(split, p + nb, size - nb)

FromBin(m, size, nb, restIsDv) ==
  LET p == Bin(m, size)[1] IN SplitChunk(Returns(UnlinkChunk(m, p, size), p), p, size, nb, restIsDv)

\* dv, split or exhausted
FromDv(m, nb) ==
  LET p == m.dv
      rest == m.dvsize - nb
  IN  Returns(IF rest >= MinChunk THEN SetSizeOfInuse(AsDv(m, p + nb, rest), p, nb)
              ELSE SetInuseAndPinuse(NoDv(m), p, m.dvsize), p)

\* mspace_malloc_lockless and dlmalloc.  What tmalloc_small and tmalloc_large
\* find in the tree bins is the smallest chunk that fits.
Malloc(m, nb) ==
  LET fits   == {size \in DOMAIN m.bins : size >= nb}
      smalls == {size \in fits : IsSmall(size)}
      larges == fits \ smalls
  IN  IF IsSmall(nb) /\ nb \in smalls THEN FromBin(m, nb, nb, TRUE)
      ELSE IF IsSmall(nb) /\ nb > m.dvsize /\ fits # {} THEN FromBin(m, Min(fits), nb, TRUE)
      ELSE IF ~IsSmall(nb) /\ larges # {} /\ (m.dvsize < nb \/ Min(larges) < m.dvsize)
           THEN FromBin(m, Min(larges), nb, FALSE)
      ELSE IF nb <= m.dvsize THEN FromDv(m, nb)
      ELSE IF nb < m.topsize THEN FromTop(m, nb)
      ELSE SysAlloc(m, nb)

\* The front of a chunk in use stays so, the rest is given back.
CutAt(m, p, nb, rest) ==
  DisposeChunk(SetInuse(SetInuse(m, p, nb), p + nb, rest), p + nb, rest)

\* internal_memalign: room is given back before and behind the first place in
\* the chunk that is aligned.  The buffer starts two words after the chunk.
AlignedIn(p, alignment) ==
  LET first == RoundUp(p + 2, alignment) - 2
  IN  IF first = p \/ first - p >= MinChunk THEN first ELSE first + alignment

GiveLead(m, p, q, size) ==
  CASE q = p -> m
    [] q # p /\ IsMmapped(m, p) ->
         PutFoot(PutHead(m, q, Header(size, FALSE, FALSE)), q, FootOf(m, p) + q - p)
    [] OTHER -> DisposeChunk(SetInuse(SetInuse(m, q, size), p, q - p), p, q - p)

GiveTrail(m, q, nb) ==
  LET size == SizeAt(m, q)
  IN  Returns(IF ~IsMmapped(m, q) /\ size > nb + MinChunk THEN CutAt(m, q, nb, size - nb) ELSE m, q)

AlignFrom(m, p, q, nb) ==
  IF p = Null THEN m ELSE GiveTrail(GiveLead(m, p, q, SizeAt(m, p) - (q - p)), q, nb)

AlignChunk(m, alignment, nb) == AlignFrom(m, m.mem, AlignedIn(m.mem, alignment), nb)

Memalign(m, alignment, words) ==
  LET nb == RequestSize(words)
  IN  AlignChunk(Malloc(m, RequestSize(nb + alignment + MinChunk - Overhead)), alignment, nb)

\* mspace_memalign
Allocate(m, alignment, words) ==
  IF alignment <= Alignment THEN Malloc(m, RequestSize(words)) ELSE Memalign(m, alignment, words)

-----------------------------------------------------------------------------
(* Growing and shrinking in place *)

\* try_realloc_chunk_with_min: at least min and at most des words, for a chunk
\* that has fewer than min
TryRealloc(m, p, min, des) ==
  LET old   == SizeAt(m, p)
      next  == p + old
      nsize == SizeAt(m, next)
      with(extra) == Min({des, old + extra})
  IN  CASE IsMmapped(m, p) ->
             OrElse(MmapResize(m, p, des), MmapResize(m, p, min))
        [] ~IsMmapped(m, p) /\ next = m.top ->
             LET nb == Min({des, old + m.topsize - Alignment})
             IN  IF old + m.topsize <= min THEN Returns(m, Null)
                 ELSE Returns(AsTop(SetInuse(m, p, nb), p + nb, old + m.topsize - nb), p)
        [] ~IsMmapped(m, p) /\ next # m.top /\ next = m.dv ->
             LET nb   == with(m.dvsize)
                 rest == old + m.dvsize - nb
             IN  IF old + m.dvsize < min THEN Returns(m, Null)
                 ELSE IF rest >= MinChunk
                 THEN Returns(ClearPinuse(AsDv(SetInuse(m, p, nb), p + nb, rest), p + nb + rest), p)
                 ELSE Returns(NoDv(SetInuse(m, p, old + m.dvsize)), p)
        [] OTHER ->
             LET nb    == with(nsize)
                 rest  == old + nsize - nb
                 alone == UnlinkChunk(m, next, nsize)
             IN  IF HeadOf(m, next).cinuse \/ old + nsize < min THEN Returns(m, Null)
                 ELSE Returns(IF rest < MinChunk THEN SetInuse(alone, p, old + nsize)
                              ELSE CutAt(alone, p, nb, rest), p)

\* Faulty form of Lcm, used to test the invariants: the alignment is forgotten.
LcmIsMultiple(multiple) == multiple

\* calculate_lcm_and_needs_backwards_lcmed: the least common multiple of the
\* object's size and the alignment, and what is missing, in whole objects, to
\* so much, rounded up to that multiple.
Lcm(multiple) == Min({k * multiple : k \in 1 .. Alignment} \cap {k * Alignment : k \in 1 .. multiple})

NeedsBackwards(multiple, received, wanted) ==
  RoundUp(wanted - (received \div multiple) * multiple, Lcm(multiple))

\* The end of the free chunk before p becomes the front of the buffer.
TakeBackwards(m, p, needs) ==
  LET prev == Start(m, p)
      left == p - prev - needs
      r    == p - needs
      kept == IF prev = m.dv THEN [m EXCEPT !.dvsize = left]
              ELSE InsertChunk(UnlinkChunk(m, prev, p - prev), prev, left)
  IN  Returns(SetInuse(ClearPinuse(SetSizeOfFree(kept, prev, left), r), r, SizeAt(m, p) + needs), r)

\* The whole of it does.
TakeAllBackwards(m, p) ==
  LET prev == Start(m, p)
  IN  Returns(SetInuse(IF prev = m.dv THEN NoDv(m) ELSE UnlinkChunk(m, prev, p - prev), prev,
                       SizeAt(m, p) + p - prev), prev)

\* internal_grow_both_sides.  Where it is to "take all next space" before it
\* grows backwards it asks for the size the chunk has, and takes nothing.
GrowBothSides(m, p, forward, backward, limit, preferred, multiple, onlyPreferred) ==
  LET received == Usable(m, p)
      before   == FootOf(m, p)
      needs    == NeedsBackwards(multiple, received, IF onlyPreferred THEN preferred ELSE limit)
      backwards ==
        IF ~backward \/ HeadOf(m, p).pinuse \/ before < needs THEN Returns(m, Null)
        ELSE IF before >= needs + MinChunk THEN TakeBackwards(m, p, needs)
        ELSE IF before % Lcm(multiple) = 0 THEN TakeAllBackwards(m, p)
        ELSE Returns(m, Null)
  IN  IF limit <= received THEN Returns(m, p)
      ELSE IF forward THEN OrElse(TryRealloc(m, p, RequestSize(limit), RequestSize(preferred)), backwards)
      ELSE backwards

\* internal_mmap_shrink_in_place says what it would be left with, padding and
\* all; it shrinks when it is not to commit, and a chunk of just the size grows.
MmapShrink(m, p, nbmin, nbmax, commit) ==
  LET old  == SizeAt(m, p)
      nb   == Max({nbmin, MinLarge})
      size == MmapSize(nb)
      base == p - FootOf(m, p)
  IN  IF IsSmall(nbmax) \/ (old > nb /\ old - nb <= 2 * Granule)
      THEN [heap |-> Returns(m, Null), received |-> old]
      ELSE [heap |-> IF commit THEN Returns(m, p)
                     ELSE Returns(PutHead(Mapped(Unmapped(m, base, old + FootOf(m, p) + MmapFootPad), base, size),
                                          p, Header(size - FootOf(m, p) - MmapFootPad, FALSE, FALSE)), p),
            received |-> size]

\* internal_shrink: the size it would be left with, and with commit the rest
\* given back
Shrink(m, p, min, max, commit) ==
  LET nb   == RequestSize(min)
      least == Max({min, MinChunk - Overhead})
      old  == SizeAt(m, p)
      cut  == SetInuse(SetInuse(m, p, nb), p + nb, old - nb)
      refused == [heap |-> Returns(m, Null), received |-> Usable(m, p)]
  IN  CASE least > max -> refused
        [] least <= max /\ IsMmapped(m, p) -> IF nb <= old THEN MmapShrink(m, p, nb, RequestSize(max), commit) ELSE refused
        [] least <= max /\ ~IsMmapped(m, p) /\ old >= nb + MinChunk ->
             [heap |-> IF commit THEN Returns([Free(cut, p + nb) EXCEPT !.allocated = @ - (old - nb)], p)
                       ELSE Returns(m, p),
              received |-> nb - Overhead]
        [] OTHER -> refused

=============================================================================
