--------------------------- MODULE MonotonicBuffer ---------------------------
(***************************************************************************)
(* pmr::monotonic_buffer_resource over its block_slist and an upstream     *)
(* memory_resource (src/src/monotonic_buffer_resource.cpp,                 *)
(* detail/block_slist.hpp).                                                *)
(*                                                                         *)
(* A pointer is a record [block, offset]: the buffer it points into and    *)
(* the distance from that buffer's first byte.  Upstream buffers start at  *)
(* multiples of MaxAlign, the caller's buffer anywhere (its "residue").    *)
(* The upstream resource is external: it hands out a buffer that is not    *)
(* live, or throws.                                                        *)
(***************************************************************************)
EXTENDS SizeT, Sequences

CONSTANTS
  BlockIds,               \* buffers the upstream resource can hand out
  NoBlock,                \* what the null pointer points into
  UserBlock,              \* the caller's initial buffer
  MaxAlign,               \* memory_resource::max_align
  HeaderSize,             \* block_slist::header_size
  MinimumBufferSize,      \* minimum_buffer_size
  InitialNextBufferSize,  \* initial_next_buffer_size
  Sizes,                  \* the "bytes" callers ask for
  Alignments,             \* the "alignment" callers ask for
  InitialSizes,           \* initial_size arguments of the second constructor
  UserBuffers             \* [residue, size] of the buffers of the third

ASSUME MonotonicAssumption ==
  /\ NoBlock \notin BlockIds /\ UserBlock \notin BlockIds /\ NoBlock # UserBlock
  /\ MaxAlign \in Nat \ {0}
  /\ HeaderSize \in Nat \ {0} /\ HeaderSize <= SizeMax
  /\ MinimumBufferSize \in SizeType \ {0}
  /\ InitialNextBufferSize \in SizeType \ {0}
  /\ Sizes \subseteq SizeType
  /\ Alignments \subseteq Nat \ {0}
  /\ InitialSizes \subseteq SizeType
  /\ UserBuffers \subseteq [residue : 0 .. MaxAlign - 1, size : SizeType]

VARIABLES
  alive,         \* the resource has been constructed and not yet destroyed
  memoryBlocks,  \* m_memory_blocks: [block, size], the last allocated first
  current,       \* m_current_buffer
  currentSize,   \* m_current_buffer_size
  nextSize,      \* m_next_buffer_size
  initial,       \* m_initial_buffer and m_initial_buffer_size
  lent,          \* upstream's own record: size by live buffer
  extents        \* what callers were given since construction or release()

vars == <<alive, memoryBlocks, current, currentSize, nextSize, initial, lent, extents>>

Pointer == [block : BlockIds \cup {NoBlock, UserBlock}, offset : Nat]
Null    == [block |-> NoBlock, offset |-> 0]
NoBuffer == [block |-> NoBlock, residue |-> 0, size |-> 0]

\* The numeric address of a pointer, up to multiples of MaxAlign.
Address(p) == (IF p.block = UserBlock THEN initial.residue ELSE 0) + p.offset

\* The buffer size needed: a power of two, or the request itself where the
\* next power of two is not a size_t.
NextAtLeast(next, bytes) ==
  IF ~(next < bytes) THEN next
  ELSE IF IsPow2(bytes) \/ SizeMax \div 2 < bytes THEN bytes
  ELSE CeilPow2(bytes)

-----------------------------------------------------------------------------
(* remaining_storage *)

\* Faulty form: the offset is aligned, not the address.
WastedAtOffset(alignment) ==
  (alignment - (current.offset % alignment)) % alignment

WastedDueToAlignment(alignment) ==
  (alignment - (Address(current) % alignment)) % alignment

\* Faulty form: the bytes lost to alignment are not counted.
RemainingIgnoringWaste(alignment) == currentSize

RemainingStorage(alignment) ==
  LET wasted == WastedDueToAlignment(alignment)
  IN  IF currentSize <= wasted THEN 0 ELSE currentSize - wasted

-----------------------------------------------------------------------------
(* Construction *)

Init ==
  /\ alive = FALSE
  /\ memoryBlocks = <<>>
  /\ current = Null
  /\ currentSize = 0
  /\ nextSize = 0
  /\ initial = NoBuffer
  /\ lent = [b \in {} |-> 0]
  /\ extents = {}

ConstructWith(buffer, next) ==
  /\ ~alive
  /\ alive' = TRUE
  /\ initial' = buffer
  /\ current' = [block |-> buffer.block, offset |-> 0]
  /\ currentSize' = buffer.size
  /\ nextSize' = next
  /\ UNCHANGED <<memoryBlocks, lent, extents>>

ConstructDefault == ConstructWith(NoBuffer, InitialNextBufferSize)

ConstructInitialSize ==
  \E size \in InitialSizes :
    ConstructWith(NoBuffer, NextAtLeast(MinimumBufferSize, IF size = 0 THEN 1 ELSE size))

ConstructBuffer ==
  \E b \in UserBuffers :
    ConstructWith([block |-> UserBlock, residue |-> b.residue, size |-> b.size],
                  DoubleSaturated(FloorPow2(Larger(b.size, InitialNextBufferSize))))

-----------------------------------------------------------------------------
(* do_allocate *)

\* Faulty form: the waste is not skipped in m_current_buffer.
AllocateForgettingAligner(from, size, aligner, bytes, alignment) ==
  LET p == [from EXCEPT !.offset = @ + aligner]
  IN  /\ extents' = extents \cup {[at |-> p, bytes |-> bytes, alignment |-> alignment]}
      /\ current' = [from EXCEPT !.offset = @ + bytes]
      /\ currentSize' = MinusWrap(size, Wrap(aligner + bytes))

\* allocate_from_current: no check of its own, the subtraction is a size_t's.
AllocateFromCurrent(from, size, aligner, bytes, alignment) ==
  LET p == [from EXCEPT !.offset = @ + aligner]
  IN  /\ extents' = extents \cup {[at |-> p, bytes |-> bytes, alignment |-> alignment]}
      /\ current' = [p EXCEPT !.offset = @ + bytes]
      /\ currentSize' = MinusWrap(size, Wrap(aligner + bytes))

AllocateFits(bytes, alignment) ==
  /\ alive /\ alignment <= MaxAlign
  /\ bytes <= RemainingStorage(alignment)
  /\ AllocateFromCurrent(current, currentSize, WastedDueToAlignment(alignment), bytes, alignment)
  /\ UNCHANGED <<alive, memoryBlocks, nextSize, initial, lent>>

\* Faulty form: the header records the payload, not what upstream gave.
LinkedPayload(b, size) == <<[block |-> b, size |-> size]>> \o memoryBlocks

\* block_slist_base::allocate: the header holds size + header_size and is
\* linked after the list's anchor.
Linked(b, size) == <<[block |-> b, size |-> size + HeaderSize]>> \o memoryBlocks

\* The buffer is too small and upstream gives a new one,
\* aligned to the strictest alignment; the payload starts after the header.
AllocateNewBuffer(bytes, alignment) ==
  /\ alive /\ alignment <= MaxAlign
  /\ RemainingStorage(alignment) < bytes
  /\ LET next == NextAtLeast(nextSize, bytes) IN
     /\ next <= SizeMax - HeaderSize
     /\ \E b \in BlockIds \ DOMAIN lent :
          /\ lent' = [x \in DOMAIN lent \cup {b} |->
                        IF x = b THEN next + HeaderSize ELSE lent[x]]
          /\ memoryBlocks' = Linked(b, next)
          /\ AllocateFromCurrent([block |-> b, offset |-> HeaderSize], next, 0, bytes, alignment)
     /\ nextSize' = DoubleSaturated(next)
  /\ UNCHANGED <<alive, initial>>

\* Faulty form: m_current_buffer_size is assigned before upstream is asked.
ThrowAfterResizing(bytes, alignment) ==
  /\ alive /\ alignment <= MaxAlign
  /\ RemainingStorage(alignment) < bytes
  /\ nextSize' = NextAtLeast(nextSize, bytes)
  /\ currentSize' = nextSize'
  /\ UNCHANGED <<alive, memoryBlocks, current, initial, lent, extents>>

\* A throw after the buffer was found too small: by then m_next_buffer_size
\* has been raised and stays raised, and nothing else has changed.
ThrowAfterRaising(bytes, alignment) ==
  /\ alive /\ alignment <= MaxAlign
  /\ RemainingStorage(alignment) < bytes
  /\ nextSize' = NextAtLeast(nextSize, bytes)
  /\ UNCHANGED <<alive, memoryBlocks, current, currentSize, initial, lent, extents>>

\* block_slist_base::allocate: size + header_size is not a size_t.
AllocateTooLarge(bytes, alignment) ==
  /\ SizeMax - HeaderSize < NextAtLeast(nextSize, bytes)
  /\ ThrowAfterRaising(bytes, alignment)

\* mr.allocate(size + header_size) throws.
AllocateUpstreamThrows(bytes, alignment) ==
  /\ NextAtLeast(nextSize, bytes) <= SizeMax - HeaderSize
  /\ ThrowAfterRaising(bytes, alignment)

\* alignment > max_align: bad_alloc before anything is touched.
AllocateOveraligned(alignment) ==
  /\ alive /\ alignment > MaxAlign
  /\ UNCHANGED vars

-----------------------------------------------------------------------------
(* deallocate, release and destruction *)

\* do_deallocate has no effect; the caller may no longer use the extent, and
\* the resource never gives those bytes out again, so they stay in extents.
Deallocate(e) == /\ alive
                 /\ e \in extents
                 /\ UNCHANGED vars

\* block_slist_base::release walks the list and deallocates each node with
\* the size in its header.
UpstreamAfterRelease ==
  [x \in {b \in DOMAIN lent :
            ~ \E i \in DOMAIN memoryBlocks :
                memoryBlocks[i] = [block |-> b, size |-> lent[b]]} |-> lent[x]]

ReleaseBody ==
  /\ lent' = UpstreamAfterRelease
  /\ memoryBlocks' = <<>>
  /\ current' = [block |-> initial.block, offset |-> 0]
  /\ currentSize' = initial.size
  /\ nextSize' = InitialNextBufferSize
  /\ extents' = {}

Release == alive /\ ReleaseBody /\ UNCHANGED <<alive, initial>>

\* ~monotonic_buffer_resource calls release(); the storage of the object is
\* then free for the next construction.
Destroy ==
  /\ alive
  /\ alive' = FALSE
  /\ lent' = UpstreamAfterRelease
  /\ memoryBlocks' = <<>>
  /\ current' = Null /\ currentSize' = 0 /\ nextSize' = 0 /\ initial' = NoBuffer
  /\ extents' = {}

-----------------------------------------------------------------------------
Allocate(bytes, alignment) ==
  \/ AllocateFits(bytes, alignment)
  \/ AllocateNewBuffer(bytes, alignment)
  \/ AllocateTooLarge(bytes, alignment)
  \/ AllocateUpstreamThrows(bytes, alignment)

Next ==
  \/ ConstructDefault \/ ConstructInitialSize \/ ConstructBuffer
  \/ \E bytes \in Sizes, alignment \in Alignments : Allocate(bytes, alignment)
  \/ \E alignment \in Alignments : AllocateOveraligned(alignment)
  \/ \E e \in extents : Deallocate(e)
  \/ Release
  \/ Destroy

Spec == Init /\ [][Next]_vars

-----------------------------------------------------------------------------
(* Properties *)

LiveBlocks == DOMAIN lent \cup ({initial.block} \ {NoBlock})

\* One past the last byte of a live buffer.
BufferEnd(b) == IF b = UserBlock THEN initial.size
                ELSE IF b \in DOMAIN lent THEN lent[b] ELSE 0

\* First byte of a buffer that may be given to a caller.
BufferStart(b) == IF b \in BlockIds THEN HeaderSize ELSE 0

Extent == [at : Pointer, bytes : Sizes, alignment : Alignments]

TypeOK ==
  /\ alive \in BOOLEAN
  /\ memoryBlocks \in Seq([block : BlockIds, size : SizeType])
  /\ current \in Pointer
  /\ currentSize \in SizeType /\ nextSize \in SizeType
  /\ initial \in [block : {NoBlock, UserBlock}, residue : Nat, size : SizeType]
  /\ DOMAIN lent \subseteq BlockIds /\ \A b \in DOMAIN lent : lent[b] \in SizeType
  /\ extents \subseteq Extent

\* Extents overlap as any memory_resource's do.
Promise == INSTANCE MemoryResource WITH outstanding <- extents

\* Every byte handed out lies in a live buffer, after the block header and
\* before the buffer's end (allocate_from_current checks nothing itself: it
\* relies on remaining_storage and on the size_t subtraction not wrapping).
ExtentsInBuffers ==
  \A e \in extents : e.bytes > 0 =>
    /\ e.at.block \in LiveBlocks
    /\ BufferStart(e.at.block) <= e.at.offset
    /\ e.at.offset + e.bytes <= BufferEnd(e.at.block)

\* No byte is handed out twice between two calls of release().
ExtentsDisjoint ==
  \A e, f \in extents : e # f => ~Promise!Overlap(e, f)

\* remaining_storage and the reset of the aligner for a fresh buffer yield an
\* address with the alignment asked for, in upstream buffers (whose payload
\* starts HeaderSize after a max_align boundary) and in a misaligned buffer
\* of the caller.
ExtentsAligned ==
  \A e \in extents : Address(e.at) % e.alignment = 0

\* The list the resource frees from and upstream's record agree: nothing is
\* leaked, and every block is given back with the size it was allocated with.
NothingLeaked ==
  /\ \A i, j \in DOMAIN memoryBlocks :
       i # j => memoryBlocks[i].block # memoryBlocks[j].block
  /\ \A i \in DOMAIN memoryBlocks :
       memoryBlocks[i].block \in DOMAIN lent /\ lent[memoryBlocks[i].block] = memoryBlocks[i].size
  /\ \A b \in DOMAIN lent : \E i \in DOMAIN memoryBlocks : memoryBlocks[i].block = b
  /\ ~alive => lent = [b \in {} |-> 0]

\* The room left in the current buffer always ends where that buffer ends:
\* no bytes are lost to a failed call, to alignment waste counted twice or to
\* a buffer switched without its size.
RoomAccounted ==
  /\ current.block \in LiveBlocks \cup {NoBlock}
  /\ current.offset + currentSize = BufferEnd(current.block)

=============================================================================
