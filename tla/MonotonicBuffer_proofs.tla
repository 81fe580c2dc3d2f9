------------------------ MODULE MonotonicBuffer_proofs ------------------------
(***************************************************************************)
(* Proofs about MonotonicBuffer, for every size_t width, set of buffers,   *)
(* request sizes and alignments.  The one restriction is NoZeroSizes: a    *)
(* request of zero bytes can wrap m_current_buffer_size (the run           *)
(* monotonic_zero shows it), so the theorems are about callers that do not *)
(* make one.                                                               *)
(***************************************************************************)
EXTENDS MonotonicBuffer, SizeT_proofs, TLAPS

NoZeroSizes == 0 \notin Sizes

\* header_size is sizeof(node) rounded up to max_align, and the alignments are
\* powers of two: every alignment that max_align satisfies divides it.
AlignedHeader == \A a \in Alignments : a <= MaxAlign => HeaderSize % a = 0

-----------------------------------------------------------------------------
(* The inductive invariant *)

\* Without an object there is no state.
DeadIsEmpty ==
  ~alive => /\ memoryBlocks = <<>> /\ current = Null /\ currentSize = 0
            /\ initial = NoBuffer /\ lent = [b \in {} |-> 0] /\ extents = {}

\* The caller's buffer, if any, is the one the pointers call UserBlock.
InitialConsistent == initial.block = NoBlock => initial.size = 0

\* Below m_current_buffer everything has been given out, above it nothing.
ExtentsBelowCurrent ==
  \A e \in extents : e.at.block = current.block =>
    e.at.offset + e.bytes <= current.offset

CurrentAfterHeader == BufferStart(current.block) <= current.offset

IInv ==
  /\ TypeOK /\ DeadIsEmpty /\ InitialConsistent
  /\ ExtentsInBuffers /\ ExtentsDisjoint
  /\ RoomAccounted /\ NothingLeaked /\ ExtentsBelowCurrent /\ CurrentAfterHeader

-----------------------------------------------------------------------------
(* Lemmas about the operators of do_allocate *)

\* The bytes lost to alignment are a natural number.
LEMMA WastedType ==
  ASSUME TypeOK, NEW alignment \in Alignments
  PROVE  WastedDueToAlignment(alignment) \in Nat
  <1>1. Address(current) \in Nat
    BY DEF TypeOK, Address, Pointer
  <1>2. alignment \in Nat \ {0}
    BY MonotonicAssumption
  <1> DEFINE a == Address(current)
  <1>3. a % alignment \in 0 .. alignment - 1
    <2> HIDE DEF a
    <2> QED BY <1>1, <1>2 DEF a
  <1>4. alignment - (a % alignment) \in Nat
    BY <1>2, <1>3
  <1> DEFINE d == alignment - (a % alignment)
  <1>5. d % alignment \in Nat
    <2> HIDE DEF d
    <2> QED BY <1>2, <1>4 DEF d
  <1> QED BY <1>5 DEF WastedDueToAlignment

\* A non-zero request that passes the test of do_allocate fits after the
\* aligner, so the size_t subtraction of allocate_from_current does not wrap.
LEMMA FitsDoesNotWrap ==
  ASSUME TypeOK, NEW alignment \in Alignments, NEW bytes \in Sizes, 0 < bytes,
         bytes <= RemainingStorage(alignment)
  PROVE  LET used == WastedDueToAlignment(alignment) + bytes
         IN  /\ used \in Nat /\ used <= currentSize
             /\ MinusWrap(currentSize, Wrap(used)) = currentSize - used
  <1> DEFINE w == WastedDueToAlignment(alignment)
             used == w + bytes
  <1>1. w \in Nat
    BY WastedType
  <1>2. bytes \in Nat /\ currentSize \in Nat /\ currentSize <= SizeMax /\ SizeMax \in Nat
    BY MonotonicAssumption, SizeMaxNat DEF TypeOK, SizeType
  <1>3. used \in Nat /\ used <= currentSize
    <2> HIDE DEF w
    <2> QED BY <1>1, <1>2 DEF RemainingStorage, w
  <1>4. used % (SizeMax + 1) = used
    <2> HIDE DEF used
    <2> QED BY <1>2, <1>3
  <1>5. MinusWrap(currentSize, Wrap(used)) = currentSize - used
    <2> HIDE DEF used
    <2> QED BY <1>2, <1>3, <1>4 DEF MinusWrap, Wrap
  <1> QED BY <1>3, <1>5

\* The next buffer size stays a size_t and covers the request.
LEMMA NextAtLeastBounds ==
  ASSUME NEW next \in SizeType, NEW bytes \in SizeType
  PROVE  LET n == NextAtLeast(next, bytes)
         IN  n \in SizeType /\ bytes <= n /\ next <= n
  <1>1. next \in Nat /\ bytes \in Nat /\ SizeMax \in Nat /\ HighBit \in Nat /\ next <= SizeMax /\ bytes <= SizeMax
    BY SizeMaxNat DEF SizeType
  <1>2. CASE next < bytes /\ ~ IsPow2(bytes) /\ ~ (SizeMax \div 2 < bytes)
    <2>1. bytes <= HighBit /\ HighBit <= SizeMax
      BY <1>1, <1>2 DEF SizeMax
    <2>2. CeilPow2(bytes) \in Pow2s /\ bytes <= CeilPow2(bytes) /\ CeilPow2(bytes) <= HighBit
      BY <1>1, <2>1, CeilPow2Bounds
    <2>3. CeilPow2(bytes) \in Nat
      BY <2>2, PowersAssumption DEF Pow2s
    <2> QED BY <1>1, <1>2, <2>1, <2>2, <2>3 DEF NextAtLeast, SizeType
  <1>3. CASE ~ (next < bytes /\ ~ IsPow2(bytes) /\ ~ (SizeMax \div 2 < bytes))
    BY <1>1, <1>3 DEF NextAtLeast, SizeType
  <1> QED BY <1>2, <1>3

\* The numbers in an extent are naturals, so its end is one too.
LEMMA ExtentNumbers ==
  ASSUME TypeOK, NEW f \in extents
  PROVE  f.at.offset \in Nat /\ f.bytes \in Nat /\ f.at.offset + f.bytes \in Nat
  <1>1. f \in Extent
    BY DEF TypeOK
  <1>2. f.at.offset \in Nat /\ f.bytes \in Sizes
    BY <1>1 DEF Extent, Pointer
  <1>3. \A s \in Sizes : s \in Nat
    BY MonotonicAssumption, SizeMaxNat DEF SizeType
  <1>4. f.bytes \in Nat
    BY <1>2, <1>3
  <1>5. \A m, n \in Nat : m + n \in Nat
    OBVIOUS
  <1> QED BY <1>2, <1>4, <1>5

-----------------------------------------------------------------------------
(* One lemma per action *)

LEMMA InitIInv == Init => IInv
  <1> SUFFICES ASSUME Init PROVE IInv
    OBVIOUS
  <1>1. TypeOK
    <2>1. 0 \in SizeType
      BY SizeMaxNat DEF SizeType
    <2>2. memoryBlocks \in Seq([block : BlockIds, size : SizeType])
      BY DEF Init
    <2>3. current \in Pointer
      BY DEF Init, Null, Pointer
    <2>4. initial \in [block : {NoBlock, UserBlock}, residue : Nat, size : SizeType]
      BY <2>1 DEF Init, NoBuffer
    <2>5. DOMAIN lent = {}
      BY DEF Init
    <2> QED BY <2>1, <2>2, <2>3, <2>4, <2>5 DEF Init, TypeOK
  <1>2. DeadIsEmpty /\ InitialConsistent /\ NothingLeaked
    BY DEF Init, DeadIsEmpty, InitialConsistent, NothingLeaked, NoBuffer
  <1>3. ExtentsInBuffers /\ ExtentsDisjoint /\ ExtentsBelowCurrent
    BY DEF Init, ExtentsInBuffers, ExtentsDisjoint, ExtentsBelowCurrent
  <1>4. RoomAccounted /\ CurrentAfterHeader
    BY MonotonicAssumption
    DEF Init, Null, NoBuffer, RoomAccounted, CurrentAfterHeader, BufferEnd, BufferStart, LiveBlocks
  <1> QED BY <1>1, <1>2, <1>3, <1>4 DEF IInv

\* A constructor gives an object with the caller's buffer or none.
LEMMA ConstructStep ==
  ASSUME IInv, NEW buffer, NEW next \in SizeType, ConstructWith(buffer, next),
         \/ buffer = NoBuffer
         \/ /\ buffer \in [block : {UserBlock}, residue : Nat, size : SizeType]
  PROVE  IInv'
  <1>1. /\ memoryBlocks = <<>> /\ memoryBlocks' = <<>> /\ extents = {} /\ extents' = {}
        /\ lent = [b \in {} |-> 0] /\ lent' = lent /\ alive'
        /\ initial' = buffer /\ current' = [block |-> buffer.block, offset |-> 0]
        /\ currentSize' = buffer.size /\ nextSize' = next
    BY DEF ConstructWith, IInv, DeadIsEmpty
  <1>2. TypeOK'
    BY <1>1, SizeMaxNat DEF TypeOK, NoBuffer, Pointer, SizeType, IInv
  <1>3. DeadIsEmpty' /\ InitialConsistent' /\ NothingLeaked'
    BY <1>1, MonotonicAssumption DEF DeadIsEmpty, InitialConsistent, NothingLeaked, NoBuffer
  <1>4. ExtentsInBuffers' /\ ExtentsDisjoint' /\ ExtentsBelowCurrent'
    BY <1>1 DEF ExtentsInBuffers, ExtentsDisjoint, ExtentsBelowCurrent
  <1>5. RoomAccounted' /\ CurrentAfterHeader'
    BY <1>1, MonotonicAssumption, SizeMaxNat
    DEF NoBuffer, RoomAccounted, CurrentAfterHeader, BufferEnd, BufferStart, LiveBlocks, SizeType
  <1> QED BY <1>2, <1>3, <1>4, <1>5 DEF IInv

\* An allocation from the current buffer.
LEMMA FitsStep ==
  ASSUME IInv, NoZeroSizes, NEW bytes \in Sizes, NEW alignment \in Alignments,
         AllocateFits(bytes, alignment)
  PROVE  IInv'
  <1> DEFINE w == WastedDueToAlignment(alignment)
             e == [at |-> [current EXCEPT !.offset = @ + w], bytes |-> bytes,
                   alignment |-> alignment]
  <1> USE DEF IInv
  <1>1. bytes \in Nat /\ 0 < bytes
    BY MonotonicAssumption, SizeMaxNat DEF NoZeroSizes, SizeType
  <1>2. w \in Nat
    BY WastedType
  <1>3. /\ w + bytes <= currentSize
        /\ MinusWrap(currentSize, Wrap(w + bytes)) = currentSize - (w + bytes)
    BY <1>1, FitsDoesNotWrap DEF AllocateFits
  <1>4. /\ currentSize' = currentSize - (w + bytes)
        /\ extents' = extents \cup {e}
        /\ current' = [current EXCEPT !.offset = (@ + w) + bytes]
        /\ UNCHANGED <<alive, memoryBlocks, nextSize, initial, lent>>
    BY <1>3 DEF AllocateFits, AllocateFromCurrent, TypeOK, Pointer
  <1>5. /\ current \in Pointer /\ currentSize \in Nat /\ currentSize <= SizeMax /\ SizeMax \in Nat
        /\ current.offset \in Nat
    BY SizeMaxNat DEF TypeOK, SizeType, Pointer
  <1> HIDE DEF w
  <1>6. /\ e.at.block = current.block /\ e.at.offset = current.offset + w
        /\ e.bytes = bytes /\ e \in Extent
        /\ current'.block = current.block
        /\ current'.offset = current.offset + w + bytes
        /\ current' \in Pointer
    BY <1>1, <1>2, <1>4, <1>5 DEF Pointer, Extent
  <1> HIDE DEF e
  <1>7. TypeOK'
    <2>1. currentSize' \in SizeType
      BY <1>1, <1>2, <1>3, <1>4, <1>5 DEF SizeType
    <2> QED BY <1>4, <1>6, <2>1 DEF TypeOK
  <1>8. current.block \in LiveBlocks /\ current.block # NoBlock
    BY <1>1, <1>2, <1>3, <1>5, MonotonicAssumption
    DEF RoomAccounted, LiveBlocks, BufferEnd, TypeOK, InitialConsistent
  <1>9. DeadIsEmpty' /\ InitialConsistent' /\ NothingLeaked'
    <2>1. alive
      BY DEF AllocateFits
    <2> QED BY <1>4, <2>1 DEF DeadIsEmpty, InitialConsistent, NothingLeaked
  <1>10. LiveBlocks' = LiveBlocks /\ \A b : BufferEnd(b)' = BufferEnd(b) /\ BufferStart(b)' = BufferStart(b)
    BY <1>4 DEF LiveBlocks, BufferEnd, BufferStart
  <1>11. RoomAccounted' /\ CurrentAfterHeader'
    <2>1. BufferStart(current.block) \in Nat
      BY MonotonicAssumption DEF BufferStart
    <2> QED BY <1>1, <1>2, <1>3, <1>4, <1>5, <1>6, <1>10, <2>1
        DEF RoomAccounted, CurrentAfterHeader, BufferEnd, BufferStart, LiveBlocks
  <1>12. /\ BufferStart(e.at.block) <= e.at.offset
         /\ e.at.offset + e.bytes <= BufferEnd(e.at.block)
    <2>1. BufferStart(current.block) \in Nat
      BY MonotonicAssumption DEF BufferStart
    <2>2. current.offset + currentSize = BufferEnd(current.block)
      BY DEF RoomAccounted
    <2> QED BY <1>1, <1>2, <1>3, <1>5, <1>6, <2>1, <2>2 DEF CurrentAfterHeader
  <1>13. ExtentsInBuffers'
    BY <1>4, <1>6, <1>8, <1>10, <1>12 DEF ExtentsInBuffers, BufferEnd, BufferStart, LiveBlocks
  <1>14. ExtentsBelowCurrent'
    <2> SUFFICES ASSUME NEW f \in extents', f.at.block = current'.block
                 PROVE  f.at.offset + f.bytes <= current'.offset
      BY DEF ExtentsBelowCurrent
    <2>1. CASE f = e
      BY <1>1, <1>2, <1>5, <1>6, <2>1
    <2>2. CASE f \in extents
      <3>1. f.at.offset + f.bytes <= current.offset
        BY <1>6, <2>2 DEF ExtentsBelowCurrent
      <3>2. f.at.offset + f.bytes \in Nat
        BY <2>2, ExtentNumbers
      <3> QED BY <1>1, <1>2, <1>5, <1>6, <3>1, <3>2
    <2> QED BY <1>4, <2>1, <2>2
  <1>15. ExtentsDisjoint'
    <2>1. \A f \in extents : ~ Promise!Overlap(e, f) /\ ~ Promise!Overlap(f, e)
      <3> SUFFICES ASSUME NEW f \in extents, f.at.block = current.block
                   PROVE  ~ (e.at.offset < f.at.offset + f.bytes)
        BY <1>6 DEF Promise!Overlap
      <3>1. f.at.offset + f.bytes <= current.offset
        BY DEF ExtentsBelowCurrent
      <3>2. f.at.offset + f.bytes \in Nat
        BY ExtentNumbers
      <3> QED BY <1>2, <1>5, <1>6, <3>1, <3>2
    <2> QED BY <1>4, <2>1 DEF ExtentsDisjoint, Promise!Overlap
  <1> QED BY <1>7, <1>9, <1>11, <1>13, <1>14, <1>15

\* An allocation from a fresh buffer of upstream.
LEMMA NewBufferStep ==
  ASSUME IInv, NoZeroSizes, NEW bytes \in Sizes, NEW alignment \in Alignments,
         AllocateNewBuffer(bytes, alignment)
  PROVE  IInv'
  <1> DEFINE next == NextAtLeast(nextSize, bytes)
             full == next + HeaderSize
  <1> USE DEF IInv
  <1>1. bytes \in Nat /\ 0 < bytes /\ bytes \in SizeType
    BY MonotonicAssumption, SizeMaxNat DEF NoZeroSizes, SizeType
  <1>2. next \in SizeType /\ bytes <= next
    BY <1>1, NextAtLeastBounds DEF TypeOK
  <1>3. HeaderSize \in Nat \ {0} /\ HeaderSize <= SizeMax /\ SizeMax \in Nat
    BY MonotonicAssumption, SizeMaxNat
  <1>4. next \in Nat /\ next <= SizeMax /\ full \in SizeType /\ next <= SizeMax - HeaderSize
    BY <1>2, <1>3 DEF AllocateNewBuffer, SizeType
  <1>5. PICK b \in BlockIds \ DOMAIN lent :
          /\ lent' = [x \in DOMAIN lent \cup {b} |-> IF x = b THEN full ELSE lent[x]]
          /\ memoryBlocks' = Linked(b, next)
          /\ AllocateFromCurrent([block |-> b, offset |-> HeaderSize], next, 0, bytes, alignment)
    BY DEF AllocateNewBuffer
  <1>6. /\ nextSize' = DoubleSaturated(next) /\ nextSize' \in SizeType
        /\ alive /\ UNCHANGED <<alive, initial>>
    BY <1>2, DoubleSaturatedBounds DEF AllocateNewBuffer
  <1> HIDE DEF next, full
  <1>7. full = next + HeaderSize
    BY DEF full
  <1> DEFINE e == [at |-> [block |-> b, offset |-> HeaderSize], bytes |-> bytes,
                   alignment |-> alignment]
  <1>8. /\ extents' = extents \cup {e}
        /\ current' = [block |-> b, offset |-> HeaderSize + bytes]
        /\ currentSize' = next - bytes
    <2>1. bytes % (SizeMax + 1) = bytes
      BY <1>1, <1>3 DEF SizeType
    <2>2. MinusWrap(next, Wrap(0 + bytes)) = next - bytes
      BY <1>1, <1>2, <1>4, <2>1 DEF MinusWrap, Wrap
    <2>3. [[block |-> b, offset |-> HeaderSize] EXCEPT !.offset = @ + 0]
            = [block |-> b, offset |-> HeaderSize]
      BY <1>3
    <2>4. [[block |-> b, offset |-> HeaderSize] EXCEPT !.offset = @ + bytes]
            = [block |-> b, offset |-> HeaderSize + bytes]
      OBVIOUS
    <2> QED BY <1>5, <2>2, <2>3, <2>4 DEF AllocateFromCurrent
  <1>9. /\ e.at.block = b /\ e.at.offset = HeaderSize /\ e.bytes = bytes /\ e \in Extent
        /\ current'.block = b /\ current'.offset = HeaderSize + bytes
        /\ current' \in Pointer
    BY <1>1, <1>3, <1>5, <1>8 DEF Pointer, Extent
  <1> HIDE DEF e
  <1>10. /\ DOMAIN lent' = DOMAIN lent \cup {b} /\ lent'[b] = full
         /\ \A x \in DOMAIN lent : lent'[x] = lent[x] /\ x # b
    BY <1>5
  <1>11. TypeOK'
    <2>1. currentSize' \in SizeType
      BY <1>1, <1>2, <1>3, <1>4, <1>8 DEF SizeType
    <2>2. memoryBlocks' \in Seq([block : BlockIds, size : SizeType])
      BY <1>4, <1>5, <1>7 DEF Linked, TypeOK
    <2>3. DOMAIN lent' \subseteq BlockIds /\ \A x \in DOMAIN lent' : lent'[x] \in SizeType
      BY <1>4, <1>5, <1>10 DEF TypeOK
    <2>4. extents' \subseteq Extent
      BY <1>8, <1>9 DEF TypeOK
    <2> QED BY <1>6, <1>9, <2>1, <2>2, <2>3, <2>4 DEF TypeOK
  <1>12. DeadIsEmpty' /\ InitialConsistent'
    BY <1>6 DEF DeadIsEmpty, InitialConsistent
  <1>13. NothingLeaked'
    <2> DEFINE m == memoryBlocks
    <2>1. /\ m \in Seq([block : BlockIds, size : SizeType])
          /\ m' = <<[block |-> b, size |-> full]>> \o m
      BY <1>5, <1>7 DEF Linked, TypeOK
    <2>2. /\ DOMAIN m' = 1 .. (Len(m) + 1) /\ m'[1] = [block |-> b, size |-> full]
          /\ \A i \in DOMAIN m' : i # 1 => i - 1 \in DOMAIN m /\ m'[i] = m[i - 1]
          /\ \A i \in DOMAIN m : i + 1 \in DOMAIN m' /\ m'[i + 1] = m[i]
      BY <2>1
    <2>3. \A i, j \in DOMAIN m' : i # j => m'[i].block # m'[j].block
      BY <1>10, <2>1, <2>2 DEF NothingLeaked
    <2>4. \A i \in DOMAIN m' : m'[i].block \in DOMAIN lent' /\ lent'[m'[i].block] = m'[i].size
      BY <1>10, <2>2 DEF NothingLeaked
    <2>5. \A x \in DOMAIN lent' : \E i \in DOMAIN m' : m'[i].block = x
      <3> SUFFICES ASSUME NEW x \in DOMAIN lent' PROVE \E i \in DOMAIN m' : m'[i].block = x
        OBVIOUS
      <3>1. CASE x = b
        <4>1. 1 \in DOMAIN m'
          BY <2>1, <2>2
        <4> QED BY <2>2, <3>1, <4>1
      <3>2. CASE x \in DOMAIN lent
        BY <2>2, <3>2 DEF NothingLeaked
      <3> QED BY <1>10, <3>1, <3>2
    <2> QED BY <1>6, <2>3, <2>4, <2>5 DEF NothingLeaked
  <1>14. b # UserBlock /\ b # NoBlock
    BY <1>5, MonotonicAssumption
  <1>15. RoomAccounted' /\ CurrentAfterHeader'
    BY <1>1, <1>3, <1>4, <1>5, <1>7, <1>8, <1>9, <1>10, <1>14
    DEF RoomAccounted, CurrentAfterHeader, BufferEnd, BufferStart, LiveBlocks
  <1>16. \A f \in extents : f.at.block # b /\ f.bytes > 0
    <2> SUFFICES ASSUME NEW f \in extents PROVE f.at.block # b /\ f.bytes > 0
      OBVIOUS
    <2>1. f.bytes > 0
      <3>1. f.bytes \in Sizes
        BY DEF TypeOK, Extent
      <3>2. \A s \in Sizes : s > 0
        BY MonotonicAssumption, SizeMaxNat DEF NoZeroSizes, SizeType
      <3> QED BY <3>1, <3>2
    <2>2. f.at.block \in LiveBlocks
      BY <2>1 DEF ExtentsInBuffers
    <2>3. b \notin LiveBlocks
      BY <1>5, <1>14 DEF LiveBlocks, TypeOK
    <2> QED BY <2>1, <2>2, <2>3
  <1>17. ExtentsInBuffers'
    <2> SUFFICES ASSUME NEW f \in extents', f.bytes > 0
                 PROVE  /\ f.at.block \in LiveBlocks'
                        /\ BufferStart(f.at.block) <= f.at.offset
                        /\ f.at.offset + f.bytes <= BufferEnd(f.at.block)'
      BY DEF ExtentsInBuffers, BufferStart
    <2>1. CASE f = e
      BY <1>1, <1>2, <1>3, <1>4, <1>5, <1>7, <1>9, <1>10, <1>14, <2>1 DEF LiveBlocks, BufferStart, BufferEnd
    <2>2. CASE f \in extents
      <3>1. /\ f.at.block \in LiveBlocks /\ BufferStart(f.at.block) <= f.at.offset
            /\ f.at.offset + f.bytes <= BufferEnd(f.at.block)
        BY <2>2 DEF ExtentsInBuffers
      <3>2. BufferEnd(f.at.block)' = BufferEnd(f.at.block)
        BY <1>6, <1>10, <1>16, <2>2 DEF BufferEnd
      <3>3. f.at.block \in LiveBlocks'
        BY <1>6, <1>10, <3>1 DEF LiveBlocks
      <3> QED BY <3>1, <3>2, <3>3
    <2> QED BY <1>8, <2>1, <2>2
  <1>18. ExtentsBelowCurrent'
    BY <1>1, <1>3, <1>8, <1>9, <1>16 DEF ExtentsBelowCurrent
  <1>19. ExtentsDisjoint'
    BY <1>8, <1>9, <1>16 DEF ExtentsDisjoint, Promise!Overlap
  <1> QED BY <1>11, <1>12, <1>13, <1>15, <1>17, <1>18, <1>19

\* A throw, with or without upstream's help.
LEMMA ThrowStep ==
  ASSUME IInv, NEW bytes \in Sizes, NEW alignment \in Alignments,
         ThrowAfterRaising(bytes, alignment)
  PROVE  IInv'
  <1>1. bytes \in SizeType
    BY MonotonicAssumption
  <1>2. nextSize' \in SizeType
    BY <1>1, NextAtLeastBounds DEF ThrowAfterRaising, IInv, TypeOK
  <1>3. UNCHANGED <<alive, memoryBlocks, current, currentSize, initial, lent, extents>>
    BY DEF ThrowAfterRaising
  <1> QED BY <1>2, <1>3
      DEF IInv, TypeOK, DeadIsEmpty, InitialConsistent, ExtentsInBuffers, ExtentsDisjoint,
          RoomAccounted, NothingLeaked, ExtentsBelowCurrent, CurrentAfterHeader,
          BufferEnd, BufferStart, LiveBlocks

\* Walking the list gives every block back to upstream.
LEMMA ReleaseGivesAllBack ==
  ASSUME IInv
  PROVE  UpstreamAfterRelease = [b \in {} |-> 0]
  <1>1. memoryBlocks \in Seq([block : BlockIds, size : SizeType])
    BY DEF IInv, TypeOK
  <1>2. \A i \in DOMAIN memoryBlocks :
          memoryBlocks[i] = [block |-> memoryBlocks[i].block, size |-> memoryBlocks[i].size]
    <2> SUFFICES ASSUME NEW i \in DOMAIN memoryBlocks
                 PROVE  memoryBlocks[i] = [block |-> memoryBlocks[i].block,
                                           size |-> memoryBlocks[i].size]
      OBVIOUS
    <2> DEFINE B == [block : BlockIds, size : SizeType]
    <2>1. memoryBlocks[i] \in B
      <3> HIDE DEF B
      <3>1. memoryBlocks \in Seq(B)
        BY <1>1 DEF B
      <3>2. i \in 1 .. Len(memoryBlocks)
        BY <3>1
      <3> QED BY <3>1, <3>2
    <2> QED BY <2>1
  <1>3. \A b \in DOMAIN lent : \E i \in DOMAIN memoryBlocks :
          memoryBlocks[i] = [block |-> b, size |-> lent[b]]
    BY <1>2 DEF IInv, NothingLeaked
  <1>4. {b \in DOMAIN lent : ~ \E i \in DOMAIN memoryBlocks :
           memoryBlocks[i] = [block |-> b, size |-> lent[b]]} = {}
    BY <1>3
  <1> QED BY <1>4 DEF UpstreamAfterRelease

\* What release() leaves satisfies the invariant, whatever it started from.
LEMMA ReleaseStep ==
  ASSUME IInv, Release
  PROVE  IInv'
  <1>1. /\ lent' = [b \in {} |-> 0] /\ memoryBlocks' = <<>> /\ extents' = {}
        /\ current' = [block |-> initial.block, offset |-> 0]
        /\ currentSize' = initial.size /\ nextSize' = InitialNextBufferSize
        /\ alive' /\ alive' = alive /\ initial' = initial
    BY ReleaseGivesAllBack DEF Release, ReleaseBody
  <1>2. initial \in [block : {NoBlock, UserBlock}, residue : Nat, size : SizeType]
    BY DEF IInv, TypeOK
  <1>3. TypeOK'
    BY <1>1, <1>2, MonotonicAssumption DEF TypeOK, Pointer, IInv
  <1>4. DeadIsEmpty' /\ InitialConsistent' /\ NothingLeaked'
    BY <1>1 DEF DeadIsEmpty, InitialConsistent, NothingLeaked, IInv
  <1>5. ExtentsInBuffers' /\ ExtentsDisjoint' /\ ExtentsBelowCurrent'
    BY <1>1 DEF ExtentsInBuffers, ExtentsDisjoint, ExtentsBelowCurrent
  <1>6. RoomAccounted' /\ CurrentAfterHeader'
    <2>1. initial.size \in Nat
      BY <1>2, SizeMaxNat DEF SizeType
    <2>2. initial.block = NoBlock => initial.size = 0
      BY DEF IInv, InitialConsistent
    <2> QED BY <1>1, <1>2, <2>1, <2>2, MonotonicAssumption
        DEF RoomAccounted, CurrentAfterHeader, BufferEnd, BufferStart, LiveBlocks
  <1> QED BY <1>3, <1>4, <1>5, <1>6 DEF IInv

\* Destruction is release() and the end of the object.
LEMMA DestroyStep ==
  ASSUME IInv, Destroy
  PROVE  IInv'
  <1>1. /\ lent' = [b \in {} |-> 0] /\ memoryBlocks' = <<>> /\ extents' = {}
        /\ current' = Null /\ currentSize' = 0 /\ nextSize' = 0 /\ initial' = NoBuffer
        /\ alive' = FALSE
    BY ReleaseGivesAllBack DEF Destroy
  <1>2. 0 \in SizeType
    BY SizeMaxNat DEF SizeType
  <1>3. TypeOK'
    <2>1. DOMAIN lent' = {}
      BY <1>1
    <2>2. memoryBlocks' \in Seq([block : BlockIds, size : SizeType])
      BY <1>1
    <2> QED BY <1>1, <1>2, <2>1, <2>2 DEF TypeOK, Pointer, Null, NoBuffer
  <1>4. DeadIsEmpty' /\ InitialConsistent' /\ NothingLeaked'
    BY <1>1 DEF DeadIsEmpty, InitialConsistent, NothingLeaked, NoBuffer
  <1>5. ExtentsInBuffers' /\ ExtentsDisjoint' /\ ExtentsBelowCurrent'
    BY <1>1 DEF ExtentsInBuffers, ExtentsDisjoint, ExtentsBelowCurrent
  <1>6. RoomAccounted' /\ CurrentAfterHeader'
    BY <1>1, MonotonicAssumption
    DEF Null, NoBuffer, RoomAccounted, CurrentAfterHeader, BufferEnd, BufferStart, LiveBlocks
  <1> QED BY <1>3, <1>4, <1>5, <1>6 DEF IInv

\* Every step of the resource preserves the invariant.
LEMMA NextIInv ==
  ASSUME NoZeroSizes
  PROVE  IInv /\ [Next]_vars => IInv'
  <1> SUFFICES ASSUME IInv, [Next]_vars PROVE IInv'
    OBVIOUS
  <1>1. CASE ConstructDefault
    <2>1. InitialNextBufferSize \in SizeType
      BY MonotonicAssumption
    <2> QED BY <1>1, <2>1, ConstructStep DEF ConstructDefault
  <1>2. CASE ConstructInitialSize
    <2>1. PICK size \in InitialSizes :
            ConstructWith(NoBuffer, NextAtLeast(MinimumBufferSize, IF size = 0 THEN 1 ELSE size))
      BY <1>2 DEF ConstructInitialSize
    <2>2. (IF size = 0 THEN 1 ELSE size) \in SizeType /\ MinimumBufferSize \in SizeType
      BY MonotonicAssumption, SizeMaxNat DEF SizeType
    <2>3. NextAtLeast(MinimumBufferSize, IF size = 0 THEN 1 ELSE size) \in SizeType
      BY <2>2, NextAtLeastBounds
    <2> QED BY <2>1, <2>3, ConstructStep
  <1>3. CASE ConstructBuffer
    <2> DEFINE next(b) == DoubleSaturated(FloorPow2(Larger(b.size, InitialNextBufferSize)))
    <2>1. PICK b \in UserBuffers :
            ConstructWith([block |-> UserBlock, residue |-> b.residue, size |-> b.size], next(b))
      BY <1>3 DEF ConstructBuffer
    <2>2. /\ b.residue \in Nat /\ b.size \in SizeType
          /\ InitialNextBufferSize \in SizeType \ {0}
      BY MonotonicAssumption
    <2> DEFINE larger == Larger(b.size, InitialNextBufferSize)
    <2>3. larger \in SizeType /\ 0 < larger
      BY <2>2, SizeMaxNat DEF Larger, SizeType
    <2> HIDE DEF larger
    <2>4. FloorPow2(larger) \in SizeType
      <3>1. FloorPow2(larger) \in Pow2s /\ FloorPow2(larger) <= larger
        BY <2>3, FloorPow2Bounds
      <3> QED BY <2>3, <3>1, PowersAssumption, SizeMaxNat DEF Pow2s, SizeType
    <2>5. next(b) \in SizeType
      BY <2>4, DoubleSaturatedBounds DEF larger
    <2> HIDE DEF next
    <2> QED BY <2>1, <2>2, <2>5, ConstructStep
  <1>4. CASE \E bytes \in Sizes, alignment \in Alignments : Allocate(bytes, alignment)
    <2>1. PICK bytes \in Sizes, alignment \in Alignments : Allocate(bytes, alignment)
      BY <1>4
    <2> QED BY <2>1, FitsStep, NewBufferStep, ThrowStep
        DEF Allocate, AllocateTooLarge, AllocateUpstreamThrows
  <1>5. CASE UNCHANGED vars
    BY <1>5
    DEF vars, IInv, TypeOK, DeadIsEmpty, InitialConsistent, ExtentsInBuffers, ExtentsDisjoint,
        RoomAccounted, NothingLeaked, ExtentsBelowCurrent, CurrentAfterHeader,
        BufferEnd, BufferStart, LiveBlocks
  <1>6. CASE \E alignment \in Alignments : AllocateOveraligned(alignment)
    BY <1>5, <1>6 DEF AllocateOveraligned
  <1>7. CASE \E e \in extents : Deallocate(e)
    BY <1>5, <1>7 DEF Deallocate
  <1>8. CASE Release
    BY <1>8, ReleaseStep
  <1>9. CASE Destroy
    BY <1>9, DestroyStep
  <1> QED BY <1>1, <1>2, <1>3, <1>4, <1>5, <1>6, <1>7, <1>8, <1>9 DEF Next

-----------------------------------------------------------------------------
(* Alignment *)

\* A new extent is aligned if its address is; those there are stay where they
\* are as long as the caller's buffer does.
LEMMA AlignedAfter ==
  ASSUME ExtentsAligned, NEW p, NEW bytes, NEW alignment,
         extents' = extents \cup {[at |-> p, bytes |-> bytes, alignment |-> alignment]},
         initial' = initial, Address(p) % alignment = 0
  PROVE  ExtentsAligned'
  BY DEF ExtentsAligned, Address

LEMMA NextAligned ==
  ASSUME AlignedHeader, IInv, ExtentsAligned, [Next]_vars
  PROVE  ExtentsAligned'
  <1>1. ASSUME NEW bytes \in Sizes, NEW alignment \in Alignments,
               AllocateFits(bytes, alignment)
        PROVE  ExtentsAligned'
    <2> DEFINE w == WastedDueToAlignment(alignment)
               p == [current EXCEPT !.offset = @ + w]
    <2>1. alignment \in Nat \ {0} /\ Address(current) \in Nat
      BY MonotonicAssumption DEF IInv, TypeOK, Address, Pointer
    <2>2. (Address(current) + w) % alignment = 0
      BY <2>1, AlignUp DEF WastedDueToAlignment
    <2>3. w \in Nat
      BY WastedType DEF IInv
    <2>4. Address(p) = Address(current) + w
      <3> HIDE DEF w
      <3>1. p.block = current.block /\ p.offset = current.offset + w
        BY DEF IInv, TypeOK, Pointer
      <3> QED BY <2>3, <3>1, MonotonicAssumption DEF Address, IInv, TypeOK, Pointer
    <2> HIDE DEF w
    <2> QED BY <1>1, <2>2, <2>4, AlignedAfter DEF AllocateFits, AllocateFromCurrent, w
  <1>2. ASSUME NEW bytes \in Sizes, NEW alignment \in Alignments,
               AllocateNewBuffer(bytes, alignment)
        PROVE  ExtentsAligned'
    <2>1. PICK b \in BlockIds :
            extents' = extents \cup
              {[at |-> [[block |-> b, offset |-> HeaderSize] EXCEPT !.offset = @ + 0],
                bytes |-> bytes, alignment |-> alignment]}
      BY <1>2 DEF AllocateNewBuffer, AllocateFromCurrent
    <2>2. [[block |-> b, offset |-> HeaderSize] EXCEPT !.offset = @ + 0]
            = [block |-> b, offset |-> HeaderSize]
      BY MonotonicAssumption
    <2>3. Address([block |-> b, offset |-> HeaderSize]) = HeaderSize
      BY MonotonicAssumption DEF Address
    <2>4. HeaderSize % alignment = 0
      BY <1>2 DEF AllocateNewBuffer, AlignedHeader
    <2>5. initial' = initial
      BY <1>2 DEF AllocateNewBuffer
    <2> QED BY <2>1, <2>2, <2>3, <2>4, <2>5, AlignedAfter
  <1>3. ASSUME extents' = {} PROVE ExtentsAligned'
    BY <1>3 DEF ExtentsAligned
  <1>4. ASSUME extents' = extents, initial' = initial PROVE ExtentsAligned'
    BY <1>4 DEF ExtentsAligned, Address
  <1>5. CASE ConstructDefault \/ ConstructInitialSize \/ ConstructBuffer
    BY <1>3, <1>5
    DEF ConstructDefault, ConstructInitialSize, ConstructBuffer, ConstructWith, IInv, DeadIsEmpty
  <1>6. CASE \E bytes \in Sizes, alignment \in Alignments : Allocate(bytes, alignment)
    BY <1>1, <1>2, <1>4, <1>6
    DEF Allocate, AllocateTooLarge, AllocateUpstreamThrows, ThrowAfterRaising
  <1>7. CASE Release \/ Destroy
    BY <1>3, <1>7 DEF Release, ReleaseBody, Destroy
  <1> QED BY <1>4, <1>5, <1>6, <1>7 DEF Next, vars, AllocateOveraligned, Deallocate

-----------------------------------------------------------------------------
(* The theorems *)

\* The inductive invariant holds in every reachable state.
THEOREM MonotonicInvariant ==
  ASSUME NoZeroSizes
  PROVE  Spec => []IInv
  <1>1. Init => IInv
    BY InitIInv
  <1>2. IInv /\ [Next]_vars => IInv'
    BY NextIInv
  <1> QED BY <1>1, <1>2, PTL DEF Spec

\* do_allocate, release() and the destructor keep every member of its type.
THEOREM MonotonicTypeCorrect ==
  ASSUME NoZeroSizes
  PROVE  Spec => []TypeOK
  <1>1. IInv => TypeOK
    BY DEF IInv
  <1> QED BY <1>1, MonotonicInvariant, PTL

\* No call of do_allocate hands out a byte outside a live buffer or over a
\* block header.
THEOREM MonotonicExtentsInBuffers ==
  ASSUME NoZeroSizes
  PROVE  Spec => []ExtentsInBuffers
  <1>1. IInv => ExtentsInBuffers
    BY DEF IInv
  <1> QED BY <1>1, MonotonicInvariant, PTL

\* No byte is handed out twice between two calls of release().
THEOREM MonotonicExtentsDisjoint ==
  ASSUME NoZeroSizes
  PROVE  Spec => []ExtentsDisjoint
  <1>1. IInv => ExtentsDisjoint
    BY DEF IInv
  <1> QED BY <1>1, MonotonicInvariant, PTL

\* block_slist and upstream agree on what is lent, and a destroyed resource
\* has given everything back.
THEOREM MonotonicNothingLeaked ==
  ASSUME NoZeroSizes
  PROVE  Spec => []NothingLeaked
  <1>1. IInv => NothingLeaked
    BY DEF IInv
  <1> QED BY <1>1, MonotonicInvariant, PTL

\* m_current_buffer and m_current_buffer_size always end where the buffer
\* does: a failed call, the bytes lost to alignment and a switch of buffers
\* lose no room.
THEOREM MonotonicRoomAccounted ==
  ASSUME NoZeroSizes
  PROVE  Spec => []RoomAccounted
  <1>1. IInv => RoomAccounted
    BY DEF IInv
  <1> QED BY <1>1, MonotonicInvariant, PTL

\* remaining_storage skips what alignment needs in every buffer, a misaligned
\* one of the caller included.
THEOREM MonotonicExtentsAligned ==
  ASSUME NoZeroSizes, AlignedHeader
  PROVE  Spec => []ExtentsAligned
  <1>1. Init => ExtentsAligned
    BY DEF Init, ExtentsAligned
  <1>2. IInv /\ ExtentsAligned /\ [Next]_vars => ExtentsAligned'
    BY NextAligned
  <1> QED BY <1>1, <1>2, MonotonicInvariant, PTL DEF Spec
=============================================================================
