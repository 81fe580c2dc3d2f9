---------------------------- MODULE MemoryResource ----------------------------
(***************************************************************************)
(* What boost::container::pmr::memory_resource promises its callers,       *)
(* whatever is behind it: allocate() returns storage that overlaps nothing *)
(* still outstanding, or throws; storage leaves the set of outstanding     *)
(* extents by deallocate() or when the resource is released or destroyed.  *)
(* PoolResource, and SyncPoolResource by way of it, are shown to implement *)
(* it; MonotonicBuffer takes from it what it is to overlap.                *)
(***************************************************************************)
EXTENDS Naturals

VARIABLE outstanding    \* extents [at, bytes, ...] the callers may use

\* Two extents share a byte.
Overlap(e, f) ==
  /\ e.at.block = f.at.block
  /\ e.at.offset < f.at.offset + f.bytes
  /\ f.at.offset < e.at.offset + e.bytes

Init == outstanding = {}

\* The new extent is whatever the implementation chose; the caller is told
\* only that it is new and disjoint from the rest.
Allocate ==
  \E e \in outstanding' :
    /\ e \notin outstanding
    /\ outstanding' = outstanding \cup {e}
    /\ \A f \in outstanding : ~Overlap(e, f)

Deallocate == \E e \in outstanding : outstanding' = outstanding \ {e}

\* release() and destruction
Reclaim == outstanding' = {}

Next == Allocate \/ Deallocate \/ Reclaim

Spec == Init /\ [][Next]_outstanding
=============================================================================
