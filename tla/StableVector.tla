---------------------------- MODULE StableVector ----------------------------
(***************************************************************************)
(* stable_vector.hpp.  Every element has a node of its own, a block of one *)
(* cell; the index is a vector of pointers to the nodes, followed by one   *)
(* to the end node and by the two ends of a chain of spare nodes, the      *)
(* pool.  Every node points back (up) to its place in the index.           *)
(*                                                                         *)
(* An object has the members                                               *)
(*   buf, cap   the buffer of the index, None while the index is empty, and*)
(*              its capacity; its cells hold no elements                   *)
(*   nodes      the nodes in the index, in order                           *)
(*   pool       the chain of spare nodes, from the last two pointers of the*)
(*              index                                                      *)
(*   poolSize   the length of the chain as the object counts it            *)
(*   up, end    where the nodes and the end node point to: <<buffer, place>>*)
(***************************************************************************)
EXTENDS Elements

LOCAL INSTANCE SequencesExt

None == 0
ExtraPointers == 3
Nowhere == <<None, 0>>

EmptyStable ==
  [kind |-> "stable_vector", buf |-> None, cap |-> 0, nodes |-> <<>>, pool |-> <<>>,
   poolSize |-> 0, up |-> <<>>, end |-> Nowhere]

Size(w, o) == Len(w.obj[o].nodes)
Contents(w, o) == [i \in 1 .. Size(w, o) |-> w.heap[w.obj[o].nodes[i]][0]]

IndexSize(v) == IF v.buf = None THEN 0 ELSE Len(v.nodes) + ExtraPointers
StableCapacity(v) == IF v.buf = None THEN 0 ELSE Len(v.nodes) + v.poolSize

\* fix_up_pointers of the nodes from place first on, and of the end node
Repointed(v, first) ==
  LET place == [x \in ToSet(v.nodes) |-> (CHOOSE i \in DOMAIN v.nodes : v.nodes[i] = x) - 1]
  IN  [v EXCEPT !.end = <<v.buf, Len(v.nodes)>>,
                !.up = [x \in ToSet(v.nodes) |->
                          IF place[x] >= first THEN <<v.buf, place[x]>> ELSE v.up[x]]]

\* readjust_end_node
Readjusted(v) ==
  [v EXCEPT !.end = IF v.buf = None THEN Nowhere ELSE <<v.buf, Len(v.nodes)>>]

WithMembers(w, o, v) == [w EXCEPT !.obj[o] = v]

\* The buffer of the index is given back, if it has one.
FreeIndex(w, v) == IF v.buf = None THEN w ELSE Deallocate(w, v.buf)

\* The index in a new buffer of n pointers, and the nodes pointed to it.
NewIndex(w, o, n) ==
  LET v == [w.obj[o] EXCEPT !.buf = Fresh(w), !.cap = n]
  IN  Then(Allocate(w, n), LAMBDA m : WithMembers(FreeIndex(m, w.obj[o]), o, Repointed(v, 0)))

\* index.reserve
ReserveIndex(w, o, n) == IF n <= w.obj[o].cap THEN w ELSE NewIndex(w, o, n)

\* initialize_end_node
InitializeEndNode(w, o, n) ==
  IF w.obj[o].buf # None THEN w ELSE ReserveIndex(w, o, n + ExtraPointers)

\* The room index.insert makes for n pointers: it grows as a vector does.
RoomInIndex(w, o, n) ==
  LET v    == w.obj[o]
      need == IndexSize(v) + n
  IN  IF need <= v.cap THEN w ELSE NewIndex(w, o, Larger(need, (v.cap * 8) \div 5))

-----------------------------------------------------------------------------
(* The pool *)

\* priv_increase_pool: n nodes or none, in front of the chain
IncreasePool(w, o, n) ==
  LET new == FreshBlocks(w, n)
  IN  Then(AllocateMany(w, n, 1),
           LAMBDA m : [m EXCEPT !.obj[o].pool = new \o @, !.obj[o].poolSize = @ + n])

\* priv_clear_pool
ClearPool(w, o) ==
  LET v    == w.obj[o]
      free == FoldLeft(LAMBDA m, x : Deallocate(m, x), w, v.pool)
  IN  IF v.buf = None \/ v.pool = <<>> THEN w
      ELSE [free EXCEPT !.obj[o] = [v EXCEPT !.pool = <<>>, !.poolSize = 0]]

\* The n nodes priv_get_from_pool takes, one after the other.
Taken(w, o, n) == Lead(w.obj[o].pool, n)
TakenFromPool(w, o, n) ==
  [w EXCEPT !.obj[o].pool = Rest(@, n), !.obj[o].poolSize = @ - n]

\* The chain has the n nodes poolSize says it has: priv_get_from_pool follows
\* an empty one through its null ends.
ChainHas(w, o, n) == n <= Len(w.obj[o].pool)

\* A constructor throws in the node that was taken: it is given back by
\* priv_build_node_from_it or priv_build_node_from_convertible, and then put in
\* the pool again by the rollback.
BuildFailed(w, o) ==
  [Deallocate(w, w.obj[o].pool[1]) EXCEPT !.thrown = "element", !.fuse = 0]

-----------------------------------------------------------------------------
(* Insertion *)

\* k nodes from the pool, with values, in the index at place p; the nodes
\* after them are pointed to their new places, and those before if the index
\* is new.
Built(w, o, p, vals) ==
  LET k    == Len(vals)
      new  == Taken(w, o, k)
      full == FoldLeft(LAMBDA m, i : Write(m, new[i], 0, <<vals[i]>>),
                       TakenFromPool(w, o, k), [i \in 1 .. k |-> i])
  IN  [full EXCEPT !.obj[o] = Repointed([@ EXCEPT !.nodes = Lead(@, p) \o new \o Rest(@, p)], p)]

\* n nodes are built from vals, and what was built before a throw stays.
Build(w, o, p, vals) ==
  LET n == Len(vals)
  IN  IF ~ChainHas(w, o, n) THEN Needs(w, FALSE, w)
      ELSE IF Fails(w, Cost(w, n)) THEN BuildFailed(Built(w, o, p, Lead(vals, w.fuse - 1)), o)
      ELSE Built(Spent(w, Cost(w, n)), o, p, vals)

\* insert of a forward range, insert and emplace of one element
Insert(w, o, p, vals) ==
  LET n == Len(vals)
      Fill(m) == IF m.obj[o].poolSize >= n THEN m ELSE IncreasePool(m, o, n - m.obj[o].poolSize)
      Room(m) == RoomInIndex(m, o, n)
  IN  IF n = 0 THEN w
      ELSE Then(Then(Then(InitializeEndNode(w, o, n), Fill), Room),
                LAMBDA m : Build(m, o, p, vals))

\* push_back: the node is built before it gets its place in the index.
PushBack(w, o, x) ==
  LET v == w.obj[o]
  IN  IF v.cap > IndexSize(v) /\ v.poolSize > 0 THEN Build(w, o, Size(w, o), <<x>>)
      ELSE Insert(w, o, Size(w, o), <<x>>)

-----------------------------------------------------------------------------
(* The other member functions *)

\* erase of the n nodes at p: priv_put_in_pool of one node, or of a chain.
Erase(w, o, p, n) ==
  LET v    == w.obj[o]
      gone == SubSeq(v.nodes, p + 1, p + n)
      dead == FoldLeft(LAMBDA m, x : Destroy(m, x, 0, 1), w, gone)
      rest == [v EXCEPT !.nodes = Lead(@, p) \o Rest(@, p + n),
                        !.pool = IF n = 1 THEN gone \o @ ELSE @ \o gone,
                        !.poolSize = @ + n]
  IN  IF n = 0 THEN w ELSE WithMembers(dead, o, Repointed(rest, p))

Clear(w, o) == Erase(w, o, 0, Size(w, o))

Resize(w, o, n, x) ==
  IF n < Size(w, o) THEN Erase(w, o, n, Size(w, o) - n)
  ELSE Insert(w, o, Size(w, o), Filled(n - Size(w, o), x))

\* reserve
\* Faulty form: no nodes are set aside for the room in the index.
ReserveIndexOnly(w, o, n) ==
  IF n <= StableCapacity(w.obj[o]) THEN w
  ELSE Then(InitializeEndNode(w, o, n), LAMBDA m : ReserveIndex(m, o, n + ExtraPointers))

Reserve(w, o, n) ==
  LET spare == n - Size(w, o) - w.obj[o].poolSize
      Room(m) == ReserveIndex(m, o, n + ExtraPointers)
      Fill(m) == IF spare > 0 THEN IncreasePool(m, o, spare) ELSE m
  IN  IF n <= StableCapacity(w.obj[o]) THEN w
      ELSE Then(Then(InitializeEndNode(w, o, n), Room), Fill)

\* shrink_to_fit
ShrinkToFit(w, o) ==
  LET v == w.obj[o]
      Fit(m) == IF v.nodes = <<>>
                THEN WithMembers(Deallocate(m, v.buf), o,
                                 [m.obj[o] EXCEPT !.buf = None, !.cap = 0, !.end = Nowhere])
                ELSE IF IndexSize(v) = v.cap THEN m ELSE NewIndex(m, o, IndexSize(v))
  IN  IF StableCapacity(v) = 0 THEN w ELSE Then(ClearPool(w, o), Fit)

\* assign: assignments, and the rest is inserted or erased.
Assign(w, o, vals) ==
  LET common == Smaller(Len(vals), Size(w, o))
      k      == IF Fails(w, Cost(w, common)) THEN w.fuse - 1 ELSE common
      over   == FoldLeft(LAMBDA m, i : Write(m, w.obj[o].nodes[i], 0, <<vals[i]>>),
                         w, [i \in 1 .. k |-> i])
      Remain(m) == IF Len(vals) = common THEN Erase(m, o, k, Size(w, o) - k)
                   ELSE Insert(m, o, k, Rest(vals, k))
  IN  IF k < common THEN Threw(over, "element") ELSE Remain(Spent(over, Cost(w, k)))

\* swap: the indexes and the pool sizes change places, the end nodes do not.
\* Faulty form: the end nodes still point to the indexes they had.
SwapStale(w, o, x) ==
  [w EXCEPT !.obj[o] = [w.obj[x] EXCEPT !.end = w.obj[o].end],
            !.obj[x] = [w.obj[o] EXCEPT !.end = w.obj[x].end]]

Swap(w, o, x) ==
  [w EXCEPT !.obj[o] = Readjusted([w.obj[x] EXCEPT !.end = w.obj[o].end]),
            !.obj[x] = Readjusted([w.obj[o] EXCEPT !.end = w.obj[x].end])]

\* priv_move_assign when resources can be stolen: the index of o goes with its
\* pool, whose size goes to x.
MoveAssign(w, o, x) ==
  LET Steal(m) == [FreeIndex(m, m.obj[o]) EXCEPT
                     !.obj[o] = Readjusted(w.obj[x]),
                     !.obj[x] = [EmptyStable EXCEPT !.poolSize = m.obj[o].poolSize]]
  IN  Steal(Clear(w, o))

\* The destructor: clear_on_destroy, and the index.
Destroyed(w, o) ==
  WithMembers(FreeIndex(ClearPool(Clear(w, o), o), w.obj[o]), o, EmptyStable)

-----------------------------------------------------------------------------
(* Invariants of the members *)

\* priv_invariant
Linked(w, o) ==
  LET v == w.obj[o]
  IN  /\ v.end = (IF v.buf = None THEN Nowhere ELSE <<v.buf, Len(v.nodes)>>)
      /\ DOMAIN v.up = ToSet(v.nodes)
      /\ \A i \in DOMAIN v.nodes : v.up[v.nodes[i]] = <<v.buf, i - 1>>

\* The assertions of capacity().
PoolFits(w, o) ==
  LET v == w.obj[o]
  IN  v.poolSize <= v.cap - IndexSize(v)

OwnedBlocks(w, o) ==
  LET v == w.obj[o]
  IN  ToSet(v.nodes) \cup ToSet(v.pool) \cup ({v.buf} \ {None})

Sound(w, o) ==
  LET v == w.obj[o]
  IN  /\ v.poolSize = Len(v.pool)
      /\ v.buf = None \/ v.cap = Capacity(w, v.buf)
      /\ \A x \in ToSet(v.nodes) : x \in DOMAIN w.heap /\ w.heap[x][0] # Raw
      /\ \A x \in ToSet(v.pool) : x \in DOMAIN w.heap /\ w.heap[x][0] = Raw

=============================================================================
