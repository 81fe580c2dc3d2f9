----------------------------- MODULE NodeSource -----------------------------
(***************************************************************************)
(* What the node pools of node_allocator and adaptive_pool promise: a      *)
(* request for n nodes is given n nodes nobody holds, or throws and gives  *)
(* none; nodes come back when their holder says so; purging needs every    *)
(* node back.  NodePool and AdaptiveNodePool are shown to implement it.    *)
(***************************************************************************)
EXTENDS Naturals, FiniteSets

CONSTANTS
  Nodes,      \* every node a block could be cut into
  Batches     \* how many nodes callers ask for at once

VARIABLES
  held,       \* the nodes callers hold
  count       \* how many the pool says they hold

Init == held = {} /\ count = 0

Give(n) ==
  /\ count' = count + n
  /\ held' \in SUBSET Nodes /\ held \subseteq held'
  /\ Cardinality(held' \ held) = n

TakeBack ==
  /\ held' \in SUBSET held
  /\ count' = count - Cardinality(held \ held')

Next == (\E n \in Batches : Give(n)) \/ TakeBack

Spec == Init /\ [][Next]_<<held, count>>
=============================================================================
