---------------------------- MODULE AdaptivePool ----------------------------
(***************************************************************************)
(* private_adaptive_node_pool_impl_rt as a whole                           *)
(* (include/boost/container/detail/adaptive_node_pool_impl.hpp): the       *)
(* constructor searches for the block's layout, AdaptiveLayout, one step   *)
(* per turn of its loop; the pool it makes is an AdaptiveNodePool whose    *)
(* m_real_num_node is the number of nodes the layout counted.              *)
(***************************************************************************)
EXTENDS AdaptiveNodePool, AdaptiveLayout

CONSTANT Used       \* the pool, among Requests, that is used once it is made

ASSUME UsedAssumption == Used \in Requests

allVars == <<vars, layoutVars>>

PoolInit == Init /\ LayoutInit

Constructing == LayoutNext /\ UNCHANGED vars

Operating ==
  /\ request = Used /\ layout.nodes = RealNumNode
  /\ Next
  /\ UNCHANGED layoutVars

\* The other pools are made and left alone.
LeftAlone == Done /\ UNCHANGED allVars

PoolNext == Constructing \/ Operating \/ LeftAlone

\* The loop is the constructor's own: nothing else runs in it.
PoolSpec == PoolInit /\ [][PoolNext]_allVars /\ WF_allVars(Constructing)

\* Some power of two satisfies the overhead: the constructor returns.
Terminates == <>Done

=============================================================================
