----------------------------- MODULE MCNodePool -----------------------------
EXTENDS NodePool, TLC

MCLayouts == {[size |-> 5, align |-> 1, perBlock |-> 2],
              [size |-> 5, align |-> 16, perBlock |-> 2],
              [size |-> 3, align |-> 64, perBlock |-> 1],
              [size |-> 3, align |-> 2^19, perBlock |-> 1]}
MCSymmetry == Permutations(BlockIds)
=============================================================================
