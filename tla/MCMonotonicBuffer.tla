-------------------------- MODULE MCMonotonicBuffer --------------------------
EXTENDS MonotonicBuffer, TLC

MCUserBuffers == {[residue |-> 1, size |-> 3], [residue |-> 0, size |-> 5]}
MCSymmetry == Permutations(BlockIds)
=============================================================================
