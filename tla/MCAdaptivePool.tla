--------------------------- MODULE MCAdaptivePool ---------------------------
EXTENDS AdaptivePool

\* 32-bit sizes: 4-byte pointers, a 28-byte block_info_t, 4 bytes of payload.
MCRequests == [size : {1, 4, 12, 20, 52}, align : {1, 8, 64}, perBlock : {1, 2, 5, 9, 16},
               overhead : {0, 4, 15, 60}]
MCUsed == [size |-> 20, align |-> 1, perBlock |-> 2, overhead |-> 60]
MCBlockIds == 1 .. 3
=============================================================================
