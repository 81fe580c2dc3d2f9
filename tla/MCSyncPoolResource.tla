------------------------- MODULE MCSyncPoolResource -------------------------
EXTENDS SyncPoolResource, TLC

MCOptions == {[maxBlocks |-> 0, largest |-> 0], [maxBlocks |-> 2, largest |-> 4],
              [maxBlocks |-> 31, largest |-> 3]}
=============================================================================
