CONSTANTS
  Width = 20
  InfoSize = 28
  OffsetSize = 4
  PtrAlign = 4
  Payload = 4
  Requests <- MCRequests
  Used <- MCUsed
  BlockIds <- MCBlockIds
  RealNumNode = 3
  MaxFreeBlocks = 1
  Batches = {1, 2, 4}
SPECIFICATION PoolSpec
INVARIANTS PoolInvariants FreeBlocksLimited NodesInside
PROPERTIES ImplementsNodeSource Terminates
