CONSTANTS
  Width = 5
  RegionIds = {r1, r2, r3}
  NoRegion = none
  HeaderSize = 2
  PoolDataSize = 3
  MinimumMaxBlocks = 1
  DefaultMaxBlocks = 4
  MinimumPoolBlock = 2
  DefaultPoolBlock = 4
  Options <- MCOptions
  Sizes = {1, 3, 5, 31}
  Threads = {t1, t2}
  NoThread = nobody
SPECIFICATION SyncSpec
INVARIANTS BlocksConserved HeldFits NothingLeaked
PROPERTIES ImplementsMemoryResource ImplementsPoolResource SomeoneEnters
