CONSTANTS
  Granule = 24
  Space = 72
  MinLarge = 12
  MmapThreshold = 14
  TrimThreshold = 30
  ReleaseRate = 2
  Contiguous = 10
  Uses <- MCUses
SPECIFICATION Spec
INVARIANTS HeapSound NothingLeaked
