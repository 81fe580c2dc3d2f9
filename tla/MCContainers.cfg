CONSTANTS
  BlockSize = 2
  FreeFraction = 3
  InternalCapacity = 2
  InternalBufferChars = 3
  Instances <- All
  Disagreements = {}
SPECIFICATION Spec
VIEW Shapes
INVARIANTS
  LifetimesSound
  NothingLeaked
  ContentsAsPromised
  ReferencesValid
  CapacityAsPromised
  KeysOrdered
  StableLinked
