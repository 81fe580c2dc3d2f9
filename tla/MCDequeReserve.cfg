CONSTANTS
  BlockSize = 2
  FreeFraction = 3
  InternalCapacity = 2
  InternalBufferChars = 3
  Instances <- DequeReserve
  Disagreements = {"deque_reserve"}
SPECIFICATION Spec
VIEW Shapes
INVARIANTS
  CapacityAsPromised
