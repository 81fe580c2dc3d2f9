CONSTANTS
  Hubs = {x, y}
  Blocks = {b1, b2, b3}
  N = 3
  Values = {1, 2}
  Raw = raw
  Header = header
  Ranges <- MCRanges
  MaxSize = 4
SYMMETRY MCSymmetry
SPECIFICATION Spec
INVARIANTS StructureSound NothingLeaked ElementsStay ContentsAsPromised CapacityAsPromised
