CONSTANTS
  Width = 24
  BlockIds = {b1, b2, b3}
  SegmentBits = 2
  ListNodeSize = 4
  Layouts <- MCLayouts
  Batches = {1, 2, 3}
SYMMETRY MCSymmetry
SPECIFICATION Spec
INVARIANTS NodesConserved NodesAligned
PROPERTIES NodesKept SweepIsComplete ImplementsNodeSource
