CONSTANTS
  Width = 4
  BlockIds = {b1, b2, b3}
  NoBlock = none
  UserBlock = user
  MaxAlign = 4
  HeaderSize = 4
  MinimumBufferSize = 2
  InitialNextBufferSize = 4
  Sizes = {0, 2, 3, 9}
  Alignments = {1, 2, 4, 8}
  InitialSizes = {0, 15}
  UserBuffers <- MCUserBuffers
SPECIFICATION Spec
INVARIANT ExtentsInBuffers
