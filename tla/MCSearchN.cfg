CONSTANTS
  Block <- MCBlock
  Blocks <- MCBlocks
  Values <- MCValues
  P <- MCP
  Gen <- MCGen
  Op <- MCOp
  Counts <- MCCounts
  RunsCarried = TRUE
  Initial <- MCInitial
SPECIFICATION Spec
INVARIANT ResultAsFlat
