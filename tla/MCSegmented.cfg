CONSTANTS
  Block <- MCBlock
  Blocks <- MCBlocks
  Values <- MCValues
  P <- MCP
  Gen <- MCGen
  Op <- MCOp
  Counts <- MCCounts
  RunsCarried = FALSE
  Initial <- MCInitial
SPECIFICATION Spec
INVARIANTS ResultAsFlat ContentsAsFlat
