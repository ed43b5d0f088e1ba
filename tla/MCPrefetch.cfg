SPECIFICATION Spec
CONSTANTS
  Passes = 2
  Values <- MCValues
  ChunkValues = 2
  PoolBuffers = 2
INVARIANTS
  TypeOK
  BuffersConserved
  SendNeverBlocks
  FillErrorMeansPanic
PROPERTIES
  FeedSpec
  Terminates
CHECK_DEADLOCK FALSE
