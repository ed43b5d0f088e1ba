SPECIFICATION BackendSpec
CONSTANTS
  ChunkValues = 16
  Workers = 3
  Block = 4
  RangesPerWorker = 2
  MinBlocks = 1
  Expected = 21
  Sources <- Replays
  Threads = 2
  MetricsBlock = 2
  Jobs <- Calls8
INVARIANTS
  EmittedIsReference
  FirstBadIsReported
  Int8IsDeterministic
  VerdictIsExact
PROPERTIES
  Completes
CHECK_DEADLOCK FALSE
