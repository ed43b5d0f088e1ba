SPECIFICATION CodecsSpec
CHECK_DEADLOCK FALSE
CONSTANTS
  Precision = 10
  MinExp <- FloatMinExp
  MaxExp <- FloatMaxExp
  HalfPrecision = 6
  HalfMinExp <- BinMinExp
  HalfMaxExp <- BinMaxExp
  BlockElements = 4
  Configs <- LowBitConfigs
  Sources <- LowBitSources
  Requests <- ReportRequests
  Block = 2
  NaN = NaN
  Inf = Inf
  Tensors <- Nvfp4Calls
  E5M2Top = 107
INVARIANTS
  StreamIsWhole
  SymmetricDecodesClose
  PartitionsAgree
  ReportIsWhole
  StreamIsOnePiece
  BlocksDecodeClose
  EncodersRoundToNearest
