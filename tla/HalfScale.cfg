SPECIFICATION Spec
CONSTANTS
  Precision = 24
  MinExp <- F32MinExp
  MaxExp <- F32MaxExp
  Configs <- FourBits
  Sources <- NearTie
INVARIANTS
  HalfScaleBound
CHECK_DEADLOCK FALSE
