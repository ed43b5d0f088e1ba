SPECIFICATION Spec
CONSTANTS
  r1 = r1
  r2 = r2
  Somebody = Somebody
  Runs = {r1, r2}
  ShardCount <- Counts
  Exclusive = TRUE
  MaxDeaths = 1
INVARIANTS
  IndexMeansComplete
  FailureIsUndone
  RunsDontMix
CHECK_DEADLOCK FALSE
