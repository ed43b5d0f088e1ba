SPECIFICATION Spec
CONSTANTS
  Processes = {p1}
  Repos <- MCEmptyFile
  Single = "weights"
  Index = "index"
  Extras <- MCExtras
  Attempts = 3
  weights = "weights"
  index = "index"
  shard1 = "shard1"
  shard2 = "shard2"
  config = "config"
INVARIANT
  OneFailureAtMost
