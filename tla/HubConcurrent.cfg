SPECIFICATION Spec
CONSTANTS
  Processes = {p1, p2}
  Repos <- MCOneFile
  Single = "weights"
  Index = "index"
  Extras <- MCNoExtras
  Attempts = 3
  weights = "weights"
  index = "index"
  shard1 = "shard1"
  shard2 = "shard2"
  config = "config"
INVARIANT
  SuccessIsPublished
