SPECIFICATION FairSpec
CONSTANTS
  Processes = {p1}
  Repos <- MCRepos
  Single = "weights"
  Index = "index"
  Extras <- MCExtras
  Attempts = 3
  weights = "weights"
  index = "index"
  shard1 = "shard1"
  shard2 = "shard2"
  config = "config"
INVARIANTS
  SuccessIsPublished
  HealsAtOnce
PROPERTIES
  OnlyVerifiedStored
  CallEnds
