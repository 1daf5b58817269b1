SPECIFICATION FairSpec
CONSTANTS
  Cluster = {"a", "b"}
  Pool = {1, 2}
  Node = {1, 2}
  Scenes <- MCScenes
  Factor = 1
  MaxUID = 3
  MaxToken = 5
INVARIANTS DiskHasOneOwner MountedConfigExists
PROPERTIES RetirementIsSafe Converges
CHECK_DEADLOCK FALSE
