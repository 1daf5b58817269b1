SPECIFICATION FairSpec
CONSTANTS
  MaxSlot = 1
  MaxDepth = 1
  Factor = 1
  Scenes <- MCScenes
  MaxNode = 7
  MaxClaim = 7
  MaxPod = 6
  MaxNonce = 5
INVARIANTS DiskIsOurs RoleIsBacked HandoffIsUsable SourceOutlivesProof
PROPERTIES Converges
CHECK_DEADLOCK FALSE
