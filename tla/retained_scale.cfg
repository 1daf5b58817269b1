SPECIFICATION FairSpec
CONSTANTS
  MaxSlot = 1
  MaxDepth = 1
  Factor = 1
  Scenes <- RetainScenes
  MaxNode = 7
  MaxClaim = 7
  MaxPod = 6
  MaxNonce = 5
PROPERTIES RetainedSlotsReturn
CHECK_DEADLOCK FALSE
