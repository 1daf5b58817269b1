SPECIFICATION FairSpec
CONSTANTS
  Member = {1, 2}
  Scenes <- MCScenes
  MaxRetired = 1
  MaxUID = 6
  MaxPod = 8
INVARIANTS OneOutage ReplacementIsSound
PROPERTIES ReadyIsHonest Converges
CHECK_DEADLOCK FALSE
