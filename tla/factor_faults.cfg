SPECIFICATION Spec
CONSTANTS
  None = None
  Malformed = Malformed
  N = 2
  Factors = {2}
  OldFactor = 1
  Scenes <- FaultScenes
INVARIANTS
  FailedRestoresWorkloads
PROPERTIES
  TerminalIsFinal
  RebuiltLayoutIsKept
CHECK_DEADLOCK FALSE
