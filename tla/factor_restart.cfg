SPECIFICATION FairSpec
CONSTANTS
  None = None
  Malformed = Malformed
  N = 2
  Factors = {2}
  OldFactor = 1
  Scenes <- RestartScene
INVARIANTS
  TypeOK
  SimultaneousRestart
  TerminalReleasesNodes
PROPERTIES
  RequestIsRecorded
  MigrationTerminates
