SPECIFICATION FairSpec
CONSTANTS
  MaxUID = 3
  MaxFaults <- MCFaults
  MaxKeys = 4
  Loss = TRUE
  Scenes <- MCScenes
INVARIANTS ProvisionedIsTracked ReadyMeansUsable CredentialsArePrivate
PROPERTIES NothingInUseIsDeleted RequestsComplete
CHECK_DEADLOCK FALSE
