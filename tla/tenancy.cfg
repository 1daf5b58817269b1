SPECIFICATION FairSpec
CONSTANTS
  Perm <- MCPerm
  Focus <- MCFocus
  MaxUID = 2
  MaxNonce = 1
  MaxEdits = 3
  MaxFaults = 1
  Concurrent = FALSE
  CrashOnLoss = FALSE
  LookupThreshold = 2
INVARIANTS EverythingIsTracked StatusIsHonest
PROPERTIES IdentitiesAreRespected PermissionsSettle DamageHeals CleanupCompletes
CHECK_DEADLOCK FALSE
