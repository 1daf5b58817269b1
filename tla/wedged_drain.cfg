SPECIFICATION FairSpec
CONSTANTS
  None = None
  Owner = gc
  ClusterWorker = cw
  NodeWorker = nw
  Nodes = {n1, n2}
  Transactions = {1, 2, 3, 4, 5}
  Federated = FALSE
  Requestable = {n1}
  Withdrawable = {}
  Drifting = {}
  Rotated = {n2}
  MaxUID = 1
  MaxGen = 1
  MaxCrashes = 0
PROPERTY
  DurableDrainTerminates
