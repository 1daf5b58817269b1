SPECIFICATION Spec
CONSTANTS
  None = None
  Owner = gc
  ClusterWorker = cw
  NodeWorker = nw
  Nodes = {n1, n2}
  Transactions = {1, 2, 3, 4, 5}
  Federated = TRUE
  Requestable = {gc, n1}
  Withdrawable = {gc, n1}
  Drifting = {n2}
  Rotated = {}
  MaxUID = 2
  MaxGen = 1
  MaxCrashes = 0
PROPERTY
  DrainIsNeverStolen
