SPECIFICATION Spec
CONSTANTS
  Nodes <- MCNodes1
  Zone <- MCZone
  Created <- MCCreated
  NameRank <- MCNameRank
  MaxUnavailable <- MCOne
  Revisions = {1}
  Members0 <- MCNodes1
  Config0 = 1
  HistoryLimit = 0
  Env <- EnvNone
  MaxPods <- MCPods
  MaxChanges = 0
  MaxAdmin = 0
  MaxFaults = 0
PROPERTIES EvictedPodsGone
