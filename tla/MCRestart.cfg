SPECIFICATION FairSpec
CONSTANTS
  Nodes <- MCNodes1
  Zone <- MCZone
  Created <- MCCreated
  NameRank <- MCNameRank
  MaxUnavailable <- MCOne
  Revisions = {1}
  Members0 <- MCNodes1
  Config0 = 1
  HistoryLimit = 1
  Env <- EnvRestart
  MaxPods <- MCPods
  MaxChanges = 0
  MaxAdmin = 0
  MaxFaults = 1
PROPERTIES RolloutCompletes
