SPECIFICATION Spec
CONSTANTS
  Nodes <- MCNodes2
  Zone <- MCZone
  Created <- MCCreated
  NameRank <- MCNameRank
  MaxUnavailable <- MCOne
  Revisions = {1, 2}
  Members0 <- MCNodes1
  Config0 = 1
  HistoryLimit = 1
  Env <- EnvAdmin
  MaxPods <- MCNoPods
  MaxChanges = 1
  MaxAdmin = 2
  MaxFaults = 0
PROPERTIES DesiredNeedsCordon AgentsKeepContract
CHECK_DEADLOCK FALSE
