SPECIFICATION Spec
CONSTANTS
  Nodes <- MCNodes2
  Zone <- MCZone
  Created <- MCCreated
  NameRank <- MCNameRank
  MaxUnavailable <- MCOne
  Revisions = {1}
  Members0 <- MCNodes1
  Config0 = 1
  HistoryLimit = 0
  Env <- EnvJoin
  MaxPods <- MCNoPods
  MaxChanges = 0
  MaxAdmin = 1
  MaxFaults = 0
PROPERTIES NewNodesNotCordoned
