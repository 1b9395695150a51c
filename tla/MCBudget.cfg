SPECIFICATION Spec
CONSTANTS
  Nodes <- MCNodes2
  Zone <- MCZone
  Created <- MCCreated
  NameRank <- MCNameRank
  MaxUnavailable <- MCNothing
  Revisions = {1}
  Members0 <- MCNodes2
  Config0 = 1
  HistoryLimit = 1
  Env <- EnvLag
  MaxPods <- MCPods
  MaxChanges = 0
  MaxAdmin = 0
  MaxFaults = 1
INVARIANTS TypeOK CordonBudget UpdatesDrained
