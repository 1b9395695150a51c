SPECIFICATION Spec
CONSTANTS
  Nodes <- MCNodes2
  Zone <- MCZone
  Created <- MCCreated
  NameRank <- MCNameRank
  MaxUnavailable <- MCOne
  Revisions = {1}
  Members0 <- MCNodes2
  Config0 = 1
  HistoryLimit = 0
  Env <- EnvPause
  MaxPods <- MCNoPods
  MaxChanges = 0
  MaxAdmin = 2
  MaxFaults = 0
INVARIANTS CordonBudget
