SPECIFICATION Spec
CONSTANTS
  Nodes <- MCNodes2
  Zone <- MCZone
  Created <- MCCreated
  NameRank <- MCNameRank
  MaxUnavailable <- MCOne
  Revisions = {1, 2}
  Members0 <- MCNodes2
  Config0 = 1
  HistoryLimit = 0
  Env <- EnvNone
  MaxPods <- MCNoPods
  MaxChanges = 1
  MaxAdmin = 0
  MaxFaults = 0
INVARIANTS CordonBudget
