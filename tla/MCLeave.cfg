SPECIFICATION Spec
CONSTANTS
  Nodes <- MCNodes2
  Zone <- MCZone
  Created <- MCCreated
  NameRank <- MCNameRank
  MaxUnavailable <- MCOne
  Revisions = {1, 2, 3}
  Members0 <- MCNodes2
  Config0 = 1
  HistoryLimit = 1
  Env <- EnvLeave
  MaxPods <- MCNoPods
  MaxChanges = 2
  MaxAdmin = 1
  MaxFaults = 0
INVARIANTS DesiredRMCExists
