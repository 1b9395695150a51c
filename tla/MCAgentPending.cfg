SPECIFICATION Spec
CONSTANTS
  Revisions = {1, 2}
  Required = {1, 2}
  DiffRequires <- AllPairs
  Drops <- NoPairs
  Restarts = {}
  Strategy = "IfRequired"
  MinInterval = 1
  LastReboot0 = "none"
  AgentEnv <- NoFaults
  MaxQueue = 3
  MaxAsks = 2
  MaxAdmin = 0
  MaxFaults = 0
PROPERTIES ReportsWhatItApplied
