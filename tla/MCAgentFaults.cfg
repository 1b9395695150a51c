SPECIFICATION Spec
CONSTANTS
  Revisions = {1, 2}
  Required = {1, 2}
  DiffRequires <- NoPairs
  Drops <- NoPairs
  Restarts = {}
  Strategy = "IfRequired"
  MinInterval = 1
  LastReboot0 = "none"
  AgentEnv <- AllFaults
  MaxQueue = 3
  MaxAsks = 2
  MaxAdmin = 0
  MaxFaults = 2
PROPERTIES KeepsContract
