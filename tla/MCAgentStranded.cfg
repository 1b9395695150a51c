SPECIFICATION Spec
CONSTANTS
  Revisions = {1}
  Required = {1}
  DiffRequires <- NoPairs
  Drops <- NoPairs
  Restarts = {}
  Strategy = "IfRequired"
  MinInterval = 1
  LastReboot0 = "none"
  AgentEnv <- NoFaults
  MaxQueue = 3
  MaxAsks = 1
  MaxAdmin = 0
  MaxFaults = 0
INVARIANTS NotStranded
