SPECIFICATION FairSpec
CONSTANTS
  Revisions = {1}
  Required = {1}
  DiffRequires <- NoPairs
  Drops <- NoPairs
  Restarts = {1}
  Strategy = "IfRequired"
  MinInterval = 0
  LastReboot0 = "none"
  AgentEnv <- NoFaults
  MaxQueue = 3
  MaxAsks = 1
  MaxAdmin = 0
  MaxFaults = 0
PROPERTIES Converges
