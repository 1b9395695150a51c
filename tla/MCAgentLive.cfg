SPECIFICATION FairSpec
CONSTANTS
  Revisions = {1, 2, 3}
  Required = {1, 2, 3}
  DiffRequires <- AllPairs
  Drops <- NoPairs
  Restarts = {}
  Strategy = "IfRequired"
  MinInterval = 0
  LastReboot0 = "none"
  AgentEnv <- RMCGone
  MaxQueue = 4
  MaxAsks = 3
  MaxAdmin = 0
  MaxFaults = 0
PROPERTIES Converges
