SPECIFICATION Spec
CONSTANTS
  Revisions = {1}
  Required = {1}
  DiffRequires <- NoPairs
  Drops <- NoPairs
  Restarts = {}
  Strategy = "IfRequired"
  MinInterval = 0
  LastReboot0 = "none"
  AgentEnv <- OwnerFault
  MaxQueue = 3
  MaxAsks = 1
  MaxAdmin = 0
  MaxFaults = 1
PROPERTIES RebootBeforeDone
