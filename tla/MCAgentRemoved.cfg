SPECIFICATION Spec
CONSTANTS
  Revisions = {1, 2}
  Required = {1}
  DiffRequires <- OneToTwo
  Drops <- OneToTwo
  Restarts = {}
  Strategy = "IfRequired"
  MinInterval = 0
  LastReboot0 = "none"
  AgentEnv <- NoFaults
  MaxQueue = 3
  MaxAsks = 2
  MaxAdmin = 0
  MaxFaults = 0
PROPERTIES DiffRebootBeforeDone
