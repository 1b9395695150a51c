SPECIFICATION Spec
CONSTANTS
  Revisions = {1, 2}
  Required = {1, 2}
  DiffRequires <- OneToTwo
  Drops <- NoPairs
  Restarts = {}
  Strategy = "IfRequired"
  MinInterval = 0
  LastReboot0 = "none"
  AgentEnv <- NoCrash
  MaxQueue = 4
  MaxAsks = 3
  MaxAdmin = 1
  MaxFaults = 2
INVARIANTS TypeOK
PROPERTIES ReportsWhatItApplied RebootBeforeDone
