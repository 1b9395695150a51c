SPECIFICATION FairSpec
CONSTANTS
  Nodes = {1, 2}
  Configs = {1}
  NodeStates <- Finished
  Budget = 1
  Debounced = FALSE
  PoolEnv = {}
  MaxEvents = 2
  MaxFaults = 1
PROPERTIES StatusSettles
