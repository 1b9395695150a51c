SPECIFICATION FairSpec
CONSTANTS
  Nodes = {1, 2}
  Configs = {1}
  NodeStates <- Lifecycle
  Budget = 1
  Debounced = TRUE
  PoolEnv = {"detect", "render", "drainCheck", "update", "restart"}
  MaxEvents = 2
  MaxFaults = 1
INVARIANTS TypeOK
PROPERTIES StatusSettles TransitionTimesKept
