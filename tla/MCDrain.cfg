SPECIFICATION Spec
CONSTANTS
  Timeout = 6
  RetrySeconds = 8
  OtherEvents = TRUE
  MaxPods = 2
  Horizon = 10
INVARIANTS TypeOK StuckInTime StuckNotEarly
CHECK_DEADLOCK FALSE
