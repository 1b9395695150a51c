SPECIFICATION Spec
CONSTANTS
  Timeout = 6
  RetrySeconds = 8
  OtherEvents = FALSE
  MaxPods = 2
  Horizon = 10
PROPERTIES RetriesSpaced
CHECK_DEADLOCK FALSE
