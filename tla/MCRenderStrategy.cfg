SPECIFICATION Spec
CONSTANTS
  Names = {1, 2}
  Templates <- SomeTemplates
  Short <- ShortByReboot
  Strategies = {"Never", "IfRequired"}
  MaxCollisionRetries = 10
  Lags = {}
  MaxChanges = 3
INVARIANTS StrategyOfPool
