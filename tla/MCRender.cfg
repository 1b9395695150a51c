SPECIFICATION FairSpec
CONSTANTS
  Names = {1, 2}
  Templates <- SomeTemplates
  Short <- ShortByReboot
  Strategies = {"Never", "IfRequired"}
  MaxCollisionRetries = 10
  Lags = {"rmcs"}
  MaxChanges = 3
INVARIANTS TypeOK MergeIsWinners CurrentMeansApplied
PROPERTIES RenderSettles
