SPECIFICATION Spec
CONSTANTS
  Names = {1, 2}
  Templates <- RebootTemplates
  Short <- NoCollisions
  Strategies = {"Never"}
  MaxCollisionRetries = 10
  Lags = {}
  MaxChanges = 4
INVARIANTS RequirementsOfWinners
