SPECIFICATION FairSpec
CONSTANTS
  LastEvent = 2
  Handled = {1, 2}
  BatchSize = 2
  ApplyBatches = FALSE
  MaxRetries = 2
  StartFromBeginning = FALSE
  Options <- Various
  Budgets <- SeveralOfEither
INVARIANTS NothingLost SelfHealing
PROPERTIES CatchesUp StopReturns
CHECK_DEADLOCK FALSE
