SPECIFICATION FairSpec
CONSTANTS
  p1 = p1  p2 = p2
  LastMessage = 2
  Processors = {p1, p2}
  Prefixes = {"webhook", "kafka", "sns", "email"}
  Mailings <- Various
  Policy <- Guarded
  Routed = {"webhook", "kafka", "sns"}
  BatchSize = 2
  MaxAttempts = 2
  SlowPublishers = FALSE
  MaxMishaps = 2
INVARIANTS ClaimedOnce CompletedWasSent
PROPERTIES EveryMessageSettles
