SPECIFICATION Spec
CONSTANTS
  c1 = c1  c2 = c2
  Clients = {c1, c2}
  MaxCalls = 3
  MaxFailures = 1
  MaxFaults = 1
  MaxCrashes = 1
INVARIANTS OneHandler EffectOnce InProgressIsTrue
CHECK_DEADLOCK FALSE
