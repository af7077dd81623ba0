SPECIFICATION Spec
CONSTANTS
  Commands = {"c1", "c2"}
  Procs = {"old", "new"}
  Code <- TwoVersions
  Setups <- ThreeSetups
  CallerStamps = {0, 1}
  Raises <- OneOrTwo
  MaxAttempts = 2
  MaxFaults = 2
INVARIANTS DecidedOnFullHistory MessagesMatchEvents AnswerIsTrue DecodesRight
CHECK_DEADLOCK FALSE
