SPECIFICATION FairSpec
CONSTANTS
  m1 = m1  m2 = m2  c1 = c1  c2 = c2  o1 = o1
  Managers = {m1, m2}
  Callers = {c1, c2}
  Operators = {o1}
  ManagerOf <- AllOnM1
  LastEvent = 2
  Encrypted = {1}
  Commands = 2
  RetryAttempts = 2
  MaxTracked = 5
  Deployments <- AllDeployments
INVARIANTS OneDriverUnlessRetried NothingRepeated
PROPERTIES EveryCallReturns StalledSagaSettles
CHECK_DEADLOCK FALSE
