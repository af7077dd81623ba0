SPECIFICATION Spec
CONSTANTS
  m1 = m1  m2 = m2  c1 = c1  c2 = c2  o1 = o1
  Managers = {m1, m2}
  Callers = {c1, c2}
  Operators = {o1}
  ManagerOf <- AllOnM1
  LastEvent = 3
  Encrypted = {2}
  Commands = 1
  RetryAttempts = 2
  MaxTracked = 5
  Deployments <- RestartedDeployment
INVARIANT RestartLosesNothing
CHECK_DEADLOCK FALSE
