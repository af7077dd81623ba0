SPECIFICATION ReadSpec
CONSTANTS
  NULL = NULL
  c1 = c1
  c2 = c2
  Clients = {c1, c2}
  Ids = {1, 2, 3}
  Deployments <- Rolling
  MaxWrites = 4
  MaxFaults = 1
INVARIANTS NoLostUpdate RepositoriesAgree PagesCover
CHECK_DEADLOCK FALSE
