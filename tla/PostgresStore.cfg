SPECIFICATION FairSpec
CONSTANTS
  s1 = s1  s2 = s2  r1 = r1
  Streams = {s1, s2}
  Clients = {c1, c2}
  Readers = {r1}
  NoClient = NoClient
  Filter <- AllFeed
  GenesisOrder <- OneExists
  Limit = 2
  XidAtLock = TRUE
  MaxBatch = 2
  MaxExpected = 1
  MaxAppends = 2
  Budgets <- AllBudgets
INVARIANTS TypeOK VersionsUnique StreamsGapFree SkipOnlyByInversion
PROPERTIES ImplementsEventLog AppendsTerminate CursorCatchesUp
