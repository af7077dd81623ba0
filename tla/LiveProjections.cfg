SPECIFICATION LiveSpec
CONSTANTS
  Notifiers = {n1, n2}
  Goroutines = {g1, g2}
  Inline = 2
  BufferSize = 1
  MaxEvents = 3
  MaxCalls = 3
SYMMETRY Symmetry
INVARIANTS EveryEventAccounted StopDrains
CHECK_DEADLOCK FALSE
