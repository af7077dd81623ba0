SPECIFICATION Spec
CONSTANTS
  Kinds <- AllKinds
  Streams = {"a", "b"}
  Wanted = {"a"}
  BufferSize = 1
  PageSize = 2
  Retries = {0, 2}
  MaxEvents = 4
  MaxFaults = 2
INVARIANTS ExactlyUpToPosition  
PROPERTIES EventuallyDelivered
CHECK_DEADLOCK FALSE
