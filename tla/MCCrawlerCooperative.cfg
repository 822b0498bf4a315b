CONSTANTS
  MaxJob = 2
  Stops = {s1}
  Kind <- Mixed
  NoJob = NoJob
  ConcurrentStarts = FALSE
  MaxCrashes = 0
  MaxLost = 0
SPECIFICATION Spec
PROPERTIES CooperativeStopIsRequested
CHECK_DEADLOCK FALSE
