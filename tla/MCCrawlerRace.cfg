CONSTANTS
  MaxJob = 2
  Stops = {s1}
  Kind <- AllCrawls
  NoJob = NoJob
  ConcurrentStarts = TRUE
  MaxCrashes = 0
  MaxLost = 0
SPECIFICATION Spec
INVARIANTS OnlyOneActiveJob
CHECK_DEADLOCK FALSE
