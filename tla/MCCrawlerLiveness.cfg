CONSTANTS
  MaxJob = 2
  Stops = {s1}
  Kind <- AllCrawls
  NoJob = NoJob
  ConcurrentStarts = FALSE
  MaxCrashes = 1
  MaxLost = 1
SPECIFICATION FairSpec
PROPERTIES StopEndsJob RunEndsJob
CHECK_DEADLOCK FALSE
