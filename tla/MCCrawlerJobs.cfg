CONSTANTS
  MaxJob = 2
  Stops = {s1, s2}
  Kind <- Mixed
  NoJob = NoJob
  ConcurrentStarts = FALSE
  MaxCrashes = 1
  MaxLost = 0
SPECIFICATION Spec
SYMMETRY Symmetry
INVARIANTS TypeOK OnlyOneActiveJob RunnerHasLiveRow
PROPERTIES OneTerminalEvent FinishedMovedOnlyByStart
CHECK_DEADLOCK FALSE
