CONSTANTS
  Jobs = {j1, j2}
  Callers = {c1, c2}
  NoJob = NoJob
  Tasks = {t1, t2}
  Clients = {k1, k2}
  MaxSaves = 1
  MaxRestarts = 1
  Parts = {"jobs", "tasks"}
SPECIFICATION JobsSpec
SYMMETRY Symmetry
INVARIANTS JobsTypeOK ReportIsFinal OpenTaskIsRunOrFound
PROPERTIES RecoveryFailsOnlyRunning ImplementsJobMachine KnownRunnerNeverStale
CHECK_DEADLOCK FALSE
