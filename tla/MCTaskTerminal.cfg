CONSTANTS
  Jobs = {j1, j2}
  Callers = {c1, c2}
  NoJob = NoJob
  Tasks = {t1, t2}
  Clients = {k1, k2}
  MaxSaves = 1
  MaxRestarts = 1
  Parts = {"tasks"}
SPECIFICATION JobsSpec
PROPERTY TerminalAcceptsNoTransition
CHECK_DEADLOCK FALSE
