\* The automatic updater within one lifecycle; new servers may not answer.
\* The container may come back on another port.
CONSTANTS
  p1 = p1
  p2 = p2
  k1 = k1
  k2 = k2
  Url = Url
  AUTO = AUTO
  None = None
  MaxGen = 1
  MaxVersion = 3
  Port = {p1, p2}
  Config <- MCConfig
  Apply = {}
  Check = {k1, k2}
  Edit = {}
  Faults = {"answer", "pull", "save"}
SPECIFICATION FairSpec
INVARIANTS UpdaterAlive
PROPERTIES RollbackReturns InstallEnds
\* start() and stop() are bounded, so a behaviour may end.
CHECK_DEADLOCK FALSE
