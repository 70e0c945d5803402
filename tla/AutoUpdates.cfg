\* The automatic updater, an apply request and an edit, across restarts.
CONSTANTS
  p1 = p1
  k1 = k1
  a1 = a1
  e1 = e1
  Url = Url
  AUTO = AUTO
  None = None
  MaxGen = 3
  MaxVersion = 3
  Port = {p1}
  Config <- MCConfig
  Apply = {a1}
  Check = {k1}
  Edit = {e1}
  Faults = {"answer", "pull"}
SPECIFICATION HSpec
CONSTRAINT NoRestores
INVARIANTS RestartKeepsVersion ExportsFollowSettings
PROPERTIES AutoNeverDowngrades
\* start() and stop() are bounded, so a behaviour may end.
CHECK_DEADLOCK FALSE
