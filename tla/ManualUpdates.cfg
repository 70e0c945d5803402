\* Two apply requests and the automatic updater within one lifecycle.
\* A recreation may fail; servers that are recreated answer.
CONSTANTS
  p1 = p1
  p2 = p2
  a1 = a1
  a2 = a2
  k1 = k1
  k2 = k2
  Url = Url
  AUTO = AUTO
  None = None
  MaxGen = 1
  MaxVersion = 3
  Port = {p1, p2}
  Config <- MCConfig
  Apply = {a1, a2}
  Check = {k1, k2}
  Edit = {}
  Faults = {"pull", "recreate", "save"}
SPECIFICATION Spec
INVARIANTS OneInstall ClientFollowsContainer EmitterFollowsClient
PROPERTIES PinKept
\* start() and stop() are bounded, so a behaviour may end.
CHECK_DEADLOCK FALSE
