\* start(), stop() and their startups only: four generations, no updates.
CONSTANTS
  p1 = p1
  p2 = p2
  Url = Url
  AUTO = AUTO
  None = None
  MaxGen = 4
  MaxVersion = 2
  Port = {p1, p2}
  Config <- MCConfig
  Apply = {}
  Check = {}
  Edit = {}
  Faults = {"answer"}
SPECIFICATION FairSpec
INVARIANTS ReadyMeansAnswered StoppedIsQuiet
PROPERTY ServerReached
\* start() and stop() are bounded, so a behaviour may end.
CHECK_DEADLOCK FALSE
