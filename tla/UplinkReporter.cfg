\* Six events from outside, two clients, two link states.
CONSTANTS
  State = {online, metered}
  Other = Other
  Unset = Unset
  Forgotten = Forgotten
  None = None
  MaxEvents = 6
  MaxClients = 2
SPECIFICATION FairSpec
INVARIANTS QuietMeansKnown
PROPERTIES HoldKept Learned
\* Nothing has to happen from outside.
CHECK_DEADLOCK FALSE
