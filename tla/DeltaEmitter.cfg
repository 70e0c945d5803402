\* Two emitters, the server away once; the plugin may leave it stopped.
SPECIFICATION Spec
CONSTANTS
  Interval <- MCInterval
  Free = {4, 9, 11, 12}
  Unknown = Unknown
  None = None
  MaxStarts = 2
  MaxBreaks = 1
  MaxTime = 5
CHECK_DEADLOCK FALSE
INVARIANTS OneListener OverdueTrue StorageHysteresis FailureAlarmed
PROPERTIES Reconnects
