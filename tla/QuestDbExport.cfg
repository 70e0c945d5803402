\* From 2020-12-10, in a year with 53 weeks, into February 2021.
SPECIFICATION Spec
CONSTANTS
  FirstDay = 18606
  LastDay = 18666
  Passing = {12, 35}
  Lateness = 5
  MaxArrivals = 1
  None = None
\* Days and arrivals are bounded, so a behaviour may end.
CHECK_DEADLOCK FALSE
INVARIANTS WeekHoldsToday ManifestSound ShardsWhole
PROPERTIES HistoryKept
