SPECIFICATION Spec
CONSTANTS
  None = None
  MaxTroubles = 1
  Field = {"hourly", "daily"}
  Value = {"3", "7"}
  Bad = "text"
  CardPolls = 2
  Target = {"original", "/tmp/a"}
  Original = "original"
  PagePolls = 1
INVARIANT ConsentShown
PROPERTIES EditsKept ConfirmedShown ActionsReturn
\* The user may leave everything alone.
CHECK_DEADLOCK FALSE
