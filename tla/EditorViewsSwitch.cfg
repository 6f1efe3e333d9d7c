CONSTANTS
  Docs = {d1, d2}
  None = None
  MaxEdits = 2
  MaxSwitches = 2
SPECIFICATION ViewsSpec
PROPERTY UpdatesAreApplied
CHECK_DEADLOCK FALSE
