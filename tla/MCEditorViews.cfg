CONSTANTS
  Docs = {d1, d2}
  None = None
  MaxEdits = 2
  MaxSwitches = 2
SPECIFICATION ViewsFairSpec
INVARIANTS NoUpdateLost
PROPERTIES OutlineSettles
CHECK_DEADLOCK FALSE
