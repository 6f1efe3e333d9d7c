CONSTANTS
  Docs = {d1, d2}
  None = None
  MaxEdits = 2
  MaxSwitches = 2
SPECIFICATION ViewsFairSpec
PROPERTIES OutlineHasSymbols
CHECK_DEADLOCK FALSE
