CONSTANTS
  Files = {f1}
  None = None
  Methods = {"hover"}
  Faults = {}
  Options <- Defaults
  MaxVersion = 1
  MaxId = 1
  MaxQueue = 2
  MaxReplies = 2
  MaxRestarts = 0
SPECIFICATION Spec
INVARIANT ErrorsAreRealTime
CHECK_DEADLOCK FALSE
