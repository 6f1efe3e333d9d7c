CONSTANTS
  Files = {f1, f2}
  None = None
  Methods = {"formatting", "completion", "workspaceSymbol"}
  Faults = {}
  Options <- Defaults
  MaxVersion = 1
  MaxId = 1
  MaxQueue = 2
  MaxReplies = 2
  MaxRestarts = 0
SPECIFICATION Spec
SYMMETRY Symmetric
INVARIANTS TypeOK AnswersAreCurrent TuOnlyForOpen StoreFollowsDocuments
CHECK_DEADLOCK FALSE
