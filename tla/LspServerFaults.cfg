CONSTANTS
  Files = {f1}
  None = None
  Methods = {"codeAction"}
  Faults = {"parse", "index", "visit", "kill", "badParams", "timeout"}
  Options <- Defaults
  MaxVersion = 1
  MaxId = 2
  MaxQueue = 2
  MaxReplies = 1
  MaxRestarts = 1
SPECIFICATION FairSpec
INVARIANTS DocumentsFollowBuffers AnswersInOrder ShownIsCurrent
PROPERTIES EveryRequestAnswered ServerEnds
CHECK_DEADLOCK FALSE
