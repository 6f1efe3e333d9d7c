CONSTANTS
  A = A
  B = B
  None = None
  Classes <- TwoClasses
  Alphabets <- AllAlphabets
  MaxLines = 6
  NodesWithField <- FieldNodes
SPECIFICATION Spec
INVARIANTS FoldsAreRegions WarningsMatchFolds OutlineComplete SidebarMatchesFolds ExtractorsAgreeOnText TokensArriveInOrder
CHECK_DEADLOCK FALSE
