CONSTANTS
  A = A
  B = B
  None = None
  Classes <- TwoClasses
  Alphabets <- CommentedAlphabet
  MaxLines = 5
  NodesWithField <- FieldNodes
SPECIFICATION Spec
INVARIANT RegionIsSilent
CHECK_DEADLOCK FALSE
