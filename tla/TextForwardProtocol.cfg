CONSTANTS
  A = A
  B = B
  None = None
  Classes <- TwoClasses
  Alphabets <- ForwardAlphabet
  MaxLines = 6
  NodesWithField <- FieldNodes
SPECIFICATION Spec
INVARIANT FallbackNests
CHECK_DEADLOCK FALSE
