CONSTANTS
  Paths = {p1, p2}
  Symbols = {s1, s2}
  None = None
  Faults = {"statement"}
  MaxBatch = 2
  MaxCalls = 1
SPECIFICATION Spec
PROPERTIES ImplementsSymbolTable
CHECK_DEADLOCK FALSE
