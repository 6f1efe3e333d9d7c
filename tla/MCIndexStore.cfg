CONSTANTS
  Paths = {p1, p2}
  Symbols = {s1, s2}
  None = None
  Faults = {"statement", "process"}
  MaxBatch = 2
  MaxCalls = 3
SPECIFICATION Spec
SYMMETRY Symmetric
INVARIANTS References SuccessReplaces OldAndNewNeverMix
CHECK_DEADLOCK FALSE
