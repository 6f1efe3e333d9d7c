CONSTANTS
  Paths = {p1, p2}
  TUs = {t1, t2, t3, t4}
  None = None
  MayCrash <- OnlyVisit
SPECIFICATION Spec
SYMMETRY Symmetric
INVARIANT CrashNeverKills
CHECK_DEADLOCK FALSE
