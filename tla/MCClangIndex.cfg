CONSTANTS
  Paths = {p1, p2}
  TUs = {t1, t2, t3, t4}
  None = None
  MayCrash <- EntryPoints
SPECIFICATION FairSpec
INVARIANTS TypeOK NoUseAfterDispose NoSilentLeak LockFreeOutsideItsScope GuardReady DiesOnlyUnguarded
PROPERTIES EveryCallReturns ImplementsTuCache
CHECK_DEADLOCK FALSE
