SPECIFICATION MutexSpec
CONSTANTS
  Threads = {t1, t2, t3}
  NoOwner = NoOwner
  Type = "recursive"
  CounterSize = 2
  MaxDepth = 3
INVARIANTS
  MutualExclusion
  NoOrphan
  RecursiveSafe
PROPERTIES
  DestroyedUntouched
  LockCallsProgress
  ImplementsLock
