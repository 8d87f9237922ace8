SPECIFICATION Spec
CONSTANTS
  Threads = {t1, t2}
  NoOwner = NoOwner
  Type = "recursive"
  CounterSize = 2
  MaxDepth = 2
INVARIANTS
  DestroyedUnlocked
