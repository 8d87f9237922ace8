SPECIFICATION Spec
CONSTANTS
  Threads = {t1, t2, t3}
  NoThread = NoThread
  Writers = {t1, t2}
  Limits = {"none", "ahead"}
  MaxHold = 1
INVARIANTS
  NoSleeperOnFreeLock
