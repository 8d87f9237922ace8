SPECIFICATION ObjectSpec
CONSTANTS
  Threads = {t1, t2, t3}
  MaxValue = 2
  NoOwner = NoOwner
  CounterSize = 3
  NoThread = NoThread
  Writers = {t1, t2}
  Limits = {"none", "ahead"}
  MaxHold = 2
INVARIANTS
  NoOrphan
  NoMissedBroadcast
  Exclusion
  PendingIsExact
PROPERTIES
  ImplementsCounting
  SignalDelivered
  BroadcastReleases
  WritersNotStarved
