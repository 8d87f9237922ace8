SPECIFICATION CallsSpec
CONSTANTS
  Threads = {t1, t2, t3}
  Main = Main
  None = None
  TlsThreads = {t1, t2}
  NumKeys = 2
  PTHREAD_DESTRUCTOR_ITERATIONS = 3
  MaxCreate = 3
  Joined = {t1}
INVARIANTS
  WokenAfterExit
  NoUseAfterFree
  NoStaleValue
  AllDestroyed
PROPERTIES
  JoinedFreed
  ExitEnds
CHECK_DEADLOCK FALSE
