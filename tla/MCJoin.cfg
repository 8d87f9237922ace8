SPECIFICATION Spec
CONSTANTS
  Threads = {t1, t2}
  Main = Main
  None = None
INVARIANTS
  JoinAfterExit
