SPECIFICATION ForkSpec
CONSTANTS
  MAX_THREAD_TIMERS = 1
  Programs = {p1, p2, p3}
  Forkers = {p2, p3}
  Handlers = {h1, h2}
  None = None
  Settings <- AllSettings
INVARIANTS
  FreeMeansUnused
  HandlersPaired
PROPERTIES
  DeletedFreed
  DueFires
