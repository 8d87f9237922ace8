SPECIFICATION AtExitSpec
CONSTANTS
  Dsos = {d1}
  NULL = NULL
  PageMax = 3
  MaxHandlers = 5
  MaxCalls = 3
INVARIANTS
  CalledOnce
PROPERTIES
  ReverseOrder
  FinalizeComplete
CHECK_DEADLOCK FALSE
