SPECIFICATION FairSpec
CONSTANTS
  Readers = {r1}
  Names = {a, b}
  MaxLen = 2
  MaxWrites = 3
  SerialSize = 4
  None = None
INVARIANTS
  ReadNotTorn
PROPERTIES
  GetReturns
CHECK_DEADLOCK FALSE
