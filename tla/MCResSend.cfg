SPECIFICATION SendSpec
CONSTANTS
  NsCount = 3
  MaxChanges = 2
  Options <- MCOptions
  Replaced = {2}
  Retry = 2
  NoSocket = NoSocket
INVARIANTS
  UnchangedIsCurrent
  Attempts
  RightServer
PROPERTY QueryEnds
