SPECIFICATION Spec
CONSTANTS
  c1 = c1
  c2 = c2
  c3 = c3
  Commits = {c1, c2, c3}
  NULL = NULL
  NoPattern = NoPattern
  Versions <- MCVersions
  Filters <- MCFilters
  Patterns <- MCPatterns
  MAX_RESULTS = 2
  Sessions <- MCSessions
  BATCH_SIZE = 1
  MaxCommits = 2
INVARIANTS NavigationRight LastFindExact OnlyPagesJobRuns
PROPERTY LatestShown
CHECK_DEADLOCK FALSE
