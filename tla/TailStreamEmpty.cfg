SPECIFICATION Spec
CONSTANTS
  N = 2
  Ascending = TRUE
  Modes = {"stream"}
  Caps = {0}
  PageSize = 1
  OverServe = 0
  EmptyPages = TRUE
  Overlap = 1
  MaxWallClock = 2
  MaxPages = 3
  MaxZeroItemRuns = 2
  MaxClock = 3
  MaxVer = 2
  MaxGone = 0
  MaxFaults = 0
  MaxSinceRuns = 1
INVARIANTS
  EmptyPageGuardOfBoth
CHECK_DEADLOCK FALSE
