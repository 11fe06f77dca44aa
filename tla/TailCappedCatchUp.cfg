SPECIFICATION FairSpec
CONSTANTS
  N = 2
  Ascending = TRUE
  Modes = {"tail"}
  Caps = {1}
  PageSize = 1
  OverServe = 0
  EmptyPages = FALSE
  Overlap = 1
  MaxWallClock = 2
  MaxPages = 3
  MaxZeroItemRuns = 2
  MaxClock = 3
  MaxVer = 2
  MaxGone = 0
  MaxFaults = 0
  MaxSinceRuns = 1
PROPERTIES
  CatchUp
CHECK_DEADLOCK FALSE
