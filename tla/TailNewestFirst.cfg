SPECIFICATION Spec
CONSTANTS
  N = 2
  Ascending = FALSE
  Modes = {"tail", "stream"}
  Caps = {0, 1}
  PageSize = 1
  OverServe = 0
  EmptyPages = FALSE
  Overlap = 1
  MaxWallClock = 1
  MaxPages = 3
  MaxZeroItemRuns = 2
  MaxClock = 3
  MaxVer = 2
  MaxGone = 1
  MaxFaults = 1
  MaxSinceRuns = 1
INVARIANTS
  NoEscape
  StreamLosesNothing
PROPERTIES
  FullResumeKeepsMark
CHECK_DEADLOCK FALSE
