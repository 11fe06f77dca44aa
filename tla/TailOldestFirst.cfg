SPECIFICATION Spec
CONSTANTS
  N = 2
  Ascending = TRUE
  Modes = {"tail", "stream"}
  Caps = {0, 1}
  PageSize = 1
  OverServe = 1
  EmptyPages = TRUE
  Overlap = 1
  MaxWallClock = 2
  MaxPages = 3
  MaxZeroItemRuns = 2
  MaxClock = 3
  MaxVer = 2
  MaxGone = 0
  MaxFaults = 1
  MaxSinceRuns = 1
INVARIANTS
  TypeOK
  NoEscape
  StreamLosesNothing
  CapRespected
  EmptyPageGuard
PROPERTIES
  ArchiveNeverRegresses
  FullResumeKeepsMark
CHECK_DEADLOCK FALSE
