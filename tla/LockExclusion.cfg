SPECIFICATION FairSpec
CONSTANTS
  Procs = {p1, p2}
  NoProc = none
  MaxMark = 2
  MaxFaults = 2
INVARIANTS
  TypeOK
  WritersExclusive
  MarkNotOvertaken
PROPERTIES
  RemovesItsOwn
  ImplementsMutex
  LockComesFree
