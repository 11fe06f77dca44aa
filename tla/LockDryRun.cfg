SPECIFICATION Spec
CONSTANTS
  Procs = {p1, p2}
  NoProc = none
  MaxMark = 2
  MaxFaults = 0
INVARIANTS
  DryRunLeavesStoreAlone
