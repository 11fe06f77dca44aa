SPECIFICATION SubSpec
CONSTANTS
  i1 = i1
  i2 = i2
  q1 = q1
  q2 = q2
  Publishers = {p1}
  Paths = {q1, q2}
  Issues = {i1, i2}
  MaxStamp = 2
  MaxFaults = 1
  MaxListed = 2
  Absent = Absent
  Draft = Draft
SYMMETRY Symmetry
INVARIANTS
  SubTypeOK
  RetryFindsPathFree
  OnlyWholeStates
  AppliedInOrder
  MarkVouches
PROPERTIES
  ImplementsWriteOnce
