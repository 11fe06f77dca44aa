SPECIFICATION ReadsSpec
CONSTANTS
  i1 = i1
  i2 = i2
  c1 = c1
  l1 = l1
  t1 = t1
  u1 = u1
  IssueIds = {i1, i2}
  Refs = {t1, u1, l1}
  Labels = {l1}
  Joined = {t1}
  Ingests <- SomeIngests
  Listed <- SomeListed
  Tables <- ThreeTables
  Comments = {c1}
  CommentsOf <- OneCommented
  AuthorsOf <- OneWrote
  Idents = {"ENG-1", "ENG-2"}
  Texts = {"text"}
  Bodies = {words}
  Names = {"name"}
  MaxBatch = 1
  MaxCommits = 2
  Absent = Absent
  Stub = Stub
INVARIANTS
  ExportRoundTrips
