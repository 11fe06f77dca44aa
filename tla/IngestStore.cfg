SPECIFICATION Spec
CONSTANTS
  i1 = i1
  i2 = i2
  c1 = c1
  c2 = c2
  r1 = r1
  IssueIds = {i1, i2}
  Refs = {r1}
  Comments = {c1, c2}
  CommentsOf <- CommentsStay
  AuthorsOf <- OneWrote
  Idents = {"ENG-1", "ENG-2"}
  Texts = {"text"}
  Bodies = {"words"}
  Names = {"name"}
  MaxBatch = 2
  Absent = Absent
  Stub = Stub
INVARIANTS
  TypeOK
  FtsMirrors
  HashFaithful
  RefsExist
PROPERTIES
  StubsNeverBlank
  ImplementsArchive
