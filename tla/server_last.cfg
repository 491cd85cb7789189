SPECIFICATION Spec
CONSTANTS
  Conns = {c1}
  Commands <- LastDocument
  MaxCommands = 2
  NDocuments = 2
  IndriMayFail = FALSE
  QueriesMayHang = FALSE
  DeleteMayKill = FALSE
  MayStop = FALSE
  Absent = Absent
  Wrong = Wrong
INVARIANT NamedDocumentsKnown
CHECK_DEADLOCK FALSE
