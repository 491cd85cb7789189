SPECIFICATION Spec
CONSTANTS
  Conns = {c1, c2}
  Commands <- AllCommands
  MaxCommands = 2
  NDocuments = 2
  IndriMayFail = TRUE
  QueriesMayHang = TRUE
  DeleteMayKill = TRUE
  MayStop = TRUE
  Absent = Absent
  Wrong = Wrong
INVARIANTS TypeOK OneReplyEach RepliesFit
PROPERTIES ServesEach EveryCommandAnswered
CHECK_DEADLOCK FALSE
