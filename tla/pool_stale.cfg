SPECIFICATION Spec
CONSTANTS
  Requests <- BaselineCommands
  Names <- MCNames
  ThreadLimit = 2
  NoNumber = NoNumber
  NoResults = NoResults
  InitError = InitError
  NoAnswer = NoAnswer
  IndriMayFail = FALSE
  MaxSpurious = 0
  MaxQueries = 2
  MCKinds = {"plain", "operators"}
INVARIANTS OwnResults
CHECK_DEADLOCK FALSE
