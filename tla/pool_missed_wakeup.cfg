SPECIFICATION Spec
CONSTANTS
  Requests <- PlainCommands
  Names <- MCNames
  ThreadLimit = 2
  NoNumber = NoNumber
  NoResults = NoResults
  InitError = InitError
  NoAnswer = NoAnswer
  IndriMayFail = FALSE
  MaxSpurious = 0
  MaxQueries = 2
  MCKinds = {"plain"}
PROPERTIES OutputProcessed
CHECK_DEADLOCK FALSE
