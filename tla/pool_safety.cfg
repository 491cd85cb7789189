SPECIFICATION Spec
CONSTANTS
  Requests <- AllCommands
  Names <- MCNames
  ThreadLimit = 2
  NoNumber = NoNumber
  NoResults = NoResults
  InitError = InitError
  NoAnswer = NoAnswer
  IndriMayFail = TRUE
  MaxSpurious = 1
  MaxQueries = 3
  MCKinds = {"plain", "operators", "feedback", "failing", "unencodable", "malformed"}
INVARIANTS TypeOK NoneLost NoneDoubled ReplyFaithful NoMissedWakeup WorkersGone
PROPERTIES SleeperServed ImplementsService
CHECK_DEADLOCK FALSE
