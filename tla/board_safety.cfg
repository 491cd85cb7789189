SPECIFICATION Spec
CONSTANTS
  Names = {n1, n2}
  good = good
  half = half
  empty = empty
  EmptyRun = empty
  Runs = {good, empty}
  Contents = {good, half, empty}
  Score <- MCScore
  Pieces <- MCPieces
  NoScore = NoScore
  NoJob = NoJob
  Nothing = Nothing
  Blank = Blank
  Header = Header
  DiskMayFill = TRUE
  MaxStops = 1
INVARIANTS TypeOK OwnScore ScoreOfThisRun
PROPERTIES ImplementsBoard SubmissionEnds
CHECK_DEADLOCK FALSE
