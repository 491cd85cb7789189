SPECIFICATION Spec
CONSTANTS
  Client = client
  Server = server
  Threads = {client}
  Closers = {client}
  MaxSends = 3
  MaxReplies = 2
  MayBreak = TRUE
INVARIANTS InOrder
PROPERTIES NothingLostByClose
CHECK_DEADLOCK FALSE
