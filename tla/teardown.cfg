SPECIFICATION TeardownSpec
CONSTANTS
  Client = client
  Server = server
  Threads = {client}
  Closers = {client, server}
  MaxSends = 1
  MaxReplies = 1
  MayBreak = TRUE
INVARIANTS TypeOK NothingStranded HandledOnce
PROPERTIES NothingLostByClose NothingAfterwards DestructorReturnsOrDeadlocks
CHECK_DEADLOCK FALSE
