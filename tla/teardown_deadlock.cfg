SPECIFICATION TeardownSpec
CONSTANTS
  Client = client
  Server = server
  Threads = {client}
  Closers = {client, server}
  MaxSends = 0
  MaxReplies = 0
  MayBreak = TRUE
PROPERTIES DestructorReturns
CHECK_DEADLOCK FALSE
