SPECIFICATION Spec
CONSTANTS
  main = main
  sdb = sdb
  other = other
  Setters = {main}
  Readers = {sdb, other}
  BufSize = 1
  Sizes = {1}
  MaxObj = 1
  MaxMem = 1
  MaxMsgs = 2
  MaxSessions = 1
  MayFail = FALSE
  FwRestarts = TRUE
  Handshake = FALSE
  ReadersWait = FALSE
CHECK_DEADLOCK FALSE
INVARIANT
  SizeTakenOnce
