SPECIFICATION FairSpec
CONSTANTS
  main = main
  sdb = sdb
  other = other
  Setters = {main, other}
  Readers = {sdb}
  BufSize = 1
  Sizes = {1, 2}
  MaxObj = 3
  MaxMem = 3
  MaxMsgs = 2
  MaxSessions = 2
  MayFail = TRUE
  FwRestarts = TRUE
  Handshake = TRUE
  ReadersWait = TRUE
CHECK_DEADLOCK FALSE
INVARIANTS
  TypeOK
  IndexIsPosition
  SizeIsTheOneWritten
  NeverRefused
  OnlyOverwrittenLeaks
PROPERTIES
  OtherwiseFreedOnce
  EventServed
