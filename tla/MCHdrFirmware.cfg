SPECIFICATION Spec
CONSTANTS
  DdrCnt = 2
  NbBuf = 2
  Cmds = {"S", "E", "R"}
  MaxMsgs = 5
  MaxAddr = 3
  DmaMayFail = TRUE
  MayShutdown = TRUE
INVARIANTS
  TypeOK
  TargetKnown
  DoneMeansFilled
  IdleIsQuiet
  LockIsReleased
  AnnouncedOnce
