SPECIFICATION SysFairSpec
CONSTANTS
  DdrCnt = 1
  NbBuf = 1
  Cmds = {"S", "R"}
  MaxMsgs = 5
  MaxAddr = 1
  DmaMayFail = FALSE
  MayShutdown = TRUE
  MaxDropped = 0
PROPERTY
  WaitEnds
CHECK_DEADLOCK FALSE
