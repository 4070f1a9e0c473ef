SPECIFICATION SysFairSpec
CONSTANTS
  DdrCnt = 1
  NbBuf = 1
  Cmds = {"S", "R"}
  MaxMsgs = 6
  MaxAddr = 2
  DmaMayFail = FALSE
  MayShutdown = TRUE
  MaxDropped = 1
INVARIANTS
  SysTypeOK
  DmaIntoLiveMemory
  SizeIsReal
PROPERTIES
  RefusedOnlyEarly
  Implements
  StartStored
CHECK_DEADLOCK FALSE
