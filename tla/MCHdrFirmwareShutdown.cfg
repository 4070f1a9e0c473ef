SPECIFICATION Spec
CONSTANTS
  DdrCnt = 1
  NbBuf = 1
  Cmds = {"S"}
  MaxMsgs = 2
  MaxAddr = 1
  DmaMayFail = FALSE
  MayShutdown = TRUE
INVARIANT
  ShutdownQuiet
