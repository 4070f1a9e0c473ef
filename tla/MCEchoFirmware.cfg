SPECIFICATION FairSpec
CONSTANTS
  Texts = {"ST", "text"}
  MaxSent = 4
  TxBufs = 2
  RxBufs = 2
INVARIANTS
  TypeOK
  CompletedSentOnce
  BuffersStable
PROPERTIES
  StartAnswered
CHECK_DEADLOCK FALSE
