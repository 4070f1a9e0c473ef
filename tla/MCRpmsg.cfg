SPECIFICATION FairSpec
CONSTANTS
  Epts = {uart, sdb}
  LogEpt = uart
  Service <- MCService
  BmpSize = 3
  NsAddr = 2
  TxBufs = 1
  RxBufs = 2
  Ticks = 1
  MaxErrors = 1
  MaxChanges = 3
INVARIANTS
  TypeOK
  BuffersAccounted
  AddressesExact
  DeliveredToOwner
  BoundToOwnPeer
  RxDrained
PROPERTY SendReturnsUnlessStuck
CHECK_DEADLOCK FALSE
