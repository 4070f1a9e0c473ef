SPECIFICATION FairSpec
CONSTANT
  RingSize = 3
INVARIANTS
  TypeOK
  RingAnnounced
PROPERTIES
  RingServed
  NotifyReturns
  MessagesRead
