SPECIFICATION FairSpec
CONSTANT
  RingSize = 2
PROPERTY
  ServedAfterInterrupt
