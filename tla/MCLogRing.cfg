SPECIFICATION FairSpec
CONSTANTS
  RbSize = 4
  ChanSize = 3
  MaxEntries = 10
  MaxTail = 5
CHECK_DEADLOCK FALSE
INVARIANTS
  TypeOK
  RingHoldsRecent
PROPERTIES
  AcceptedIsPrinted
