SPECIFICATION FairSpec
CONSTANTS
  Pairs = {a, b}
CHECK_DEADLOCK FALSE
INVARIANTS
  TypeOK
  IndexConsistent
  NoSubscriptionLeak
PROPERTIES
  SignalsShutDown
  PairsAreWatched
