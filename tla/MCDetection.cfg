SPECIFICATION FairSpec
CONSTANTS
  Liquidity = {l1}
  Pairs = {p, q}
  WethPairs = {p}
  NoPair = NoPair
  NoTx = NoTx
  Workers = 1
  MaxSeen = 2
CHECK_DEADLOCK FALSE
INVARIANTS
  TypeOK
  FilterExact
  OnChainFirst
PROPERTIES
  BackgroundEnds
