SPECIFICATION Spec
CONSTANTS
  Liquidity = {l1}
  Pairs = {p, q}
  WethPairs = {p}
  NoPair = NoPair
  NoTx = NoTx
  Workers = 1
  MaxSeen = 1
CHECK_DEADLOCK FALSE
INVARIANTS
  MinimumKept
