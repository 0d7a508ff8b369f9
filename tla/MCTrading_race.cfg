SPECIFICATION Spec
CONSTANTS
  Tokens = {t1, t2}
  Honeypots = {}
  Risky = {}
  AutoBuys = {a1}
  Loop = loop
  Bundler = FALSE
  Restarts = TRUE
  MaxBuys = 2
  NoTx = NoTx
CHECK_DEADLOCK FALSE
INVARIANTS
  ListedNotDisplaced
