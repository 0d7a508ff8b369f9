SPECIFICATION Spec
CONSTANTS
  Tokens = {t1, t2}
  Honeypots = {t1}
  Risky = {t2}
  AutoBuys = {a1}
  Loop = loop
  Bundler = TRUE
  Restarts = TRUE
  MaxBuys = 2
  NoTx = NoTx
CHECK_DEADLOCK FALSE
INVARIANTS
  TypeOK
  HoneypotsNotBought
  BoughtIsListed
  OneWayOnly
