SPECIFICATION FairSpec
CONSTANTS
  FetchWorkers = {f1, f2}
  Workers = {p1, p2}
  HashQueueSize = 2
  TxQueueSize = 1
  CountMetrics = TRUE
  MaxHashes = 3
CHECK_DEADLOCK FALSE
PROPERTIES
  ImplementsPipe
  ShutdownCompletes
  Resubscribes
  GracefulDrain
INVARIANTS
  TypeOK
  HashAccounting
  TxAccounting
  NoSendOnClosedChannel
  QuietAfterWait
  NoTxLeftBehind
