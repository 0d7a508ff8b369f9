\* One /stop at a time: the next comes after "Stopped".
SPECIFICATION FairSpec
CONSTANTS
  Nets = {ethereum, bsc}
  Waiters = {w1}
  MaxStarts = 3
  None = None
CHECK_DEADLOCK FALSE
INVARIANTS
  TypeOK
  LiveIsReachable
  OneSession
  RunningOnOneNet
PROPERTIES
  ImplementsSession
  StopIsAnswered
