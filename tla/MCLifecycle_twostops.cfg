\* A second /stop while the first one still waits.
SPECIFICATION Spec
CONSTANTS
  Nets = {ethereum, bsc}
  Waiters = {w1, w2}
  MaxStarts = 3
  None = None
CHECK_DEADLOCK FALSE
INVARIANTS
  OneSession
