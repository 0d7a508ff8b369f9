SPECIFICATION FairSpec
CONSTANTS
  Chats = {7}
  GasTexts = {"100", "abc"}
  Numbers = {"100"}
  DefaultGas = "100"
  NoLimit = NoLimit
  Unset = Unset
  Environments <- MCEnvironments
  Faults = FALSE
CHECK_DEADLOCK FALSE
PROPERTIES
  TokenIsFound
