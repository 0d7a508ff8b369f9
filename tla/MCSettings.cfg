SPECIFICATION FairSpec
CONSTANTS
  Chats = {7}
  GasTexts = {"100", "abc"}
  Numbers = {"100"}
  DefaultGas = "100"
  NoLimit = NoLimit
  Unset = Unset
  Environments <- MCEnvironments
  Faults = TRUE
CHECK_DEADLOCK FALSE
INVARIANTS
  TypeOK
  AutoBuyArmed
  RestartKeeps
PROPERTIES
  EnvTokenStarts
