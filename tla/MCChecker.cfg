SPECIFICATION Spec
CONSTANTS
  Functions <- MCFunctions
  Risk <- MCRisk
  Blacklists = {"addBots"}
  Taxes <- MCTaxes
CHECK_DEADLOCK FALSE
INVARIANTS
  TypeOK
  SafeVerdictIsEarned
  RaceLosesOneSide
  VerdictTurnsOnSale
