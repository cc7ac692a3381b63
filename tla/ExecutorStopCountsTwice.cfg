SPECIFICATION Spec
CONSTANTS
  Assets <- MCAssets
  Path <- MCPath
  ExitLegs <- MCExitLegs
  InitialBalances <- MCBalances
  Budget = 5
  MaxCycles = 0
  MaxClearOrders = 1
  FirstLegStop = TRUE
  UserStream = FALSE
  Startup = FALSE
  CycleBound = 1
  ReplyBound = 1
  None = None
INVARIANTS OneOutcomePerCycle
