SPECIFICATION Spec
CONSTANTS
  Assets <- MCAssets
  Path <- MCPath
  ExitLegs <- MCExitLegs
  InitialBalances <- MCBalances
  Budget = 4
  MaxCycles = 1
  MaxClearOrders = 2
  FirstLegStop = TRUE
  UserStream = FALSE
  Startup = TRUE
  CycleBound = 1
  ReplyBound = 1
  None = None
INVARIANTS ClearingIsNotACycle
