SPECIFICATION Spec
CONSTANTS
  Assets <- MCAssets
  Path <- MCPath
  ExitLegs <- MCExitLegs
  InitialBalances <- MCBalances
  Budget = 5
  MaxCycles = 1
  MaxClearOrders = 1
  FirstLegStop = FALSE
  UserStream = TRUE
  Startup = FALSE
  CycleBound = 2
  ReplyBound = 2
  None = None
INVARIANTS Ledger HoldingsMatchFills
