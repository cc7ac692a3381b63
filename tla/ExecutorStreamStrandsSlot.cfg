SPECIFICATION FairSpec
CONSTANTS
  Assets <- MCAssets
  Path <- MCPath
  ExitLegs <- MCExitLegs
  InitialBalances <- MCBalances
  Budget = 5
  MaxCycles = 1
  MaxClearOrders = 1
  FirstLegStop = TRUE
  UserStream = TRUE
  Startup = FALSE
  CycleBound = 1
  ReplyBound = 2
  None = None
PROPERTIES SlotIsReleased
