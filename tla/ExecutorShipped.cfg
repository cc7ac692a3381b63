SPECIFICATION FairSpec
CONSTANTS
  Assets <- MCAssets
  Path <- MCPath
  ExitLegs <- MCExitLegs
  InitialBalances <- MCBalances
  Budget = 5
  MaxCycles = 2
  MaxClearOrders = 1
  FirstLegStop = TRUE
  UserStream = FALSE
  Startup = TRUE
  CycleBound = 3
  ReplyBound = 1
  None = None
 
PROPERTIES SlotIsReleased ClearingEnds 
