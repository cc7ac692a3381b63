SPECIFICATION Spec
CONSTANTS
  Assets <- MCAssets
  Path <- MCPath
  ExitLegs <- MCExitLegs
  InitialBalances <- MCBalances
  Budget = 5
  MaxCycles = 1
  MaxClearOrders = 1
  FirstLegStop = FALSE
  UserStream = FALSE
  Startup = FALSE
  CycleBound = 3
  ReplyBound = 2
  None = None
INVARIANTS SlotHeld CycleCap Ledger TimeoutHitsItsOwnCycle
PROPERTIES LegsOnlyFromHealthyCycles  HaltIsFinal
