SPECIFICATION FairSpec
CONSTANTS
  Orders <- MCOrders
  Buys <- MCBuys
  Size = 2
  CallBound = 3
  None = None
INVARIANTS NeverRejectsPlaced WalletHoldsReports
PROPERTIES ImplementsGateway EveryCallAnswered
