SPECIFICATION Spec
CONSTANTS
  Orders <- MCOrders
  Buys <- MCBuys
  Size = 2
  CallBound = 1
  None = None
INVARIANTS EndsOnIoThread
