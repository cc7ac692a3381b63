SPECIFICATION FairSpec
CONSTANTS
  Capacity = 3
  Batch = 2
  MessageBound = 7
INVARIANTS NoSlotRace EveryMessageAccounted StopDrains
PROPERTIES ImplementsQueue StopReturns
