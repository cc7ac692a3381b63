SPECIFICATION FairSpec
CONSTANTS
  SessionBound = 3
  RetryCap = 6
INVARIANTS Supervised  ControlEndsItsSource
PROPERTIES StopReturns
