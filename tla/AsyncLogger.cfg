SPECIFICATION FairSpec
CONSTANTS
  Capacity = 2
  SubmitBound = 6
INVARIANTS EveryRecordAccounted FileIsAPrefix StopDrains
PROPERTIES RecordsSettle StopReturns
