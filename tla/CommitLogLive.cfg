SPECIFICATION FairSpec
CONSTANTS
  MaxTx = 2
  MaxEpoch = 2
  QueueDepth = 2
  MaxBatch = 2
  MaxCrashes = 0
  MaxOSCrashes = 0
  MaxWriteFaults = 1
  MaxSyncFaults = 1
INVARIANTS IInv CloseDrains
PROPERTIES MarksAdvance AppendsSettle SetEpochSettles ThreadsRetire
CHECK_DEADLOCK FALSE
