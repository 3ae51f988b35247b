SPECIFICATION Spec
CONSTANTS
  MaxTx = 3
  MaxEpoch = 1
  QueueDepth = 2
  MaxBatch = 2
  MaxCrashes = 1
  MaxOSCrashes = 1
  MaxWriteFaults = 0
  MaxSyncFaults = 0
INVARIANTS AckedRecoverable ConfirmedStable SealedComplete
PROPERTIES ImplementsDurableLog
CHECK_DEADLOCK FALSE
