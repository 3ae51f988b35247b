SPECIFICATION Spec
CONSTANTS
  k1 = k1
  k2 = k2
  Keys = {k1, k2}
  QueueCapacity = 1
  IntervalTx = 1
  Retention = 2
  MaxTx = 3
  MaxCrashes = 1
  MaxOSCrashes = 0
  MaxRot = 0
  MaxCkptFaults = 0
  MaxLogFaults = 0
  MaxDrains = 0
PROPERTIES RecoversCommittedState
CHECK_DEADLOCK FALSE
