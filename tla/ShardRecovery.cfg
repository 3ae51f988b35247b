SPECIFICATION Spec
CONSTANTS
  k1 = k1
  k2 = k2
  Keys = {k1}
  QueueCapacity = 1
  IntervalTx = 1
  Retention = 2
  MaxTx = 2
  MaxCrashes = 1
  MaxOSCrashes = 1
  MaxRot = 1
  MaxCkptFaults = 1
  MaxLogFaults = 0
  MaxDrains = 0
INVARIANTS SInv IdsFresh AckedVisible RetainedReplayable StampsAreLowerBounds
PROPERTIES RecoversExactly
CHECK_DEADLOCK FALSE
