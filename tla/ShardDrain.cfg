SPECIFICATION FairSpec
CONSTANTS
  k1 = k1
  k2 = k2
  Keys = {k1}
  QueueCapacity = 2
  IntervalTx = 1
  Retention = 2
  MaxTx = 2
  MaxCrashes = 0
  MaxOSCrashes = 0
  MaxRot = 0
  MaxCkptFaults = 1
  MaxLogFaults = 1
  MaxDrains = 1
 
PROPERTIES CadenceKept DrainEnds
CHECK_DEADLOCK FALSE
