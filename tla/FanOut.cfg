SPECIFICATION FairSpec
CONSTANTS
  t1 = t1
  h1 = h1
  Tcp = {t1}
  Http = {h1}
  Fleets <- OneConnection
  Queries = {q1}
  MaxTx = 2
  RingCap = 1
  QueueCap = 1
  WindowCap = 1
  MaxSubs = 2
  MaxPlans = 1
  MaxBatch = 2
  MaxMsgs = 2
  MaxFaults = 1
  Free = Free
INVARIANTS DeltasInOrder  ResumeExact NothingOutlivesClose
  
CHECK_DEADLOCK FALSE
