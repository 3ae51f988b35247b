SPECIFICATION FairSpec
CONSTANTS
  MaxCalls = 1
  MaxSessions = 3
  QueueCap = 1
  MaxRecords = 0
  MaxEvents = 2
INVARIANTS
  AppliedOnce
  CommitAckKept
PROPERTIES
  CallsSettle
CHECK_DEADLOCK FALSE
