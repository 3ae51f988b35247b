SPECIFICATION FairSpec
CONSTANTS
  heartbeat = heartbeat
  Static <- OneStatic
  App = app
  Delay = 1
  Sliding = {2}
  Absolute = {1}
  Contents = {a, b}
  Expiries = {1, 2}
  None = None
  Ttl = 1
  Retry = 1
  Batch = 1
  MaxTime = 3
  MaxIds = 3
  MaxEvents = 2
 
PROPERTIES SweptExpired DueFires
CHECK_DEADLOCK FALSE
