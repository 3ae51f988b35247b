SPECIFICATION Spec
CONSTANTS
  m1 = m1
  m2 = m2
  m3 = m3
  Nobody = Nobody
  Member = {m1, m2, m3}
  Boot = m1
  Candidates = {m2}
  MaxEpoch = 2
  MaxSharedEpoch = 2
  MaxTx = 1
  MaxCrashes = 0
  MaxDials = 1
PROPERTY WinnerHoldsAcked
CHECK_DEADLOCK FALSE
