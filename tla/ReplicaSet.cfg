SPECIFICATION Spec
CONSTANTS
  m1 = m1
  m2 = m2
  m3 = m3
  Nobody = Nobody
  Member = {m1, m2, m3}
  Boot = m1
  Candidates = {m2, m3}
  MaxEpoch = 3
  MaxSharedEpoch = 2
  MaxTx = 1
  MaxCrashes = 1
  MaxDials = 1
CONSTRAINT Affordable
SYMMETRY ReplicaSymmetry
INVARIANTS
  OneWinnerPerEpoch VotesRemembered MarkerCoversLog 
CHECK_DEADLOCK FALSE
