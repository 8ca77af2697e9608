SPECIFICATION FairSpec
CONSTANTS
  w1 = w1
  w2 = w2
  k1 = k1
  k2 = k2
  k3 = k3
  NoOne = NoOne
  Strategy = "rangekeeper"
  Workers = {w1}
  Keys = {k1, k2}
  Kinds = {"open", "close_convert"}
  Faults = {"lease","crash"}
  MaxFaults = 1
  MaxBlock = 4
  MaxReorgs = 0
  MaxPreviews = 2
  MaxAttempts = 1
CHECK_DEADLOCK FALSE
INVARIANTS
  EvidenceSound
PROPERTIES
  PreparedFrozen
  Settles
