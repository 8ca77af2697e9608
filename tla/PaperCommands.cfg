SPECIFICATION Spec
CONSTANTS
  w1 = w1
  w2 = w2
  k1 = k1
  k2 = k2
  k3 = k3
  NoOne = NoOne
  Strategy = "static"
  Workers = {w1, w2}
  Keys = {k1, k2, k3}
  Kinds = {"open", "pause", "resume", "close_retain"}
  Faults = {"crash", "stall", "read"}
  MaxFaults = 2
  MaxBlock = 2
  MaxReorgs = 0
  MaxPreviews = 3
  MaxAttempts = 1
CHECK_DEADLOCK FALSE
SYMMETRY Symmetry
INVARIANTS
  CommandsSound
PROPERTIES
  SettledFinal
