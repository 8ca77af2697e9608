SPECIFICATION Spec
CONSTANTS
  w1 = w1
  w2 = w2
  c1 = c1
  c2 = c2
  None = None
  Workers = {w1, w2}
  Campaigns = {c1, c2}
  Held = {c1}
  Kinds = {"close_retain", "change_range"}
  MaxJobs = 2
  MaxRows = 7
  MaxFaults = 1
SYMMETRY WorkerSymmetry
CHECK_DEADLOCK FALSE
INVARIANTS
  OneLane
  SiblingsSafe
PROPERTIES
  FencedWrites
