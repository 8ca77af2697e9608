SPECIFICATION Spec
CONSTANTS
  w1 = w1
  w2 = w2
  c1 = c1
  c2 = c2
  None = None
  Workers = {w1, w2}
  Campaigns = {c1}
  Held = {c1}
  Kinds = {"change_range", "close_convert"}
  MaxJobs = 2
  MaxRows = 7
  MaxFaults = 2
SYMMETRY WorkerSymmetry
CHECK_DEADLOCK FALSE
INVARIANTS
  CampaignTrue
