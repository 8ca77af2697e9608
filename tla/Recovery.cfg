SPECIFICATION FairSpec
CONSTANTS
  w1 = w1
  w2 = w2
  c1 = c1
  c2 = c2
  None = None
  Workers = {w1}
  Campaigns = {c1}
  Held = {c1}
  Kinds = {"close_convert"}
  MaxJobs = 1
  MaxRows = 7
  MaxFaults = 3
CHECK_DEADLOCK FALSE
PROPERTIES
  SignedResolved
  ExitReleased
