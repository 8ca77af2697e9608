SPECIFICATION Spec
CONSTANTS
  t1 = t1
  t2 = t2
  b1 = b1
  r1 = r1
  None = None
  Tails = {t1}
  Backfills = {b1}
  Replayers = {r1}
  Floor = 1
  Depth = 0
  Overlap = 1
  MinChunk = 1
  InitChunk = 1
  MaxChunk = 1
  BatchSize = 2
  CheckpointLimit = 2
  MaxFailures = 2
  MaxBlock = 2
  MaxReorgs = 0
  MaxFaults = 1
  Faults = {"lockloss"}
  ScanSpan = 0
  RestSpan = 0
CHECK_DEADLOCK FALSE
PROPERTIES
  HighWater
