SPECIFICATION FairSpec
CONSTANTS
  t1 = t1
  t2 = t2
  b1 = b1
  r1 = r1
  None = None
  Tails = {t1}
  Backfills = {}
  Replayers = {}
  Floor = 1
  Depth = 0
  Overlap = 1
  MinChunk = 1
  InitChunk = 2
  MaxChunk = 2
  BatchSize = 1
  CheckpointLimit = 2
  MaxFailures = 2
  MaxBlock = 4
  MaxReorgs = 1
  MaxFaults = 1
  Faults = {"crash","rpc","circuit"}
  ScanSpan = 0
  RestSpan = 4
CHECK_DEADLOCK FALSE
INVARIANTS
  StreamSound
  ReplayCanonical
PROPERTIES
  CatchesUp
