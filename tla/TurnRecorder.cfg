SPECIFICATION RecorderSpec
CONSTANTS
  Attempts = 2
  MaxSubturns = 3
  MaxDeltas = 2
  MaxToolCalls = 1
CHECK_DEADLOCK FALSE
INVARIANTS
  TrailIntact
  DeltasAccounted
