SPECIFICATION Spec
CONSTANTS
  Runs = {r1, r2}
  Hosts = {h1}
  Triggers = {"oneShot", "interval"}
  Serial = TRUE
  Removes = {"default", "yes", "no"}
  Durations = {1}
  Retries = {1}
  Backoff = 1
  Every = 1
  MaxTime = 3
  MaxCalls = 1
  MaxFaults = 1
CHECK_DEADLOCK FALSE
INVARIANTS
  OneRunAtOnce
  JobKept
  RunningIsMarked
SYMMETRY RunSymmetry
