SPECIFICATION Spec
CONSTANTS
  Tasks = {t}
  Runs = {1, 2}
  Words = {"accepted", "failed", "running"}
  MaxAsks = 2
  MaxTold = 2
  MaxRuns = 2
  MaxFaults = 1
CHECK_DEADLOCK FALSE
INVARIANT TakenOnce SuccessIsTrue RunningIsRun
PROPERTY ArrivedIsApplied
