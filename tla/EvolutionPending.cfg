SPECIFICATION PendingSpec
CONSTANTS
  Proposals = {q1, q2}
  Procs = {p1, p2}
  Actions = 2
  MaxCalls = 4
CHECK_DEADLOCK FALSE
INVARIANTS
  AppliedAsProposed
  StatusIsTrue
