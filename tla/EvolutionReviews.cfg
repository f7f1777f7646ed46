SPECIFICATION LiveSpec
CONSTANTS
  Types = {"memory", "skill"}
  First = "memory"
  Interval = 2
  Ends = {e1}
  Runs = {r1, r2}
  MaxWriting = 2
  MaxTurns = 2
CHECK_DEADLOCK FALSE
INVARIANTS
  GuardKeepsApart
  CompletedIsTrue
  EndIsRecorded
  CountsExact
PROPERTIES
  RecordCloses
