SPECIFICATION Spec
CONSTANTS
  TurnMax = 1
  ConfigMax = 0
  HiddenLimit = 2
  MaxCalls = 2
  MaxInjections = 2
CHECK_DEADLOCK FALSE
INVARIANTS
  WorkBounded
  LoadAskedFirst
  CommandsAsRequested
