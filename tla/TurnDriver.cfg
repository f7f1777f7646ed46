SPECIFICATION TurnSpec
CONSTANTS
  Engines = {"native", "codex", "external"}
  Modes = {"streaming", "collected"}
  MaxCancels = 3
CHECK_DEADLOCK FALSE
INVARIANTS
  ToldAsStored
  CallsCheckpointed
