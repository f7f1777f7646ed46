SPECIFICATION Spec
CONSTANTS
  Turns = {t1}
  Hosts = {h1, h2}
  Messages = {m1}
  MaxCalls = 2
CHECK_DEADLOCK FALSE
INVARIANTS
  CheckpointKept
  UnfinishedIsMarked
  MessagesAsTold
