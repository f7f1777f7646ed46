SPECIFICATION LiveSpec
CONSTANTS
  Internal = {i1}
  Hosted = {h1, h2}
  MaxAnswers = 2
CHECK_DEADLOCK FALSE
INVARIANTS
  TablesDrain
PROPERTIES
  OneAnswer
  CallReturns
