SPECIFICATION Spec
CONSTANTS
  Turns = {t1, t2}
  Hosts = {h1, h2}
  Messages = {m1}
  MaxAsks = 2
  MaxCancels = 1
INVARIANTS
  OneOutcome
  NobodyStranded
  MessageOnce
PROPERTIES
  ResolutionResumes
