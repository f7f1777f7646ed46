SPECIFICATION Spec
CONSTANTS
  Turns = {t1, t2}
  Manuals = {m1, m2}
  GenSpace = 5
INVARIANTS
  OnlyOwnCancels
PROPERTIES
  CancelledRunStops
  ImplementsFlags
