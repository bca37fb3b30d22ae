SPECIFICATION MCSpec
CONSTANTS
  Ids = {i1, i2}
  Fingerprints = {f1, f2}
  Owners = {o1, o2, o3}
  MaxAlive = 1
  Synchronous = FALSE
  None = None
INVARIANTS
  AtMostOnce
  OneStory
PROPERTIES
  ImplementsOnce
SYMMETRY Interchangeable
CHECK_DEADLOCK FALSE
