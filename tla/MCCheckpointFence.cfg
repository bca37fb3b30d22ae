SPECIFICATION Spec
CONSTANTS
  Processes = {p1, p2}
  Work = {w1}
  None = None
  MaxRequests = 2
  MaxRevision = 5
INVARIANTS
  BegunOnce
  OneActive
  LaunchedOnce
  Recorded

  
SYMMETRY Interchangeable
CHECK_DEADLOCK FALSE
