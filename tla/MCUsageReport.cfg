SPECIFICATION Spec
CONSTANTS
  Usages = {1, 2}
  MaxReloads = 1
  MaxFaults = 2
INVARIANTS
  CountedAsMarked

  
CHECK_DEADLOCK FALSE
