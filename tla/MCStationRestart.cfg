SPECIFICATION Spec
CONSTANTS
  Pids = {1, 2}
  Versions = {1}
  Dated = {1}
  MaxFaults = 0
INVARIANTS
  RestartStarts
CHECK_DEADLOCK FALSE
