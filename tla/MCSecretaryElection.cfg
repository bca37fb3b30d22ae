SPECIFICATION Spec
CONSTANTS
  Stations = {1, 3}
  Workers = {2}
  MaxFaults = 2
INVARIANTS
  NoMutualYield
PROPERTIES
  SomeSecretary
  RivalsSettle
CHECK_DEADLOCK FALSE
