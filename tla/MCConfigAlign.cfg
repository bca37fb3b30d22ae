SPECIFICATION Spec
CONSTANTS
  Nodes = {"a", "b"}
  Contents = {"x", "y"}
  NoKeys = "none"
  MaxSaves = 2
  MaxFaults = 1
INVARIANTS
  SavedIsKept
PROPERTIES
  Agreement
CHECK_DEADLOCK FALSE
