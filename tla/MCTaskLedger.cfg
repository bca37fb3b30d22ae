SPECIFICATION Spec
CONSTANTS
  Tasks = {t1, t2}
  None = None
  MaxRequests = 3
  MaxRevision = 5
INVARIANTS
  
  DeliveryOrStop
  DeletedIsQuiet
  RoundsApart
  ReplacementExclusive
PROPERTIES
  StopFinal
CONSTRAINT Bounded
SYMMETRY Interchangeable
CHECK_DEADLOCK FALSE
