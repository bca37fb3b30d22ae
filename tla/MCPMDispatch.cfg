SPECIFICATION Spec
CONSTANTS
  a = a
  b = b
  Subs = {a, b}
  Deps <- Chain
  Stations = {s1, s2}
  Local = Local
  None = None
  MaxRetries = 1
  MaxContinues = 1
INVARIANTS
  OneExecution
  InputsGenuine
  DeliveryComplete
  NothingForgotten
  LadderKept

  
CONSTRAINT Effort
SYMMETRY Interchangeable
CHECK_DEADLOCK FALSE
