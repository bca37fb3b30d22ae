SPECIFICATION FairSpec
CONSTANTS
  a = a
  b = b
  Subs = {a, b}
  Deps <- Chain
  Stations = {s1}
  Local = Local
  None = None
  MaxRetries = 0
  MaxContinues = 0
PROPERTIES
  Ends
CHECK_DEADLOCK FALSE
