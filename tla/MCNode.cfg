SPECIFICATION NodeSpec
CONSTANTS
  Pids = {1, 2, 3}
  Releases = {1, 2}
  Dated = {1, 2}
  StartFaults = 1
  Procs = {"old", "new", "next"}
  Code <- ReleaseOf
  Target = 2
  Built = {2}
  Keep = 2
  MaxRows = 1
  SchemaFaults = 2
  Calls = {1, 2, 3}
  Models = {"m1", "m2"}
  Keyed = {"m1"}
  Default = "m2"
  Pools = {"plan", "cash"}
  Covers <- Plans
  Quota = 2
  Renews <- Renewals
  Expires <- Ends
  Strict = FALSE
  LastDay = 2
  MaxUsed = 2
  CallFaults = 1
  Subtasks = {"s1", "s2", "s3"}
  Jobs = {"k1", "k2"}
  Agents = {"a"}
  Posix = TRUE
  MaxTurns = 1
  TaskOf <- Parts
  SkillOf <- Skills
  Servers = {"p", "h"}
  Http = {"h"}
  Tools = {"t"}
  Callers = {"c1", "c2"}
  ToolFaults = 2
  LastStep = 1
  MaxRequests = 2
  MaxBoots = 2
  Stores = {"d", "f"}
  Databases = {"d"}
  MaxEdits = 2
  CopyFaults = 1
  MaxTime = 9
INVARIANTS
  StartSound
  
  
  CopiesSound
PROPERTIES
  SchemaSound
  RecoverySound
CONSTRAINT AtStake
CHECK_DEADLOCK FALSE
