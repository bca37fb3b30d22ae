SPECIFICATION Spec
CONSTANTS
  Sections = {1}
  Texts = {0, 1}
  Blank = 0
  Requests = {1}
  MaxRevision = 2
  BriefFaults = 2
  Answers = {"x", "y"}
  MaxQuestions = 2
  MaxLetters = 1
  DirectFaults = 1
  MaxNotices = 3
  MaxUpdates = 2
  MaxRetry = 2
  QueueLength = 2
  BotFaults = 2
  Messages = {1, 2}
  Tasks = {1}
  MaxConvs = 2
  ChatFaults = 1
  Ids = {"a", "b", "c"}
  Names = {"a"}
  Threads = {"t", "u"}
  Retries = 1
  MaxRounds = 2
  MaxReports = 2
  BoardFaults = 1
INVARIANTS
  DirectFaithful
  BotFaithful
  
PROPERTIES
  BriefsFaithful
  GraphFaithful
  
CHECK_DEADLOCK FALSE
