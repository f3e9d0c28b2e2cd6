SPECIFICATION ConversationsSpec
CONSTANTS
  i1 = i1  i2 = i2  h1 = h1  h2 = h2  alarm = alarm  none = none  uncached = uncached
  AlertNames = {alarm}
  CauseTypes = {"load", "leak"}
  Keywords = {2}
  RunbookIds = {"r1"}
  Incidents = {i1, i2}
  AlertOf <- OneAlarm
  Handlers = {h1, h2}
  MayDo <- Everyone
  OldFacts = {}
  NotCached = uncached
  Nothing = none
  CompactSize = 1
  MaxPatterns = 2
  MaxCount = 3
  MaxEdits = 4
  MaxFaults = 1
  Threads = {"t1", "t2"}
  SessionIds = {"s1", "s2"}
  InvestigationLimit = 1
  MaxQuestions = 2
  MaxSlackFaults = 1
  MaxBotRestarts = 1
  Messages = {"m1", "m2"}
  Twice = {"m1"}
  SeenCapacity = 0
  Requests = {"q1"}
  Histories <- TenDays
  MaxReportDays = 2
  MaxInquiries = 2
  MaxCostFaults = 2
  MaxChatSteps = 2
  CallsPerAnswer = 2
  MaxRequests = 2
  Watched = {"w1", "w2"}
  Browsers = {"b1"}
  QueueMax = 2
  MaxEvents = 2
  MaxBusFaults = 1
INVARIANTS
  RunsEndForBoth
  OneRunPerReport
  
  UnansweredArePending
PROPERTIES
  FeedbackKept
  
  NeverBackInTime
CONSTRAINT Bounded
CHECK_DEADLOCK FALSE
