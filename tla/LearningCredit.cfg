SPECIFICATION FeedbackSpec
CONSTANTS
  i1 = i1  i2 = i2  h1 = h1  h2 = h2  alarm = alarm  none = none  uncached = uncached
  AlertNames = {alarm}
  CauseTypes = {"load", "leak"}
  Keywords = {2}
  RunbookIds = {"r1"}
  Incidents = {i1, i2}
  AlertOf <- OneAlarm
  Handlers = {h1, h2}
  MayDo <- Everyone
  OldFacts = {}
  NotCached = uncached
  Nothing = none
  CompactSize = 1
  MaxPatterns = 2
  MaxCount = 3
  MaxEdits = 0
  MaxFaults = 1
INVARIANT ConfirmedRunbooksCredited
CHECK_DEADLOCK FALSE
