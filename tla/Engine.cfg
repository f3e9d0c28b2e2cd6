SPECIFICATION FairSpec

CONSTANTS
  c1 = c1
  c2 = c2
  d1 = d1
  d2 = d2
  Calls = {c1, c2}
  NoCall = none
  Domains = {d1, d2}
  MaxTurns = 1
  MaxSteps = 2
  MaxCalls = 2
  MaxRetries = 2
  MaxIdentical = 1
  Workers = 1
  VerifyAfter = 1
  VerifyEvery = 2
  MaxToolTurns = 2
  MaxMishaps = 2

INVARIANTS
  EngineTypeOK
  ConversationSound
  RepliesAnswerTheirCall
  StartsBounded
  CheckpointCurrent
  

PROPERTIES
  
  EngineEnds

CHECK_DEADLOCK FALSE
