SPECIFICATION FairSpec

CONSTANTS
  a1 = a1
  a2 = a2
  k1 = k1
  i1 = i1
  i2 = i2
  e1 = e1
  e2 = e2
  e3 = e3
  none = none
  Alerts = {a1}
  Keys = {k1}
  NoKey = none
  KeyOf <- Vague
  Route <- ToBoth
  Incidents = {i1}
  Executors = {e1, e2}
  CloudOf <- OneEach
  Nobody = nobody
  MaxAttempts = 2
  MaxSteps = 1
  MaxCrashes = 1
  MaxFaults = 1
  MaxAborts = 0
  JobsFitIdle = TRUE
  LocksFitTtl = TRUE
  FixProposals = FALSE
  Confirmed = {a1}

INVARIANTS
  SecondFinisherSynthesizes

PROPERTIES
  EveryJobSettles

CHECK_DEADLOCK FALSE
