SPECIFICATION FairSpec

CONSTANTS
  a1 = a1
  a2 = a2
  r1 = r1
  k1 = k1
  i1 = i1
  i2 = i2
  i3 = i3
  none = none
  Alerts = {a1}
  Reports = {}
  Keys = {k1}
  NoKey = none
  KeyOf <- EntityOf
  Incidents = {i1}
  Nobody = nobody
  Limit = 1
  MaxAttempts = 2
  MaxSteps = 2
  SameHost = FALSE
  LocksFitTtl = TRUE
  Confirmed = {a1}
  FixProposals = TRUE
  MaxCrashes = 3
  MaxFaults = 1
  MaxAborts = 1

PROPERTIES
  ResumesOnlyOrphans
  OrphansSettle

CHECK_DEADLOCK FALSE
