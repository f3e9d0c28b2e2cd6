SPECIFICATION Spec

CONSTANTS
  a1 = a1
  a2 = a2
  r1 = r1
  k1 = k1
  i1 = i1
  i2 = i2
  i3 = i3
  none = none
  Alerts = {a1, a2, r1}
  Reports = {r1}
  Keys = {k1}
  NoKey = none
  KeyOf <- NoEntity
  Incidents = {i1, i2, i3}
  Nobody = nobody
  Limit = 1
  MaxAttempts = 1
  MaxSteps = 1
  SameHost = FALSE
  LocksFitTtl = TRUE
  Confirmed = {}
  FixProposals = FALSE
  MaxCrashes = 0
  MaxFaults = 0
  MaxAborts = 0

SYMMETRY SameIncidents

INVARIANTS
  QueuesAndWaits

CHECK_DEADLOCK FALSE
