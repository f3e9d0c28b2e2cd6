SPECIFICATION Spec

CONSTANTS
  a1 = a1
  a2 = a2
  k1 = k1
  i1 = i1
  i2 = i2
  e1 = e1
  e2 = e2
  e3 = e3
  none = none
  Alerts = {a1}
  Keys = {k1}
  NoKey = none
  KeyOf <- SameKey
  Route <- ToAws
  Incidents = {i1}
  Executors = {e1, e2}
  CloudOf <- AwsPool
  Nobody = nobody
  MaxAttempts = 2
  MaxSteps = 1
  MaxCrashes = 4
  MaxFaults = 1
  MaxAborts = 1
  JobsFitIdle = TRUE
  LocksFitTtl = TRUE
  FixProposals = FALSE
  Confirmed = {}

SYMMETRY Interchangeable

INVARIANTS
  OneRunPerJob
  NoStrandedRow
  RunsBounded
  LeaksAccounted

PROPERTIES
  NoRunAfterOutcome

CHECK_DEADLOCK FALSE
