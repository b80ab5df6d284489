SPECIFICATION Spec
CONSTANTS
  None = None
  IPs = {i1}
  Operators = {o1}
  Durations = {0, 1}
  Resolution = 2
  MaxTime = 3
  MaxBans = 2
  FaultKinds = {}
  MaxFaults = 0
  Modes = {"automatic"}
  ReAddRefreshes = TRUE
  RiskStates = {"active_threat"}
  SweepEvery = 1
  ReconcileEvery = 2
PROPERTY
  ReleasesOnlyExpired
