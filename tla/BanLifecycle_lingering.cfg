SPECIFICATION FairSpec
CONSTANTS
  None = None
  IPs = {i1}
  Operators = {o1}
  Durations = {0}
  Resolution = 1
  MaxTime = 0
  MaxBans = 1
  FaultKinds = {}
  MaxFaults = 0
  Modes = {"automatic"}
  ReAddRefreshes = TRUE
  RiskStates = {"active_threat"}
  SweepEvery = 1
  ReconcileEvery = 2
PROPERTY
  LingeringRuleCleared
