SPECIFICATION FairSpec
CONSTANTS
  None = None
  IPs = {i1}
  Operators = {}
  Durations = {0}
  Resolution = 1
  MaxTime = 0
  MaxBans = 1
  FaultKinds = {"nft", "reboot"}
  MaxFaults = 2
  Modes = {"automatic"}
  ReAddRefreshes = TRUE
  RiskStates = {"active_threat"}
  SweepEvery = 1
  ReconcileEvery = 2
PROPERTY
  MissingRuleRestored
