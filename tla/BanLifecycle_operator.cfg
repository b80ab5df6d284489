SPECIFICATION Spec
CONSTANTS
  None = None
  IPs = {i1}
  Operators = {o1}
  Durations = {0, 1}
  Resolution = 1
  MaxTime = 1
  MaxBans = 2
  FaultKinds = {"cli"}
  MaxFaults = 1
  Modes = {"automatic", "dry_run"}
  ReAddRefreshes = FALSE
  RiskStates = {"active_threat"}
  SweepEvery = 1
  ReconcileEvery = 2
INVARIANT
  CauseInv
PROPERTY
  ImplementsLedger
