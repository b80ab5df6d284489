SPECIFICATION FairSpec
CONSTANTS
  None = None
  IPs = {i1}
  Operators = {}
  Durations = {0, 1}
  Resolution = 2
  MaxTime = 3
  MaxBans = 2
  FaultKinds = {"nft", "db", "avail", "rules", "crash", "reboot"}
  MaxFaults = 1
  Modes = {"automatic"}
  ReAddRefreshes = FALSE
  RiskStates = {"active_threat"}
  SweepEvery = 2
  ReconcileEvery = 3
PROPERTIES
  ExpiredBanEventuallyClosed
  
