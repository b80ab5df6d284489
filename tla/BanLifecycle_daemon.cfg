SPECIFICATION Spec
CONSTANTS
  None = None
  IPs = {i1}
  Operators = {}
  Durations = {0, 1}
  Resolution = 2
  MaxTime = 5
  MaxBans = 2
  FaultKinds = {"nft", "db", "avail", "crash", "reboot", "rules"}
  MaxFaults = 2
  Modes = {"automatic"}
  ReAddRefreshes = TRUE
  RiskStates = {"active_threat"}
  SweepEvery = 1
  ReconcileEvery = 2
INVARIANTS
  TypeOK
  RuleHasCause
  AtMostOneActiveBan
  
  
PROPERTY
  ReleasesOnlyExpired
