SPECIFICATION Spec
CONSTANTS
  None = None
  IPs = {i1, i2}
  Users = {"root", "guest"}
  Pipelines = {daemon}
  Rewriters = {sweep}
  Traffic <- MCTraffic
  Times = {0, 1, 3}
  Skew = 1
  Window <- MCWindow
  Threshold <- MCThreshold
  MaxPerUser = 1
  IocScores = {0, 30}
  Trusted = {}
  Allowlisted = {i2}
  RepeatAfter = 1
  PermanentAfter = 2
  IsolateAt = 85
  MaxEvents = 3
  MaxFaults = 1
INVARIANTS
  TypeOK
  SignalsSound
  SignalsComplete
  FailuresBacked
  
