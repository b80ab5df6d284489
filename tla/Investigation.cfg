SPECIFICATION Spec
CONSTANTS
  None = None
  NoRow = NoRow
  Deleted = Deleted
  i1 = i1
  alt = alt
  root = root
  IPs = {i1}
  Users = {root}
  Daemon = daemon
  Analysts = {a1}
  Curators = {c1, c2}
  Activity <- MCActivity
  Filings <- MCFilings
  Requests = {"investigating", "closed"}
  Spellings = {i1, alt, root}
  Canon <- MCCanon
  MaxIncidents = 2
  MaxIocs = 2
  MaxCommands = 4
INVARIANTS
  TypeOK
  OpensOnlyIfNone
  StatusIsAnalysts
  FiledIsOnRecord
  SeverityBacked
  OneRowPerIndicator
PROPERTIES
  EvidenceKept
