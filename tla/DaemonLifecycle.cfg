SPECIFICATION FairSpec
CONSTANTS
  Sources <- BothSources
  MaxSignals = 2
  MaxRow = 2
  RetryAfter = 5
INVARIANTS
  TypeOK
  ExitIsClean
  
PROPERTIES
  CleanSignalExits
  Reconnects
\* The process exits; a stop() that waits for its own lock never goes on.
CHECK_DEADLOCK FALSE
