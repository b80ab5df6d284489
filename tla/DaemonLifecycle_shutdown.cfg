SPECIFICATION FairSpec
CONSTANTS
  Sources <- Journal
  MaxSignals = 1
  MaxRow = 1
  RetryAfter = 5
PROPERTIES
  SignalExits
\* The process exits; a stop() that waits for its own lock never goes on.
CHECK_DEADLOCK FALSE
