SPECIFICATION Spec
CONSTANTS
  Sources <- Journal
  MaxSignals = 1
  MaxRow = 3
  RetryAfter = 5
INVARIANTS
  BackoffIsExponential
\* The process exits; a stop() that waits for its own lock never goes on.
CHECK_DEADLOCK FALSE
