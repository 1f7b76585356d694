\* The back-off reaches its maximum, its maximum is twice the stale claim as
\* in the code, the retry count and millis() wrap.
SPECIFICATION FairSpec
CONSTANTS
  Mod = 18
  RetryMod = 6
  Base = 1
  Max = 6
  Stale = 3
  MaxRetry = 5
  MaxRestart = 1
  Horizon = 7
INVARIANTS BackoffDoubles DueOnTime
PROPERTIES BackoffKept StaleKept WaitEnds
CHECK_DEADLOCK FALSE
