CONSTANTS
  r1 = r1
  r2 = r2
  Requests = {r1, r2}
  Scheduler = Scheduler
  Hints <- MCHints
  MinInterval = 2
  Lead = 3
  Grace = 1
  Retry = 1
  RetryHints <- MCRetryHints
  MaxRetry = 2
  MaxSecrets = 2
  MaxGates = 1
  MaxTime = 1
  None = None
SPECIFICATION FairSpec
INVARIANT RotationsTakeTurns
PROPERTIES NoHotLoop DueIsClaimed
CHECK_DEADLOCK FALSE
