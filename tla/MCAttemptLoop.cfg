CONSTANTS
  L = L
  M = M
  a = a
  b = b
  c = c
  Plans <- SmallPlans
  Limits = {0, 2, 9}
  Triggers <- SmallTriggers
  Deadline = 2
  Timeout = 1
  MaxTime = 2
  None = None
SPECIFICATION FairSpec
INVARIANTS TypeOK SendsBounded NothingHeldBetweenAttempts EveryAttemptReported NoSendAfterRefusal
CHECK_DEADLOCK FALSE
PROPERTY EventuallyAnswered
