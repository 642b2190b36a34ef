CONSTANTS
  r1 = r1
  r2 = r2
  r3 = r3
  r4 = r4
  Requests = {r1, r2}
  InitialLimit = 1
  MinLimit = 1
  MaxLimit = 3
  UpdateInterval = 1
  StaleHorizon = 2
  Waits = {0, 1}
  MaxTime = 3
  None = None
SPECIFICATION FairSpec
INVARIANTS InflightIsPermits HealthIsEarned
PROPERTIES GrowthIsGated AcquireReturns
