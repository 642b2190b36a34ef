CONSTANTS
  Attempts = {a1, a2}
  Accounts = {acc1, acc2}
  Targets = {t1}
  Policy = "DistinctAccounts"
  Window = 2
  Cooldown = 2
  AbandonRetry = 1
  MaxRecent = 2
  MaxSkew = 1
  MaxTime = 5
  NoProber = NoProber
SPECIFICATION FairSpec
INVARIANTS LeaseHeldByOneProbe EvidenceIsCurrent
PROPERTIES OpensOnlyOnCorrelatedFailures CooldownIsRespected ImplementsProbeLease LeaseIsReleased
