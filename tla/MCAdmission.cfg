CONSTANTS
  r1 = r1
  r2 = r2
  r3 = r3
  Requests = {r1, r2}
  Window = 3
  Periods <- TwoPeriods
  PeriodLen <- DayAndMonth
  Rpm = 2
  Tpm = 4
  Budget <- SmallBudget
  Estimates <- PricedEstimates
  Actuals <- PricedActuals
  Prior <- PricedPrior
  Start = 4
  MaxTime = 10
  Unknown = Unknown
SPECIFICATION FairSpec
INVARIANTS LedgerIsTrue StaleUseIsBounded
PROPERTY SeedingCompletes
