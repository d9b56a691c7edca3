SPECIFICATION FairSpec
CONSTANTS
  Callers = {c1}
  BurstLimit = 2
  Window = 3
  DailyLimit = 3
  DayLength = 5
  MaxRetries = 2
  Latencies = {0}
  MaxCalls = 5
  MaxOthers = 2
  MaxRestarts = 1
  Horizon = 9
INVARIANT TypeOK
INVARIANT RefusalsHaveAReason
INVARIANT ExhaustedOnlyInCompany
INVARIANT PacerCountsAtLeastTheServer
PROPERTY CallsEnd
