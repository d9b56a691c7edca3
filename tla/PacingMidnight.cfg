SPECIFICATION Spec
CONSTANTS
  Callers = {c1}
  BurstLimit = 2
  Window = 3
  DailyLimit = 3
  DayLength = 5
  MaxRetries = 2
  Latencies = {0}
  MaxCalls = 6
  MaxOthers = 0
  MaxRestarts = 0
  Horizon = 10
INVARIANT PacedNeverRefused
