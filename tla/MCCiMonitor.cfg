SPECIFICATION FairSpec
CONSTANTS
  Infos <- MCInfos
  Timeout = 20
  NewCipeTimeout = 2
  MaxCycles = 2
  LocalVerifyAttempts = 1
  Breaker = 3
  MaxAttempts = 3
  None = None
INVARIANTS StopsWithoutProgressAtFirst CyclesAreCounted ActsOncePerAttempt
PROPERTY MonitorEnds
