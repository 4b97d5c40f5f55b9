SPECIFICATION FairSpec
CONSTANTS
  Runs = {r1, r2}
  NoRun = NoRun
  Prices <- NoPrices
  NoPrice = NoPrice
  Ttl = 1
  Window = 5
  MaxRetries = 1
  MaxFaults = 2
PROPERTY RunsFinish
PROPERTY LockIsFreed
CHECK_DEADLOCK FALSE
