SPECIFICATION Spec
CONSTANTS
  Runs = {r1, r2}
  NoRun = NoRun
  Prices <- OnePrice
  NoPrice = NoPrice
  Ttl = 1
  Window = 5
  MaxRetries = 0
  MaxFaults = 1
INVARIANT TypeOK
INVARIANT ExclusiveWithinLease
INVARIANT NoReadingSkipped
INVARIANT AskedOncePerAnswer
PROPERTY LeaseIsKept
SYMMETRY Symmetry
CHECK_DEADLOCK FALSE
