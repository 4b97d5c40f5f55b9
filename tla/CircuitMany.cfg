SPECIFICATION FairSpec
CONSTANTS
  Clients = {c1, c2}
  Threshold = 2
  Initial = 1
  Longest = 3
  MaxCrashes = 1
INVARIANT TypeOK
INVARIANT ThresholdOpens
PROPERTY RecoversWithSite
