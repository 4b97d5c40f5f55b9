SPECIFICATION FairSpec
CONSTANTS
  Clients = {c1}
  Threshold = 3
  Initial = 2
  Longest = 7
  MaxCrashes = 0
PROPERTY ImplementsBreaker
