SPECIFICATION FairSpec
CONSTANTS
  Watches = {w1}
  Rules = {drop}
  Channels = {c1}
  NoChannel = NoChannel
  Evaluators = {v1}
  MaxEvents = 1
  MaxCopies = 0
  MaxAttempts = 2
  MaxFaults = 0
  Answers <- CleanAnswers
  FaultKinds <- NoFaults
PROPERTY CommittedAlertSettles
CHECK_DEADLOCK FALSE
