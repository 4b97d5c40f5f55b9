SPECIFICATION Spec
CONSTANTS
  Watches = {w1}
  Rules = {drop}
  Channels = {c1, c2}
  NoChannel = NoChannel
  Evaluators = {v1}
  MaxEvents = 1
  MaxCopies = 0
  MaxAttempts = 2
  MaxFaults = 0
  Answers <- CleanAnswers
  FaultKinds <- NoFaults
PROPERTY ChosenChannelSurvives
CHECK_DEADLOCK FALSE
