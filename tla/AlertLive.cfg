SPECIFICATION FairSpec
CONSTANTS
  Watches = {w1}
  Rules = {drop}
  Channels = {c1}
  NoChannel = NoChannel
  Evaluators = {v1}
  MaxEvents = 1
  MaxCopies = 1
  MaxAttempts = 3
  MaxFaults = 1
  Answers <- CleanAnswers
  FaultKinds <- BrokerFaults
INVARIANT OnlyStoredEventsAreSent
INVARIANT DeliveredWasPosted
INVARIANT PendingHasAttemptsLeft
PROPERTY TasksFinish
PROPERTY LiveTaskSettles
CHECK_DEADLOCK FALSE
