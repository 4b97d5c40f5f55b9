SPECIFICATION Spec
CONSTANTS
  Watches = {w1}
  Rules = {drop}
  Channels = {c1}
  NoChannel = NoChannel
  Evaluators = {v1}
  MaxEvents = 2
  MaxCopies = 0
  MaxAttempts = 2
  MaxFaults = 1
  Answers <- AllAnswers
  FaultKinds <- CrashFaults
INVARIANT TypeOK
INVARIANT StoredEventWasEnqueued
INVARIANT SendsBoundedByFaults
INVARIANT CooldownHasAlert
PROPERTY NoAlertWhileCooling
PROPERTY SettledIsFinal
PROPERTY ImplementsLedger
CHECK_DEADLOCK FALSE
