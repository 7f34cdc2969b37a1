SPECIFICATION MCSpec
CONSTANTS
  Burst = 1
  MaxQueue = 1
  MaxRetries = 1
  MaxBlock = 1
  MaxSequence = 4
  Nameless = {2}
  MaxSeen = 2
  Keep = 1
  MaxAttempts = 2
  Intents = {1, 2}
  ParamsOf <- SameParams
  MaxSubmits = 2
CHECK_DEADLOCK FALSE
INVARIANTS SentOnce GapsAreNoticed
PROPERTIES EveryRequestEnds
