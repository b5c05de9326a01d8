SPECIFICATION FairSpec
CONSTANTS
  MaxRetries = 3
INVARIANTS
  TypeOK
  OneLateAttempt
  HonestResult
  ContextsReleased
  HeldStreamLives
PROPERTIES
  PromiseKept
  CallReturns
  StreamBounded
