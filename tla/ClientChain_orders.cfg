SPECIFICATION FairSpec
CONSTANTS
  Chains <- UpToFour
  Replies <- OneOfEach
  MaxRetries = 1
INVARIANTS
  TypeOK
  MarkedOnce
  LogsTellApplication
  BreakerShields
PROPERTIES
  PromiseKept
  EveryCallReturns
