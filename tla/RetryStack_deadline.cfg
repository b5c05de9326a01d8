SPECIFICATION Spec
CONSTANTS
  MaxRetries = 3
INVARIANTS
  DeadlineIsFailure
