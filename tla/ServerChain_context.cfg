SPECIFICATION Spec
CONSTANTS
  Chains <- UpToThree
INVARIANTS
  ContextReaches
