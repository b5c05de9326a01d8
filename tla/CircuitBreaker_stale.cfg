SPECIFICATION Spec
CONSTANTS
  NumBuckets = 3
  BucketDur = 2
  Calls = {c1}
  KNum = 1
  KDen = 1
  MaxTime = 12
  MaxCalls = 3
PROPERTIES
  NoStaleEvidence
