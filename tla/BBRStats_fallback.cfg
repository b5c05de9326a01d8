SPECIFICATION Spec
CONSTANTS
  NumBuckets = 2
  BucketDur = 2
  Workers = {w1}
  RTs = {0, 3}
  MaxTime = 1
  MaxFinishes = 2
PROPERTIES
  FallbackOnlyWithoutData
