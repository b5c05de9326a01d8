SPECIFICATION FairSpec
CONSTANTS
  NumBuckets = 3
  BucketDur = 2
  Calls = {c1, c2}
  KNum = 1
  KDen = 1
  MaxTime = 6
  MaxCalls = 2
INVARIANTS
  TypeOK
  CountedOnce
  DropNeedsFailure
  RotatedMarkRetained
PROPERTIES
  CanRecover
  MarkLands
