SPECIFICATION Spec
CONSTANTS
  NumBuckets = 2
  BucketDur = 1
  Requests = {r1, r2, r3}
  Cooldown = 1
  Answers = {0, 1, 2}
  MaxTime = 1
  MaxFinishes = 2
SYMMETRY Symmetry
INVARIANTS
  TypeOK
  CountersLag
