SPECIFICATION Spec
CONSTANTS
  NumBuckets = 2
  BucketDur = 2
  Workers = {w1, w2}
  RTs = {0, 3}
  MaxTime = 6
  MaxFinishes = 2
SYMMETRY Symmetry
INVARIANTS
  TypeOK
  SamplesRetained
  SerialAgreement
PROPERTIES
  SilenceForgets
