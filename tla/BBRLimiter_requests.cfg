SPECIFICATION FairSpec
CONSTANTS
  Requests = {r1, r2, r3, r4}
  Limits = {0, 2}
  Cooldown = 0
  MaxTime = 1
INVARIANTS
  TypeOK
  InflightExact
  HealthyNeverDrops
PROPERTIES
  RaceBound
  SerialCooldown
  NeverWedges
