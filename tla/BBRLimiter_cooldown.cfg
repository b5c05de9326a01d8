SPECIFICATION Spec
CONSTANTS
  Requests = {r1, r2, r3, r4}
  Limits = {1}
  Cooldown = 1
  MaxTime = 2
SYMMETRY Symmetry
PROPERTIES
  CooldownHolds
