\* What closes leaseLost.
CONSTANTS
  TTL = 6
  Interval = 2
  KillGrace = 1
  MaxHolds = {0, 3}
  CallMax = 1
SPECIFICATION Spec
PROPERTIES
  LossIsReal
