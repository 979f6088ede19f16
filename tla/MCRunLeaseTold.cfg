\* What the exit code tells of a collision; calls that take no time.
CONSTANTS
  TTL = 6
  Interval = 2
  KillGrace = 1
  MaxHolds = {0}
  CallMax = 0
SPECIFICATION Spec
INVARIANTS
  CollisionTold
