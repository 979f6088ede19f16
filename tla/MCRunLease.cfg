\* With and without a cap on the hold; store calls of up to one unit.
CONSTANTS
  TTL = 6
  Interval = 2
  KillGrace = 1
  MaxHolds = {0, 3}
  CallMax = 1
SPECIFICATION FairSpec
INVARIANTS
  TypeOK
  Protected
  NoLeak
  OverlapBounded
  MaxHoldBounded
PROPERTIES
  LossHasCause
  EscalationEnds
