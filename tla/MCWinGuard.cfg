\* Three processes, one of which may die; markers may outlive their staleness.
CONSTANTS
  a = a
  b = b
  c = c
  Proc = {a, b, c}
  Faulty = {a}
  StaleAfter = 1
  AcquireMax = 2
  StallMax = 2
  NoMarker = NoMarker
  Orphan = Orphan
SPECIFICATION FairSpec
INVARIANTS
  TypeOK
  GuardExcludes
PROPERTIES
  CallEnds
  OrphanGoes
