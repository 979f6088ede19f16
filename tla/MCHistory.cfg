\* Three sessions, leases of up to three units, an operator and a pruner over three leases.
CONSTANTS
  a = a
  b = b
  c = c
  Proc = {a, b, c}
  NoProc = NoProc
  MaxTTL = 3
  Operator = Operator
  Pruner = Pruner
  MaxLease = 3
  MaxRenew = 1
SPECIFICATION HistorySpec
SYMMETRY Sessions
INVARIANTS
  TypeOK
  Exclusion
  ClaimsRecorded
  HistoryTypeOK
  Accounted
  EndsOnce
  ToldIsRecorded
