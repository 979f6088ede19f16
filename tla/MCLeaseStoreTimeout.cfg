\* A timed wait whose last attempt fails.
CONSTANTS
  a = a
  b = b
  c = c
  Proc = {a, b}
  Runs = {}
  Timed = {a}
  Remote = {}
  Starvable = {}
  TTL <- MCTTL2
  MaxTTL = 2
  StaleAfter = 1
  Grace = 2
  SectionMax = 1
  NoProc = NoProc
  Pruner = Pruner
SPECIFICATION Spec
INVARIANTS
  TimeoutExits
