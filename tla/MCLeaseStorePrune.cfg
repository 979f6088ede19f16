\* A starved local waiter beside the pruner.
CONSTANTS
  a = a
  b = b
  c = c
  Proc = {a, b}
  Runs = {a, b}
  Timed = {a, b}
  Remote = {b}
  Starvable = {a}
  TTL <- MCTTL2
  MaxTTL = 2
  StaleAfter = 1
  Grace = 2
  SectionMax = 1
  NoProc = NoProc
  Pruner = Pruner
SPECIFICATION Spec
PROPERTIES
  PruneOnlyDead
