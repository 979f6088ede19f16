\* Two sessions, one local and one of another host, with every fault.
CONSTANTS
  a = a
  b = b
  c = c
  Proc = {a, b}
  Runs = {a, b}
  Timed = {a, b}
  Remote = {b}
  Starvable = {}
  TTL <- MCTTL2
  MaxTTL = 2
  StaleAfter = 1
  Grace = 2
  SectionMax = 1
  NoProc = NoProc
  Pruner = Pruner
SPECIFICATION FairSpec
INVARIANTS
  TypeOK
  StoreInv
  MutualExclusion
PROPERTIES
  NoStealing
  Implements
  EveryWaitEnds
