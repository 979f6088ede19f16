\* A reader beside two sessions, one local and one of another host.
CONSTANTS
  a = a
  b = b
  Proc = {a, b}
  Runs = {}
  Timed = {}
  Remote = {b}
  Starvable = {}
  TTL <- MCTTL2
  MaxTTL = 2
  StaleAfter = 1
  Grace = 1
  SectionMax = 1
  ReadMax = 2
  NoProc = NoProc
  Pruner = Pruner
SPECIFICATION ReadersSpec
VIEW ReadersView
INVARIANTS
  ReadersTypeOK
  WaitSawFree
  HeldWasSeen
  HolderKept
  StatusComplete
