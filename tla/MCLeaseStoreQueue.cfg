\* Three sessions: a local one, a remote one, a starved one.
CONSTANTS
  a = a
  b = b
  c = c
  Proc = {a, b, c}
  Runs = {}
  Timed = {}
  Remote = {b}
  Starvable = {c}
  TTL <- MCTTL1
  MaxTTL = 1
  StaleAfter = 1
  Grace = 2
  SectionMax = 1
  NoProc = NoProc
  Pruner = Pruner
SPECIFICATION Spec
VIEW QueueView
INVARIANTS
  NoBarging
PROPERTIES
  PromptKeepsSlot
