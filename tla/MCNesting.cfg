\* Two agents that wait up the order, or in any order with a deadline.
CONSTANTS
  a = a
  b = b
  Agent = {a, b}
  Key = {1, 2}
  Ordered = {a, b}
  MaxDepth = 2
  NoKey = NoKey
  NoRun = NoRun
SPECIFICATION FairSpec
INVARIANTS
  TypeOK
  NestedExclusion
  NoCircle
PROPERTIES
  AllWaitsEnd
