\* Whether a marker that is not stale can be taken away: only the markers of
\* the dead get old here.
CONSTANTS
  a = a
  b = b
  c = c
  Proc = {a, b, c}
  Faulty = {a}
  StaleAfter = 1
  AcquireMax = 2
  StallMax = 1
  NoMarker = NoMarker
  Orphan = Orphan
SPECIFICATION Spec
PROPERTIES
  LiveMarkerStays
