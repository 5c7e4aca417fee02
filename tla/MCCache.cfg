\* Three clients on two threads; one entry fits.
SPECIFICATION Spec
CONSTANTS
  Client = {a, b, c}
  Null = Null
  Host = {h, g}
  Takes <- Prefixes
  Sizes = {2}
  Threshold = 2
  Threads = 2
  h = h
  g = g
\* Everybody may be gone, or the process crashed.
CHECK_DEADLOCK FALSE
INVARIANTS
  ListInPutOrder
  InUseIsLinked
  OnlyLostTailCrashes
  OverCommitBounded
  HitsOldest
PROPERTIES
  EveryCallReturns
