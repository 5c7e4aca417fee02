\* Three runs of 16.c, killed at any place.
SPECIFICATION MCSpec
CONSTANTS
  Count = 2
  MaxRuns = 3
\* A failed write leaves the other one waiting, and so does a kill.
CHECK_DEADLOCK FALSE
INVARIANTS
  MCTypeOK
  NothingOutOfStep
PROPERTIES
  TakeTurns
  LinesAlternate
  TurnsEnd
