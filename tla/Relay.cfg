\* Two sessions and a client too many; in the first, four bytes one way, the
\* second of them NUL, so that buffers are empty, cut, full, and read again.
SPECIFICATION Spec
CONSTANTS
  Clients = 3
  MaxThreads = 2
  BufLen = 2
  Talkative = {1}
  MaxBytes = 4
  MaxReply = 1
  NulBytes = {2}
CHECK_DEADLOCK FALSE
INVARIANTS
  WithinLimits
  PassedOn
PROPERTIES
  FlagEndsSessions
