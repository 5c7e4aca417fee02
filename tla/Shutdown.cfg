SPECIFICATION Spec
CONSTANTS
  Worker = {v, w, x}
  None = None
CHECK_DEADLOCK FALSE
INVARIANTS
  JoinedFirst
  QuietEndIsSafe
PROPERTIES
  EndsOrStrands
