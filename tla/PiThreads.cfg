\* Three threads that run up to iteration 3 before the signal.
SPECIFICATION Spec
CONSTANTS
  N = 3
  Steps = 2
  MaxIter = 3
\* Without a signal the bound stops the threads.
CHECK_DEADLOCK FALSE
INVARIANTS
  OneLastIteration
  SumHasNoGap
PROPERTIES
  SignalEndsAll
