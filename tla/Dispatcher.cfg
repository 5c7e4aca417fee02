\* Two client requests, so up to four connections, for two workers.
SPECIFICATION Spec
CONSTANTS
  Request = {r1, r2}
  NumWorkers = 2
  SemMax = 2
  NoConn = NoConn
INVARIANTS
  SingleOwner
  PointersGood
  NoneStranded
  LatchDiscipline
PROPERTIES
  EveryConnectionServed
  ImplementsWorkQueue
