\* Two clients of one entry.  The server sends what it promised, less or more;
\* 9 stands for BE_INF.  A response part and a read() are up to two bytes.
SPECIFICATION Spec
CONSTANTS
  Reader = {a, b}
  Lengths = {1, 3, 4}
  Expectations = {3, 9}
  BufSize = 2
  ChunksToRead = 2
\* Everybody may be done, or the process killed.
CHECK_DEADLOCK FALSE
INVARIANTS
  ReadyBetween
  NoTornRead
  Contiguous
  NoLostWakeup
PROPERTIES
  EveryReaderFinishes
