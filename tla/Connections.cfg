\* Two clients on two workers, and a block for each that may still be used
\* again; a proxied response has up to five parts, which takes three turns.
SPECIFICATION Spec
CONSTANTS
  Client = {a, b}
  Null = Null
  Block = {k, l}
  Workers = 2
  ChunksToRead = 2
  MaxParts = 4
CHECK_DEADLOCK FALSE
INVARIANTS
  ProxyOwner
  OnlyFailuresLeak
  PartsInOrder
PROPERTIES
  EverySessionEnds
