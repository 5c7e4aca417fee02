\* A client that reads ends after another has been given the memory of its
\* server connection, and is proxying with it.
SPECIFICATION SafeSpec
CONSTANTS
  Client = {a, b}
  Null = Null
  Block = {k, l}
  Workers = 2
  ChunksToRead = 2
  MaxParts = 4
CHECK_DEADLOCK FALSE
PROPERTIES
  EndsOnlyItsOwn
