SPECIFICATION SafeSpec
CONSTANTS
  Reader = {a, b}
  Lengths = {3}
  Expectations = {3}
  BufSize = 2
  ChunksToRead = 2
CHECK_DEADLOCK FALSE
PROPERTIES
  DropEndsOneSession
