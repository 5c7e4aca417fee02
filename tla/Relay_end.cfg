\* One session that talks, in a relay that could have two.
SPECIFICATION Spec
CONSTANTS
  Clients = 1
  MaxThreads = 2
  BufLen = 2
  Talkative = {1}
  MaxBytes = 1
  MaxReply = 0
  NulBytes = {}
CHECK_DEADLOCK FALSE
PROPERTIES
  PeerEndEndsSession
