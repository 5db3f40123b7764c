SPECIFICATION FairSpec
CONSTANTS
  MSG_HEAD_LEN = 2
  MSG_MAX_LIMIT = 2
  ClientLimit = 1
  DataLen = {0, 1, 2}
  SockCap = 4
  MaxSent = 2
CHECK_DEADLOCK FALSE
INVARIANTS InOrder StreamIntact WriteWatched
PROPERTIES  CloseIsNoticed
