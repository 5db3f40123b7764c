SPECIFICATION Spec
CONSTANTS
  MSG_HEAD_LEN = 2
  MSG_MAX_LIMIT = 2
  ClientLimit = 1
  DataLen = {1, 2}
  SockCap = 3
  MaxSent = 1
CHECK_DEADLOCK FALSE
INVARIANTS LegalIsNotAbnormal
