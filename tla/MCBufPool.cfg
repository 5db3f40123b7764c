SPECIFICATION Spec
CONSTANTS
  InBuf = {i1}
  OutBuf = {o1}
  Class = {1, 2, 4}
  Made <- MCMade
  MAX_BUF_POOL_CAP = 9
  PutLen = {1, 2, 3}
  Null = Null
  MaxBytes = 6
CHECK_DEADLOCK FALSE
INVARIANTS OnePlace CapacityCounted HoldsWhatCame DataAtHead
