SPECIFICATION ThreadFairSpec
CONSTANTS
  Task = {t1, t2}
  MaxSent = 3
  Sock = sock
  Notice = notice
  Fd = {sock, notice}
  BadFd = BadFd
  NoCb = NoCb
  SockCap = 1
CHECK_DEADLOCK FALSE
INVARIANTS NoLostWakeup TablesAgree FreshBatch DealtIsUnderWay
PROPERTIES ImplementsTaskChannel TaskGetsOut
