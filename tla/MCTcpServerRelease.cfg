SPECIFICATION FairSpec
CONSTANTS
  Fd = {f1, f2}
  NoFd = NoFd
  thread_num = 2
  max_conn_fd = 2
PROPERTIES MarkedIsReleased
