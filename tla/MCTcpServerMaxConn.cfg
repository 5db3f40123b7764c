SPECIFICATION Spec
CONSTANTS
  Fd = {f1, f2, f3}
  NoFd = NoFd
  thread_num = 2
  max_conn_fd = 1
INVARIANTS WithinMaxConn
