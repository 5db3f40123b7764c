SPECIFICATION FairSpec
CONSTANTS
  Fd = {f1, f2, f3}
  NoFd = NoFd
  thread_num = 2
  max_conn_fd = 2
INVARIANTS TypeOK OneHolder Registered ActivationAgrees
PROPERTIES AcceptedIsServed ReleasedByNextClose
