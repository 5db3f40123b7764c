SPECIFICATION FairSpec
CONSTANTS
  Host = {h1, h2}
  NoHost = NoHost
  probe_num = 2
  init_succ_cnt = 2
  init_err_cnt = 1
  err_rate = 60
  succ_rate = 60
  contin_err_limit = 2
  contin_succ_limit = 2
  idle_timeout = 1
  overload_timeout = 1
  MaxReports = 4
INVARIANTS TypeOK ListsPartitionHosts VirtualCountsMatch 
PROPERTIES NoHastySwitch ImplementsHostPool IdleHostServed OverloadedHostTakenBack
