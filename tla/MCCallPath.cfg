SPECIFICATION FairSpec
CONSTANTS
  Caller = {c1, c2}
  Mod = {m1, m2}
  Port = {p1, p2}
  m1 = m1
  m2 = m2
  p1 = p1
  p2 = p2
  NoPort = NoPort
  Key = {m1, m2}
  PortOf <- Ports
  Host = {h1, h2}
  Worker = {w1, w2}
  Agent = w1
  db_thread_cnt = 2
  Budgets <- SomeBudgets
CHECK_DEADLOCK FALSE
INVARIANTS  LeftOverByFailures RowIsSomeonesLast
PROPERTIES CallReturns CommittedIsStored
