SPECIFICATION FairSpec
CONSTANTS
  Mod = {m1}
  Host = {h1}
  Fd = {f1}
  Worker = {w1, w2}
  NoWorker = NoWorker
  MaxCommits = 2
  MaxFaults = 1
INVARIANTS SubscriptionsAgree SubscriberInformed
PROPERTIES EverySubscriberUpToDate
