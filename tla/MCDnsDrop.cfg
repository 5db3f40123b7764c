SPECIFICATION FairSpec
CONSTANTS
  Mod = {m1}
  Host = {h1}
  Fd = {f1}
  Worker = {w1}
  NoWorker = NoWorker
  MaxCommits = 1
  MaxFaults = 1
PROPERTIES DroppedIsPublished
