SPECIFICATION FairSpec
CONSTANTS
  Mod = {m1, m2}
  NoMod = NoMod
  Host = {h1}
  update_timeout = 1
  MaxChanges = 2
  MaxInFlight = 4
INVARIANTS PullOutstanding AgentInSync
PROPERTIES Converges
