SPECIFICATION FairSpec
CONSTANTS
  Clients = {c1, c2}
  None = None
  MaxId = 3
  Intervals = {1, 2, 3}
  Modes = {m1}
  MaxRestarts = 2
INVARIANTS EngineRunsFastest EngineServes
PROPERTIES OthersKeepTheFix SessionsResume
