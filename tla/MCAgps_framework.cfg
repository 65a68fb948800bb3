SPECIFICATION FairSpec
CONSTANTS
  h1 = h1
  h2 = h2
  Handles = {h1, h2}
  ReqTypes = {"SUPL", "SUPL_ES", "WWAN_ANY"}
  UsePdn = FALSE
  MaxRetries = 0
  MaxCmds = 3
  MaxQueue = 3
  MaxTimers = 0
INVARIANTS
  GrantIsServed
  AskedIsTracked
PROPERTIES
  RequestIsAnswered
