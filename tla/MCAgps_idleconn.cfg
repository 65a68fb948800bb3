SPECIFICATION Spec
CONSTANTS
  h1 = h1
  h2 = h2
  Handles = {h1, h2}
  ReqTypes = {"SUPL", "SUPL_ES", "WWAN_ANY"}
  UsePdn = FALSE
  MaxRetries = 1
  MaxCmds = 3
  MaxQueue = 2
  MaxTimers = 1
SYMMETRY HandleSymmetry
INVARIANTS
  NoIdleConnection
