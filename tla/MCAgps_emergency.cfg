SPECIFICATION Spec
CONSTANTS
  h1 = h1
  h2 = h2
  Handles = {h1, h2}
  ReqTypes = {"SUPL", "SUPL_ES"}
  UsePdn = TRUE
  MaxRetries = 1
  MaxCmds = 2
  MaxQueue = 2
  MaxTimers = 1
SYMMETRY HandleSymmetry
INVARIANTS
  WaitsForAnAnswer
  ListMatchesState
PROPERTIES
  LeavesWithANotice
CHECK_DEADLOCK FALSE
