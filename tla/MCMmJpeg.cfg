SPECIFICATION Spec
CONSTANTS
  NumSessions = 2
  MaxOngoing = 1
  MaxJobs = 2
  MaxCreates = 3
  MaxFailures = 1
  MaxErrors = 1
INVARIANTS RunningIsKnown HandleAccounted
PROPERTIES QuietAfterEnd JobEnds ManagerLeaves
CHECK_DEADLOCK FALSE
