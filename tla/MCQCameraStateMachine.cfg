SPECIFICATION FairSpec
CONSTANTS
  None = None
  MaxFailures = 1
  MaxCalls = 5
INVARIANTS   WaiterIsOwed
CHECK_DEADLOCK FALSE
PROPERTIES CallsReturn SyncEventReturns
