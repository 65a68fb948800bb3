SPECIFICATION FairSpec
CONSTANTS
  Timers = {t1, t2}
  None = None
  Delays = {1, 2}
  MaxDelegates = 3
  MaxNow = 3
\* clients may stop
CHECK_DEADLOCK FALSE
INVARIANTS TypeOK DeletedIsUnreachable RunningIsTracked WakeUpIsComing
PROPERTY DelegateEnds
