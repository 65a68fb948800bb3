SPECIFICATION FairSpec
CONSTANTS
  MaxReq = 3
  MaxAnswers = 1
  ThreadCanFail = TRUE
\* the modem and the user may stop
CHECK_DEADLOCK FALSE
INVARIANTS OwnRequest EsExcludesNew
PROPERTY SessionEnds
