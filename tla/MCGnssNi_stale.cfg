SPECIFICATION Spec
CONSTANTS
  MaxReq = 2
  MaxAnswers = 1
  ThreadCanFail = FALSE
CHECK_DEADLOCK FALSE
INVARIANT UserDecides
