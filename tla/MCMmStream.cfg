SPECIFICATION FairSpec
CONSTANTS
  NumBufs = 2
  Configs <- MCConfigs
  MaxFailures = 1
INVARIANTS RefcntIsUsers PollFollowsCount PollerIsOut
PROPERTIES ImplementsLoan
