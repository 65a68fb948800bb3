SPECIFICATION Spec
CONSTANTS
  Streams = {meta, snapshot}
  Meta = meta
  NumBufs = 3
  WaterMark = 2
  LookBack = 1
  PostSkip = 0
  MaxUnmatched = 1
  FutureWait = 2
  Commands <- MCCommands
  MaxFrame = 4
  MaxCommands = 2
  MaxInfos = 1
  MaxStarts = 1
  MaxBacklog = 1
INVARIANTS RequestIsServed QueueIsBounded BuffersAccounted ZslEnds
PROPERTIES SentInOrder
CHECK_DEADLOCK FALSE
