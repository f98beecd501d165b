SPECIFICATION FairSpec
CONSTANTS
  c1 = c1 c2 = c2
  Conns <- MCConns
  Base = "base"
  IoLoops <- OneThread
  ThreadNums = {0, 1}
  Fds = {7}
  ResponseUnits = 2
  SndBuf = 1
  MaxRequests <- TwoAndNone
CHECK_DEADLOCK FALSE
INVARIANTS WayDownClean OutputComplete
PROPERTIES GoneIsFreed RequestAnswered BacklogDrains
