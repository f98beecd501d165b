SPECIFICATION FairSpec
CONSTANTS
  co1 = co1 co2 = co2 fd1 = fd1 fd2 = fd2
  Cos = {co1, co2}
  Main = main None = none
  Fds = {fd1, fd2}
  Owner <- MCOwner
  Stacks = 1
  RingSize = 3
  PollTimeouts <- MCPollTimeouts
  CondTimeouts = {0, 2}
  INT_MAX = 9
  MaxTime = 3
CONSTRAINT SharedStackWithoutTime
CHECK_DEADLOCK FALSE
  
PROPERTIES NoEarlyTimeout ReadyPollReturns
