SPECIFICATION FairSpec
CONSTANTS
  t1 = t1 t2 = t2 k1 = k1 k2 = k2
  Tasks <- MCTasks
  Conns <- MCConns
  Fds = {7, 8}
  NoFd <- MCNoFd
  NoConn = NoConn
  MaxRecycle = 1
  RespLen = 2
  SndBuf = 1
  ReadCap = 2
  Flags <- FlagsPlain
  Fragmented = TRUE
  MaxBacklog = 2
  MaxRequests = 2
CHECK_DEADLOCK FALSE
INVARIANTS PoolExact FdOwned
PROPERTIES KeepConnObeyed WholeRequestAnswered EventuallyClosed BacklogServed
