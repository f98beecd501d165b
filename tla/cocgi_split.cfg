SPECIFICATION Spec
CONSTANTS
  t1 = t1 t2 = t2 k1 = k1 k2 = k2
  Tasks <- MCTask1
  Conns <- MCConns
  Fds = {7, 8}
  NoFd <- MCNoFd
  NoConn = NoConn
  MaxRecycle = 1
  RespLen = 1
  SndBuf = 1
  ReadCap = 2
  Flags <- FlagsPlain
  Fragmented = TRUE
  MaxBacklog = 2
  MaxRequests = 1
PROPERTY NoRequestDropped
