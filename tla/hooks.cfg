SPECIFICATION LibcoCallsSpec
CONSTANTS
  co1 = co1 co2 = co2 co3 = co3
  Cos = {co1, co2, co3}
  Hooked = {co1, co2}
  None = none
  MaxFd = 1
  SndBuf = 1
  MaxWrite = 2
  MaxBytes = 2
  Names = {1, 2}
  EnvValues = {3}
  Hosts = {4, 5}
CONSTRAINT OneOfThem
CHECK_DEADLOCK FALSE
INVARIANTS TableExact NeverSleeps WriteAccounted 
PROPERTIES SuspendedReturns
