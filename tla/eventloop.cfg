SPECIFICATION FairSpec
CONSTANTS
  a = a b = b f1 = f1 f2 = f2 f3 = f3
  Threads <- MCThreads
  Functors <- MCFunctors3
CHECK_DEADLOCK FALSE
INVARIANTS NoLostWakeup NoLostQuit
PROPERTIES QueuedFunctorRuns ImplementsExecutor
