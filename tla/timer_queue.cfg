SPECIFICATION Spec
CONSTANTS
  other = other
  Threads <- MCThreads
  Addrs = {1, 2}
  Delays = {0, 2}
  Intervals = {0, 1}
  MaxCreated = 2
  MaxTime = 3
  MaxSets = 0
INVARIANTS HeapExact TimersKept CancelledNotRescheduled
