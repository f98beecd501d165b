SPECIFICATION FairSpec
CONSTANTS
  other = other
  Threads <- NoThreads
  Addrs = {1, 2}
  Delays = {0, 2}
  Intervals = {0, 1}
  MaxCreated = 2
  MaxTime = 3
  MaxSets = 1
PROPERTIES ScheduledTimerRuns
