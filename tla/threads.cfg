CONSTANTS
    NumThreads = 3
    MaxNext = 2
SPECIFICATION FairSpec
CHECK_DEADLOCK FALSE
 
PROPERTIES AllStart DestroyEnds
