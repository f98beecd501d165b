CONSTANTS
    Base = 16
    Requests <- MCRequests
    Pieces = {1, 11}
    OutLens = {0, 1, 255, 256, 510, 511}
    EmptyPage <- MCEmptyPage
    Submissions <- MCSubmissions
    MaxLens = {0, 1, 2, 3}
    Bytes = {0, 1}
    Zero = 0
    kCheapPrepend = 1
    kInitialSize = 2
    ExtraSize = 2
    MaxData = 2
    MaxContent = 4
INIT RequestInit
NEXT RequestNext
CHECK_DEADLOCK FALSE
INVARIANTS RequestsExact AnswersExact FormsExact 
PROPERTIES ImplementsQueue
