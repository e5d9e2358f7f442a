CONSTANTS
    f1 = f1
    f2 = f2
    r1 = r1
    r2 = r2
    Files <- MCFiles
    Requests <- MCRequests
    MaxEvents = 3
SPECIFICATION Spec
INVARIANT NothingIsLeft
PROPERTIES CommitIsNarrow UncommittedIsSettled
CHECK_DEADLOCK FALSE
