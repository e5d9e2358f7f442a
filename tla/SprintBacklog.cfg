CONSTANTS
    MaxItems = 3
    Known = {1, 3}
    Journal = {3}
    MaxStarts = 2
    MaxMerges = 1
    FaultKinds = {"crash", "late", "failed", "restart", "day"}
    MaxFaults = 1
SPECIFICATION BacklogSpec
INVARIANT BacklogIsWorked
PROPERTIES DoneStaysDone BlockedIsReviewed PendingIsTaken
CHECK_DEADLOCK FALSE
