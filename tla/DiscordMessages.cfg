CONSTANTS
    two = two
    three = three
    short = short
    other = other
    p1 = p1
    q1 = q1
    NoMessage = NoMessage
    Messages = {two, three, short, other}
    Processes = {p1, q1}
    Author <- MCAuthor
    Length <- MCLength
    Fallback <- MCFallback
    Swallowing = {short}
    Limit = 2000
    MaxAttempts = 2
    MessageFaults = {"refused", "unacked", "fatal", "unready", "disconnect", "crash", "reorder", "restart"}
    MaxFailures = 2
    MaxWire = 2
SPECIFICATION MessagesSpec
INVARIANT MergesAreMessages
PROPERTY EverySendEnds
CHECK_DEADLOCK FALSE
