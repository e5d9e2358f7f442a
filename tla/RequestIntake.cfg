CONSTANTS
    Messages = {1, 2, 3, 4}
    TextOf <- MCTextOf
    Attached = {2}
    Forwarded = {1}
    MaxCrashes = 1
    Earlier = {4}
SPECIFICATION Spec
INVARIANT RequestsAreSingle
PROPERTIES EndedStaysEnded InputsAreKept EverythingIsSettled
CHECK_DEADLOCK FALSE
