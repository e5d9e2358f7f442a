SPECIFICATION Spec
CHECK_DEADLOCK FALSE
CONSTANTS
    Roles <- TwoRoles
    FirstRole = "planner"
    Faults <- FaultKinds
    MaxFaults = 3
    MaxTurns = 2
    MaxCopies = 2
INVARIANT
    LoopsKeepApart
    AnswersItsTurn
PROPERTY
    ImplementsTurns
    Settles
CONSTRAINT Uncrossed
