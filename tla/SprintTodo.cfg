SPECIFICATION Spec
CONSTANTS
    build = build
    use = use
    fix1 = fix1
    fix2 = fix2
    kick = kick
    more = more
    Todos <- MCTodos
    Recovery <- MCRecovery
    Kickoff <- MCKickoff
    Wishes <- MCWishes
    Implements <- MCImplements
    Rank <- MCRank
    MaxTries = 2
    FaultKinds <- AllFaults
    MaxFaults = 2
INVARIANTS TodosAreTracked DoneIsCommitted CompletedIsClean
PROPERTIES CommittedOnce Ends
CHECK_DEADLOCK FALSE
