SPECIFICATION Spec
CONSTANTS
    PassLimit = 2
    ReviewLimit = 2
    ExecutionRequested = TRUE
    MaxReviews = 3
    Reports <- MCReports
    Kinds <- AllKinds
INVARIANT
    WorkflowIsSound
    ImplementationIsGuided
    ValidationIsReviewed
    DelegateeOwnsStep
    ClosedAtAGate
PROPERTY
    FinishedIsFinal
