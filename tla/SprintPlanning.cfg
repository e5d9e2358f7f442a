SPECIFICATION Spec
CONSTANTS
    MaxReopens = 1
    FaultKinds = {"crash", "send", "report", "docs", "stop", "restart"}
    MaxEvents = 2
INVARIANT StartsFromPlan
PROPERTIES ChangesAreKept ChangesAreAddressed PlanningReturns
CHECK_DEADLOCK FALSE
