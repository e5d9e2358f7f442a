SPECIFICATION Spec
CONSTANTS
    MaxSprints = 2
    MaxGoals = 1
    MaxEvents = 2
    Modes = {"manual_daily", "hybrid"}
 
PROPERTIES GoalIsObeyed LiveIsWorkedOn
CHECK_DEADLOCK FALSE
CONSTRAINT Uncrossed
