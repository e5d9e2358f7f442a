CONSTANTS
    start = start
    run = run
    stop = stop
    restart = restart
    None = None
    MaxProcs = 3
    Commands = {start, run, stop, restart}
    Kind <- MCKind
    FaultKinds = {"fails", "killed", "reused"}
    MaxFaults = 1
SPECIFICATION Spec
INVARIANT ServiceIsSingle
PROPERTY StartServes
CHECK_DEADLOCK FALSE
