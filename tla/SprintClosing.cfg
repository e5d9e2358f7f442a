CONSTANTS
    spec = spec
    report = report
    artifact = artifact
    namesake = namesake
    Sections = {spec, report, artifact, namesake}
    Marker <- MCMarker
    Docs <- MCDocs
    Endings = {"completed", "failed", "blocked", "unplanned"}
    PageSize = 3
    FaultKinds = {"gh", "unacked", "lag", "send", "crash", "torn", "closed"}
    MaxFaults = 3
SPECIFICATION ClosingSpec
INVARIANTS PublishedOnce RecordsAgree
PROPERTY EndIsFinished
CHECK_DEADLOCK FALSE
