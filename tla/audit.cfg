SPECIFICATION Spec
CONSTANTS
    a1 = a1
    a2 = a2
    mainScan = mainScan
    v2Scan = v2Scan
    Advisory <- MCAdvisory
    Scan <- MCScan
    MaxEvents = 3
INVARIANTS
    OneIssueEach
    CleanRunSyncs
PROPERTIES
    ClosedOnlyWhenGone
    EventuallyInSync
