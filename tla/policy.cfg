SPECIFICATION Spec
CONSTANTS
    c1 = c1
    c2 = c2
    ciRun = ciRun
    v1Run = v1Run
    python = python
    NoCommit = NoCommit
    Missing = Missing
    SurfaceOf = ciRun
    Commit <- MCCommit
    Workflow <- MCWorkflow
    Binding <- MCBinding
    Diff <- MCDiff
    Count <- MCCount
    MaxRuns = 2
    MaxEvents = 2
INVARIANTS
    NothingStale
PROPERTIES
    RefusedRightly
    LastRunEnqueues
CHECK_DEADLOCK FALSE
