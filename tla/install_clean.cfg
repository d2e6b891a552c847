\* Processes die anywhere and start again; no foreign entry ever stood there.
SPECIFICATION CrashSpec
CONSTANTS
    Installer = {p1, p2, p3}
    InitialDest = {Absent, Empty}
    MaxAttempts = 3
    MaxCalls = 2
    Absent = Absent
    Empty = Empty
    Torn = Torn
SYMMETRY Symmetry
INVARIANTS
    ReadBackFinds
PROPERTIES
    InstalledOnce
    PublishedWhole
