\* Two processes over a foreign or torn entry.
SPECIFICATION Spec
CONSTANTS
    Installer = {p1, p2}
    InitialDest = {Absent, Empty, Torn}
    MaxAttempts = 3
    MaxCalls = 1
    Absent = Absent
    Empty = Empty
    Torn = Torn
INVARIANTS
    ReadBackFinds
