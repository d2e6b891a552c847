\* Three processes install, twice each, over a foreign or torn entry or over
\* nothing; two turns of the loop can run out.  No symmetry: a liveness property
\* is checked.
SPECIFICATION FairSpec
CONSTANTS
    Installer = {p1, p2, p3}
    InitialDest = {Absent, Empty, Torn}
    MaxAttempts = 2
    MaxCalls = 2
    Absent = Absent
    Empty = Empty
    Torn = Torn
INVARIANTS
    EntryNotLost
    RetriesAreContended
PROPERTIES
    EventuallyUsable
