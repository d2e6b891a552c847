SPECIFICATION Spec
CONSTANTS
    Process = {p1, p2}
    Request = {line, other}
    Platform = {host, foreign}
    Manifest = {old, new, next, away}
    line = line
    other = other
    host = host
    foreign = foreign
    old = old
    new = new
    next = next
    away = away
    PlatformOf <- MCPlatformOf
    Rank <- MCRank
    Within <- MCWithin
    Signed = {old, next, away}
    Systems <- MCSystems
    Seeded = {old, new}
    Options <- MCOptions
    InitialLocks <- MCInitialLocks
    MaxCalls = 1
    NoManifest = NoManifest
    NoPin = NoPin
    NoFile = NoFile
    Refused = Refused
    NoCall = NoCall
INVARIANTS
    NeverBackwards
    PinsFollowed
    OutsideOnlyByName
    PinsFollowable
PROPERTIES
    RecordsAreEarned
    LostPinsWereStale
    EntriesStand
