\* Two threads, three public calls each: a setup before, between and after two
\* opens of one thread while the other opens and fails in between.
SPECIFICATION Spec
CONSTANTS
    Thread = {t1, t2}
    Registry = {r1}
    Request = {q1}
    Image = {i1, i2}
    Zones = {utc, paris}
    DefaultSets = {none, some}
    EmptyZone = utc
    NoDefaults = none
    MaxCalls = 3
    NoSetup = NoSetup
    NoThread = NoThread
    NoRegistry = NoRegistry
    NoRequest = NoRequest
    NoImage = NoImage
    NoZone = NoZone
SYMMETRY Symmetry
INVARIANTS
    OpenUnderSetup
    NoSwapUnderLoad
    Correctable
PROPERTIES
    OwnFailureReplaces
    MemoStands
    ImplementsSetupOnce
