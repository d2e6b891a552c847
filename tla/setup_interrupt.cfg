\* Two registries, so that the registry locks and the setup lock are all taken,
\* and Ctrl-C may end any open at any step.  No symmetry: a liveness property is
\* checked.
SPECIFICATION FairSpec
CONSTANTS
    Thread = {t1, t2}
    Registry = {r1, r2}
    Request = {q1}
    Image = {i1, i2}
    Zones = {utc, paris}
    DefaultSets = {none}
    EmptyZone = utc
    NoDefaults = none
    MaxCalls = 2
    NoSetup = NoSetup
    NoThread = NoThread
    NoRegistry = NoRegistry
    NoRequest = NoRequest
    NoImage = NoImage
    NoZone = NoZone
INVARIANTS
    OpenUnderZone
PROPERTIES
    EveryCallReturns
