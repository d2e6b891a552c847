\* Three threads over a schema and the filter a call compiles from it, one call
\* or close each.  No symmetry: liveness properties are checked.
SPECIFICATION FairSpec
CONSTANTS
    Thread = {t1, t2, t3}
    Handle = {h1, h2}
    Compiled = {h1}
    MaxCalls = 1
    Interruptible = {t1}
    NoHandle = NoHandle
INVARIANTS
    NoLostWakeUp
    NoUseAfterFree
    FreedOnce
PROPERTIES
    EveryCallReturns
    ForgottenFreed
    ImplementsHandleLife
