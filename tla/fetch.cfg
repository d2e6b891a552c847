\* Three attempts and two redirects over up to three bases; the waits planned
\* are 1 and 2, so a Retry-After of 3 fits the first and no later attempt.
SPECIFICATION Spec
CONSTANTS
    BaseLists <- Lists
    Attempts = 3
    FirstWait = 1
    Multiplier = 2
    RetryAfters = {0, 2, 3, 4}
    MaxRedirects = 2
INVARIANTS
    RequestsBounded
    CredentialsStay
    WaitsAllowed
    LastBaseDecides
