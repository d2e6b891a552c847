\* Four writers and three turns: the file may be unreadable, turns may run out.
SPECIFICATION Spec
CONSTANTS
    Writer = {w1, w2, w3, w4}
    InitialIndex <- Anything
    MaxAttempts = 3
    Torn = Torn
    Alien = Alien
SYMMETRY Symmetry
INVARIANTS
    Converges
PROPERTY
    LostInGapOnly
