CONSTANTS
    c1 = c1
    c2 = c2
    w1 = w1
    w2 = w2
    None = None
    Client <- MCClient
    Writer <- MCWriter
    LeaseTime = 2
    Epsilon = 1
    MaxWrites = 2
    ServerEvicts = FALSE
    Ino = Ino
    Unset = Unset

SPECIFICATION Spec

CONSTRAINT TimeBound

INVARIANTS
    CachedLookupsCurrent

SYMMETRY MCSymmetry
