SPECIFICATION Spec
CONSTANTS
    p1 = p1
    c1 = c1
    c2 = c2
    s1 = s1
    i1 = i1
    i2 = i2
    i3 = i3
    NULL = NULL
    Threads <- Threads3
    Program <- Program3
    Items <- Items3
    Capacity = 2
SYMMETRY ItemSymmetry
INVARIANTS
    TypeOK
    LocksOK
    RingOK
    ItemsConserved
    ErrnoOK
    NoDeadlock
PROPERTIES
    WritersOnly
    Linearizable
