SPECIFICATION TimedSpec
CONSTANTS
    a1 = a1
    a2 = a2
    p1 = p1
    p2 = p2
    p3 = p3
    NULL = NULL
    Addresses <- TwoAddresses
    Pointers <- ThreePointers
    SocketBuffer = 2
    ClientTimeout = 0
    CheckPeriod = 2
SYMMETRY Interchangeable
CHECK_DEADLOCK FALSE
INVARIANTS
    TypeOK
    ListOK
    NoUseAfterFree
    PhaseAgrees
    Drained
    ExpiresInTime
PROPERTIES
    Isolation
