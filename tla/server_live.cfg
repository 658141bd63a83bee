SPECIFICATION LiveSpec
CONSTANTS
    a1 = a1
    a2 = a2
    p1 = p1
    p2 = p2
    p3 = p3
    NULL = NULL
    Addresses <- TwoAddresses
    Pointers <- TwoPointers
    SocketBuffer = 1
    ClientTimeout = 0
    CheckPeriod = 1
    MaxArrivals = 3
CHECK_DEADLOCK FALSE
PROPERTIES
    KeepsTable
    SilentClientExpires
    ShutdownCompletes
