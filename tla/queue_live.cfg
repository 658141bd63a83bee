SPECIFICATION LiveSpec
CONSTANTS
    p1 = p1
    c1 = c1
    c2 = c2
    s1 = s1
    i1 = i1
    i2 = i2
    i3 = i3
    NULL = NULL
    Threads <- ThreadsLive
    Program <- ProgramLive
    Items <- Items2
    Capacity = 1
    MaxCalls = 2
    MaxSpurious = 1
CHECK_DEADLOCK FALSE
PROPERTIES
    EveryCallReturns
