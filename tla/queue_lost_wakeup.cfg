SPECIFICATION Spec
CONSTANTS
    p1 = p1
    c1 = c1
    c2 = c2
    s1 = s1
    i1 = i1
    i2 = i2
    i3 = i3
    NULL = NULL
    Threads <- Threads2
    Program <- Program2
    Items <- Items2
    Capacity = 1
PROPERTIES
    NoLostWakeup
