SPECIFICATION SharedSpec
CONSTANTS
    p1 = p1
    c1 = c1
    i1 = i1
    i2 = i2
    i3 = i3
    NULL = NULL
    Nuker = Nuker
    Threads <- TeardownThreads
    Program <- TeardownProgram
    Items <- TeardownItems
    Capacity = 2
CHECK_DEADLOCK FALSE
PROPERTIES
    DrainIsFinal
