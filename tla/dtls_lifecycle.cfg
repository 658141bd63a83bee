SPECIFICATION LifeSpec
CONSTANTS
    Sessions = {s1, s2}
    Certs = {leaf, other}
    MaxChain = 3
INVARIANTS
    LifeTypeOK
    ReleasesExactly
    PinDecides
