SPECIFICATION ProcessSpec
CONSTANTS
    Sessions = {s1, s2, s3}
    Certs = {leaf}
    MaxChain = 1
CHECK_DEADLOCK FALSE
INVARIANTS
    ExitReleasesAll
