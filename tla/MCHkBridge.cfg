SPECIFICATION Spec
CONSTANTS
    COUNT = 1
    PORTS = 2
    WINDOW = 2
    CAP = 1
    MODULUS = 8
    MaxSamples = 2
    MaxTime = 2
    MaxNet = 2
    MaxRows = 3
    MaxPolls = 3
    MaxLives = 2
INVARIANTS
    EvidenceFirst
    DuplicatesAreOld
    LateRepliesIgnored
CHECK_DEADLOCK FALSE
