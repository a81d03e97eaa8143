SPECIFICATION FairSpec
CONSTANTS
    Stages <- MainStages
    Uncounted <- MainUncounted
    MayBeAbsent <- MainMayBeAbsent
    FatalReboots = {TRUE, FALSE}
    COUNT_MAX = 2
    MaxFaults = 1
INVARIANTS
    TypeOK
    MarkerHonest
    OkMeansGuarded
PROPERTIES
    BootOnlyCounts
    UnreachableNodeRestarts
