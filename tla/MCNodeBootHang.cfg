SPECIFICATION FairSpec
CONSTANTS
    Stages <- MainStages
    Uncounted <- MainUncounted
    MayBeAbsent <- MainMayBeAbsent
    FatalReboots = {FALSE}
    COUNT_MAX = 1
    MaxFaults = 1
PROPERTY
    StartupHangResets
