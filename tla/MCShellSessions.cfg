\* Commands on uploads, clocks and the log, with a restart of the other node.
SPECIFICATION FairSpec
CONSTANTS
    Images = {"golden", "next"}
    Blocks = 1
    Nothing = Nothing
    MaxTransfers = 2
    INT32_MAX = 2
    SetTimes = {0, 1, 3}
    LOG_CAPACITY = 2
    MAX_READ = 2
    LEVEL_MAX = 4
    Levels = {4, 5}
    RETAINED = 1
    MaxRecords = 3
    MaxOps = 3
    MaxRestarts = 1
INVARIANTS ActsOnResolved SuccessWasReal HistoryHasNoGap
PROPERTIES HandOverKeepsTime PromptReturns
CHECK_DEADLOCK FALSE
