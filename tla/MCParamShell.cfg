\* Two commands, here and on another node, and a change of what they read.
SPECIFICATION FairSpec
CONSTANTS
    UINT32 = 4
    KB = 2
    Bitrates = {1, 2}
    NAMES_MAX = 7
    WINDOW = 4
    Dash = Dash
    GetNames = {"feeds"}
    SetNames = {"rdp_trace", "can_speed"}
    SetValues = {2, 3, 256}
    AskedTables = {3, 5}
    FsStates <- Filesystems
    FsStart <- PartFull
    MaxOps = 2
    MaxEvents = 1
INVARIANTS TypeOK RowsWereTrue ListingIsWhole CellsFitTogether
PROPERTIES SetIsHonest CommandEnds
CHECK_DEADLOCK FALSE
