\* Two reports, one of them collected and stored.
SPECIFICATION Spec
CONSTANTS
    REPORTS = 2
    ENTRIES = 2
    BYTE = 256
    WORD = 4
    TABLES = 3
    OFFSETS = 2
    TEXT = 20
    TOKEN = 8
    FLOOR = 2
    DEPTH = 3
    CAPACITY = 2
    Lines <- MCLines
    Filters <- MCFilters
    Numbers = {0, 1, 256}
    Values = {0, 1, 2}
    MaxOps = 1
    MaxRemote = 1
    MaxSamples = 4
    Incomplete = {2}
INVARIANTS TypeOK DefinedAsTyped RoutesAgree GetSkipsNothing StoredIsSelection ShowIsItsOwn DoneIsSaved
CHECK_DEADLOCK FALSE
