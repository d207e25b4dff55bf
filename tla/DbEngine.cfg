SPECIFICATION Spec
CONSTANTS
    Main = main
    Others = {other}
    Keys = {1, 2}
    Values = {1, 2, 3}
    skeys <- MCSkeys
    AllocSize = 2
    MaxRefs = 2
    MaxDepth = 2
    CursorDepth = 0
INVARIANTS
    TypeOK
    ReportsAreTrue
    SecondaryInStep
    ListNamesOpenDatabases
    ReferencesKeepEngine
    FindsEveryRecord
PROPERTIES
    CursorShowsRecord
    LockIsReleased
CHECK_DEADLOCK FALSE
