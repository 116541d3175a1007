SPECIFICATION ObjectsSpec
CONSTANTS
    Files <- MCFiles
    MaxXrefSize = 6
    MaxIDs = 8
    MaxDepth = 5
    MaxParses = 2
    MaxAsks = 2
    MaxCalls = 7
INVARIANTS
    XrefIsRight
    FindsWhatIsThere
    KeysAreRight
    ParserIsAtHome
PROPERTIES
    ParserReturns
CHECK_DEADLOCK FALSE
