SPECIFICATION ParserSpec
CONSTANTS
    Sizes <- MCSizes
    ReadSizes <- MCReadSizes
    BufferSize = 3
    MaxPosition = 9
    Contents <- MCContents
    MaxObjectDepth = 2
    Moves = {0, 2}
INVARIANTS
    BufferIsRight
    ParserIsRight
PROPERTIES
    IsByteReader
    ObjectsAreReturned
CHECK_DEADLOCK FALSE
