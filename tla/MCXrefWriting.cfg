SPECIFICATION XrefSpec
CONSTANTS
    MaxObjects = 5
    MaxFileLength = 4
    MaxGeneration = 2
    MaxXrefPosition = 3
    MaxSessions = 2
    OriginalFiles <- MCOriginalFiles
INVARIANTS
    RegistryIsSound
    SectionIsRight
PROPERTIES
    HistoryIsKept
    NewestIsFound
CHECK_DEADLOCK FALSE
