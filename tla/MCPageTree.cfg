SPECIFICATION Spec
CONSTANTS
    LevelSize = 2
    MaxPages = 5
    MaxOthers = 1
    MaxSessions = 3
    OriginalFiles <- MCOriginalFiles
INVARIANTS
    TreeIsSound
    DocumentIsRight
PROPERTIES
    SavedIsKept
CHECK_DEADLOCK FALSE
