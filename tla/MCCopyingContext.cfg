SPECIFICATION Spec
CONSTANTS
    Objects <- MCObjects
    Sources <- MCSources
    RefLists <- MCRefLists
    MaxCalls = 3
INVARIANTS
    CopiesAreRight
    NothingIsMissing
PROPERTIES
    CallsReturn
    ImplementsDeepCopy
CHECK_DEADLOCK FALSE
