SPECIFICATION Spec
CONSTANTS
    A = A
    B = B
    A1 = A1
    A2 = A2
    B1 = B1
    Nothing = Nothing
    F1 = F1
    Fonts <- MCFonts
    Sizes <- MCSizes
    ObjectsOf <- MCObjectsOf
    UserNames = {F1, 1}
    Balanced = TRUE
    MaxDepth = 2
    MaxNames = 2
    MaxGiven = 2
INVARIANTS
    ShownInItsFont
    PictureMatches
    NamesDenoteOne
CHECK_DEADLOCK FALSE
