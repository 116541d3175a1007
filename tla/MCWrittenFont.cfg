SPECIFICATION Spec
CONSTANTS
    Fonts <- Faces
    Texts <- MCTexts
    LastCode = 6
    Width <- MCWidth
    WinAnsi <- MCWinAnsi
    Bullet <- MCBullet
    StandardGlyph <- MCStandardGlyph
INVARIANTS
    ShownIsRight
    FontIsRight
PROPERTIES
    CodesAreKept
CHECK_DEADLOCK FALSE
