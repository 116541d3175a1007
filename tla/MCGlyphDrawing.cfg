SPECIFICATION Spec
CONSTANTS
    G = G
    S = S
    L = L
    P = P
    Nothing = Nothing
    TextColour = 65535
    ColourFonts <- Typical
    Texts <- MCTexts
    Width <- MCWidth
    Box <- MCBox
    FontSize = 2
    Palette <- MCPalette
    Opacity = 255
    NoOpacity = 255
    Full = 4
    Alpha = 4
    Centre = 0
    Base <- Here
INVARIANTS
    DrawnAsMeant
    GraphicsStateIsKept
PROPERTIES
    WritingEnds
CHECK_DEADLOCK FALSE
