SPECIFICATION Spec
CONSTANTS
    Pages = {"a", "b", "c", "d"}
    Handles = {h1, h2}
    Place <- MCPlace
    SourceDict <- MCSourceDict
    SourceDicts <- MCSourceDicts
    HasContents <- MCHasContents
    SourceAnnots <- MCSourceAnnots
    Links = {l1, l2}
    MaxForms = 3
    MaxWrites = 4
    SamePage = FALSE
SYMMETRY Symmetry
INVARIANTS
    NamesDistinct
    PagesAreRight
    LinksOnTheirPage
CHECK_DEADLOCK FALSE
