SPECIFICATION Spec
CONSTANTS
    i1 = i1
    i2 = i2
    o1 = o1
    a1 = a1
    a2 = a2
    a3 = a3
    Images = {i1}
    Opacities = {o1}
    Addresses = {a1, a2}
    MaxObjects = 7
    MaxContainers = 3
    MaxDocuments = 2
    ImagesRedrawn = FALSE
    ExtendersFail = TRUE
SYMMETRY Symmetry
INVARIANTS
    ReferencesResolve
    DocumentIsWhole
    EveryoneGetsTheirOwn
CHECK_DEADLOCK FALSE
