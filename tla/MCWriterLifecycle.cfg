SPECIFICATION Spec
CONSTANTS
    k1 = k1
    k2 = k2
    NoKey = NoKey
    Keys <- MCKeys
    IsPDF20 <- MCPDF20
    MaxObjects = 3
    MaxDocuments = 2
    ReuseAfterEncryption = FALSE
    ContinueEncryption = FALSE
INVARIANTS
    DocumentIsReadable
    KeysFollowObjects
    BrokenStringsAreReported
CHECK_DEADLOCK FALSE
