CONSTANTS
    Compressions = {TRUE, FALSE}
    Ciphers = {"none", "rc4", "aes"}
    Directs = {TRUE, FALSE}
    BufferSize = 3
    CacheSize = 2
    BlockSize = 2
    WriteSizes = {1, 2, 5}
    MaxUnits = 6
    MaxFaults = 2
SPECIFICATION StreamSpec
INVARIANTS
    StreamsAreRight
    LossIsTold
CHECK_DEADLOCK FALSE
