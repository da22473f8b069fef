CONSTANTS
    Bytes <- MCBytes
    Sizes <- MCSizes
    NvtEol = TRUE
    MayFail = TRUE
    MaxCall = 2
SPECIFICATION Spec
INVARIANT DiscardsOldCompress
CHECK_DEADLOCK FALSE
