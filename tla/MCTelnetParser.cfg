CONSTANTS
    Bytes <- MCBytes
    Sizes <- MCSizes
    NvtEol = TRUE
    MayFail = TRUE
    MaxCall = 2
SPECIFICATION Spec
INVARIANTS TypeOK StartInBuffer
PROPERTY ImplementsStream
CHECK_DEADLOCK FALSE
