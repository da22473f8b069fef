CONSTANTS
    Bytes <- MCBytes
    Sizes <- MCSizes
    NvtEol = FALSE
    MayFail = FALSE
    MaxCall = 5
    Beyond <- MCBeyond
    Scripts <- Typing
    TransmitBinary = FALSE
SPECIFICATION ExchangeSpec
INVARIANT NothingTypedIsLost
