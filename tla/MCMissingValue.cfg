CONSTANTS
    Bytes <- MCBytes
    Sizes <- MCSizes
    NvtEol = FALSE
    MayFail = FALSE
    MaxCall = 5
    Beyond <- MCBeyond
    Scripts <- NoValue
    TransmitBinary = FALSE
SPECIFICATION ExchangeSpec
INVARIANT MissingValueIsEmpty
