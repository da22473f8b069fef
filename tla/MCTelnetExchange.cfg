CONSTANTS
    Bytes <- MCBytes
    Sizes <- MCSizes
    NvtEol = FALSE
    MayFail = FALSE
    MaxCall = 5
    Beyond <- MCBeyond
    Scripts <- MCScripts
    TransmitBinary = FALSE
SPECIFICATION MCExchangeSpec
INVARIANTS RecvTypeOK UnreadIntact RoundTrip ReturnedInOrder
PROPERTY LastRunReturned
