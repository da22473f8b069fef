SPECIFICATION FairSpec
CONSTANTS
    Supports <- MCSupports
    MaxAsks = 5
    MaxStrays = 1
INVARIANTS
    TypeOK
    AppKnows
    AllLinked
    Agreement
    NoProtocolError
    BinaryOnlyWhenOn
PROPERTY
    Settles
CHECK_DEADLOCK FALSE
