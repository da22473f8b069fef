SPECIFICATION Spec
CONSTANTS
    s1 = s1
    s2 = s2
    t1 = t1
    NoClient = NoClient
    SshClients <- MCSsh
    TelnetClients <- MCTelnet
    Legit <- MCLegit
    MaxTry = 2
    MaxChunks = 2
    Mishaps <- Failures
INVARIANTS
    TypeOK
    MutualExclusion
    ListedAreAuthorised
    OneOwner
    DeviceStream
PROPERTY
    ImplementsRoster
CHECK_DEADLOCK FALSE
