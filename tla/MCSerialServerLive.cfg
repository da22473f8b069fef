SPECIFICATION FairSpec
CONSTANTS
    s1 = s1
    s2 = s2
    t1 = t1
    NoClient = NoClient
    SshClients <- MCOneSsh
    TelnetClients <- MCTelnet
    Legit <- MCLegit
    MaxTry = 1
    MaxChunks = 1
    Mishaps <- Blockers
PROPERTIES
    StopEndsUnlessHeld
    BrokenIsRemoved
    LoginIsServed
CHECK_DEADLOCK FALSE
