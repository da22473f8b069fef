SPECIFICATION Spec
CONSTANTS
    s1 = s1
    s2 = s2
    t1 = t1
    NoClient = NoClient
    SshClients <- MCOneSsh
    TelnetClients <- MCTelnet
    Legit <- MCLegit
    MaxTry = 2
    MaxChunks = 1
    Mishaps <- NoMishaps
INVARIANT
    AllClosedAtExit
CHECK_DEADLOCK FALSE
