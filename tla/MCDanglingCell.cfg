SPECIFICATION Spec
CONSTANTS
    c1 = c1
    c2 = c2
    c3 = c3
    c4 = c4
    n1 = n1
    n2 = n2
    n3 = n3
    Null = Null
    Clients <- MCClients
    Nodes <- MCNodes
SYMMETRY Symmetry
INVARIANT
    RemovedForGood
CHECK_DEADLOCK FALSE
