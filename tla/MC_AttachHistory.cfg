CONSTANTS
    c1 = c1
    c2 = c2
    c3 = c3
    c4 = c4
    i1 = i1
    i2 = i2
    p1 = p1
    p2 = p2
    Wildcard = Wildcard
    NullData = NullData
    Head = Head
    Nil = Nil
    ExactParams <- MCExactParams
    Clients <- ListClients
    ClientData <- ListClientData
    Invokers = {}
    SerializedAttach = FALSE
SPECIFICATION HSpec
INVARIANT ConflictsOnlyFromOverlap
CHECK_DEADLOCK FALSE
