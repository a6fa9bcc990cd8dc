CONSTANTS
    c1 = c1 c2 = c2 n1 = n1 n2 = n2 s1 = s1 s2 = s2
    lan = lan wan = wan
    None = None
    Clients <- MCClients
    Nodes <- MCNodes
    Sessions <- MCSessions
    Addrs <- MCAddrs
    Owner <- MCOwner
    Exit <- MCExit
    Tells = {c1}
    Local <- MCLocal
    Sources <- MCSources
    NodeApi = TRUE
    Packets = {1}
    Copies = 3
    Timeout = 0
    SweepEvery = 1
SPECIFICATION Spec
INVARIANTS
    StaysWithTheClient TableHolds AnswersGoWhereTheClientWas
