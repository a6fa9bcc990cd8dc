\* One node and two calls, in the real durations; one of the stores may reject.
CONSTANTS
    n1 = n1
    n2 = n2
    r1 = r1
    r2 = r2
    ip1 = ip1
    ip2 = ip2
    c1 = c1
    c2 = c2
    c3 = c3
    NoRow = NoRow
    NodeIds <- OneNode
    Regs <- OneReg
    Ips <- OneIp
    DirCalls <- TwoCalls
    DirWorlds <- OneMayFail
    OfflineAfter = 4
    RemoveAfter = 20
    NodeTtl = 2
    SweepEvery = 2
SPECIFICATION Spec
SYMMETRY Symmetry
INVARIANTS InTime
PROPERTIES SweepsSpareTheHeard
