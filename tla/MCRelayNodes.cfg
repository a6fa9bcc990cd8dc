\* Two sockets of one node, one lookup in flight, failures and restarts, under
\* fairness of the event loop and the timers.
CONSTANTS
    s1 = s1
    s2 = s2
    n1 = n1
    w1 = w1
    w2 = w2
    w3 = w3
    c1 = c1
    c2 = c2
    sweep = sweep
    NoSession = NoSession
    NoSocket = NoSocket
    Sessions <- Empty
    Nodes <- OneNode
    Sockets <- TwoSockets
    Calls <- OneCall
    Sweepers <- Empty
    Faults <- AllFaults
    MayCrash = TRUE
SPECIFICATION FairSpec

INVARIANTS RecordsAgree
PROPERTIES NoIntervalLeak
